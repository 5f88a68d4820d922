--------------------------- MODULE PlatformProofs ---------------------------
(***************************************************************************)
(* What holds of spaces, of signing in to them, of connections to Meta and *)
(* through Pipedream, of conversations, of bug reports and of the super-   *)
(* admin panel, for any number of rows, of requests that overlap and of    *)
(* deliveries: work is kept and stays linked, links are single use, a      *)
(* connection left active stays usable, a private account private and a    *)
(* disconnected one gone, a message is one turn, and owners read the       *)
(* truth.                                                                  *)
(*                                                                         *)
(* None of it is inductive. For spaces it needs what a request that is not *)
(* out of date knows of the row it read (UpToDate), that a request never   *)
(* meets a space of the other kind when it writes (KindsStay), and for     *)
(* links who is about to issue a session (LinksAreSound); for connections, *)
(* who is about to replace the row and with what (AccountSound); for       *)
(* accounts at Pipedream, which bucket the rows in hand name (RowsFit) and *)
(* who is about to remove a row (GoneForGood); for conversations, what a   *)
(* handler has yet to record and to post (StillToDo); for reports, what    *)
(* the copies say (CopiesAgree); for seeding, what a call has resolved its *)
(* references to (CallInv); for the panel, which rows and figures its      *)
(* queries have been answered with (PageInv, OverviewInv, GrowthInv).      *)
(*                                                                         *)
(* The sum of MCPlatform. What is not followed does not move, so the       *)
(* invariants of all parts hold together.                                  *)
(***************************************************************************)
EXTENDS MCPlatform, AccountsProofs, Sums, SequenceTheorems, FiniteSetTheorems,
        WellFoundedInduction, TLAPS

-----------------------------------------------------------------------------
(* Spaces.  What a request writes it has read before.  An up-to-date request  *)
(* finds the thing as it read it (UpToDate); for a sign-in link that is: no   *)
(* session was issued, and nobody is about to issue one (LinksAreSound).      *)

Work == [op : CallerOps, target : Targets \cup {Missing}, space : SpaceIds \cup {Missing},
         row : Space \cup {Missing}, change : Changes \cup {Missing}, whole : BOOLEAN,
         email : Emails \cup {Missing}, found : BOOLEAN, stale : BOOLEAN]

SpacesTyped ==
    /\ spaces \in [SpaceIds -> Space \cup {Missing}]
    /\ asked \in [SpaceIds -> Space \cup {Missing, Gone}]
    /\ pageState = ticked /\ DOMAIN pageState = SpaceIds
    /\ records \in [SpaceIds -> [RecordIds -> Changes \cup {Missing}]]
    /\ askedRecords \in [SpaceIds -> [RecordIds -> Changes \cup {Missing}]]
    /\ links \in [Links -> Link \cup {Missing, Gone}]
    /\ redeemed \in [Links -> Nat]
    /\ caller \in [Callers -> Work]
    /\ outdated \subseteq Targets

(* What an operation is about. *)
Aims(w) ==
    /\ w.op \in {"updateSpec", "updatePage"} => w.space \in SpaceIds /\ w.target = SpaceTarget(w.space)
    /\ w.op \in {"addRecord", "updateRecord"} =>
            w.space \in SpaceIds /\ w.change \in Changes
            /\ \E r \in RecordIds : w.target = RecordTarget(w.space, r)
    /\ w.op = "verify" =>
            w.space \in SpaceIds /\ w.email \in Emails /\ \E l \in Links : w.target = LinkTarget(l)
    /\ w.op \in {"findMember", "saveMember"} => w.target = Missing \/ \E l \in Links : w.target = LinkTarget(l)
    /\ w.op = "updateSpec" => w.row \in Space /\ w.row.kind = "app"
    /\ w.op = "updatePage" => w.row \in Space /\ w.row.kind = "page" /\ w.change \in Changes

(* A space is what it was asked to be; pages and apps do not become each other. *)
KindsStay ==
    /\ \A s \in SpaceIds :
        /\ asked[s] = Missing => spaces[s] = Missing
        /\ IsPage(s) => asked[s] \in Space
    /\ \A q \in Callers :
        /\ caller[q].op \in {"updateSpec", "updatePage", "addRecord", "updateRecord"} =>
                asked[caller[q].space] # Missing
        /\ caller[q].op = "updateSpec" => ~IsPage(caller[q].space)
        /\ caller[q].op = "updatePage" => ~IsApp(caller[q].space)
    /\ \A q, p \in Callers : caller[q].op = "updateSpec" /\ caller[p].op = "updatePage" =>
            caller[q].space # caller[p].space

(* Read a while ago, and still true. *)
UpToDate(w) ==
    /\ w.op = "updateSpec" => w.target \in outdated \/ asked[w.space] # Gone
    /\ w.op = "updatePage" =>
            /\ Exists(w.space)
            /\ w.row = [spaces[w.space] EXCEPT !.content = Edited(spaces[w.space].content, w.change, w.whole)]
    /\ w.op = "updateRecord" => \A r \in RecordIds : w.target = RecordTarget(w.space, r) =>
            SpaceTarget(w.space) \in outdated \/ w.target \in outdated
            \/ askedRecords[w.space][r] # Missing

SessionUnderWay(q, l) ==
    caller[q].op \in {"findMember", "saveMember"} /\ caller[q].target = LinkTarget(l)
Verifies(q, l) == caller[q].op = "verify" /\ caller[q].target = LinkTarget(l)
Spent(l) == links[l] = Gone \/ (links[l] \in Link /\ links[l].used)

(* A link with a session, issued or under way, is spent, and who still verifies
   it read it too long ago. *)
LinksAreSound ==
    \A l \in Links :
        /\ \A q \in Callers : Verifies(q, l) => links[l] # Missing
        /\ (redeemed[l] > 0 \/ \E q \in Callers : SessionUnderWay(q, l)) => Spent(l)
        /\ LinkTarget(l) \notin outdated =>
            /\ redeemed[l] <= 1
            /\ \A q, p \in Callers : SessionUnderWay(q, l) /\ SessionUnderWay(p, l) => q = p
            /\ \A q \in Callers : SessionUnderWay(q, l) => redeemed[l] = 0
            /\ \A q \in Callers : Verifies(q, l) /\ ~caller[q].stale =>
                    redeemed[l] = 0 /\ \A p \in Callers : ~SessionUnderWay(p, l)

SpacesInv ==
    /\ SpacesTyped
    /\ \A q \in Callers : Aims(caller[q])
    /\ KindsStay
    /\ \A q \in Callers : ~caller[q].stale => UpToDate(caller[q])
    /\ WorkIsKept
    /\ LinksAreSound

LEMMA RestingIsWork ==
    Resting \in Work /\ Resting.op = "idle" /\ ~Resting.stale /\ Resting.target = Missing
<1> DEFINE no == FALSE
           rest == [op |-> "idle", target |-> Missing, space |-> Missing, row |-> Missing,
                    change |-> Missing, whole |-> no, email |-> Missing, found |-> no, stale |-> no]
<1>1. no \in BOOLEAN /\ ~no
  OBVIOUS
<1> HIDE DEF no
<1>2. rest \in Work /\ rest.op = "idle" /\ ~rest.stale /\ rest.target = Missing
  BY <1>1 DEF Work, CallerOps
<1>3. rest = Resting
  BY DEF Resting, no
<1> QED  BY <1>2, <1>3

LEMMA TargetsExist ==
    /\ \A s \in SpaceIds : SpaceTarget(s) \in Targets /\ SpaceTarget(s) # Missing
    /\ \A l \in Links : LinkTarget(l) \in Targets /\ LinkTarget(l) # Missing
    /\ \A s \in SpaceIds, r \in RecordIds : RecordTarget(s, r) \in Targets /\ RecordTarget(s, r) # Missing
<1>1. Missing \notin Targets
  BY NoSpaceRowAssumption
<1> QED  BY <1>1 DEF Targets

LEMMA TargetsDiffer ==
    ASSUME NEW s, NEW t, NEW r, NEW u, NEW l, NEW k
    PROVE  /\ SpaceTarget(s) # RecordTarget(t, r) /\ SpaceTarget(s) # LinkTarget(l)
           /\ RecordTarget(s, r) # LinkTarget(l)
           /\ SpaceTarget(s) = SpaceTarget(t) => s = t
           /\ RecordTarget(s, r) = RecordTarget(t, u) => s = t /\ r = u
           /\ LinkTarget(l) = LinkTarget(k) => l = k
           /\ RecordTarget(s, r)[3] = r /\ LinkTarget(l)[2] = l
BY DEF SpaceTarget, RecordTarget, LinkTarget

(* A request that goes on, and how the others see it. *)
LEMMA ReadsMoves ==
    ASSUME caller \in [Callers -> Work], NEW q \in Callers, NEW next \in Work, Reads(q, next)
    PROVE  /\ caller' \in [Callers -> Work] /\ caller'[q] = next /\ caller[q] = Resting
           /\ \A c \in Callers : c # q => caller'[c] = caller[c]
BY DEF Reads

LEMMA WritesMoves ==
    ASSUME caller \in [Callers -> Work], NEW q, NEW ts, NEW next \in Work, Writes(q, ts, next)
    PROVE  /\ caller' \in [Callers -> Work] /\ (q \in Callers => caller'[q] = next)
           /\ \A c \in Callers : c # q =>
                /\ caller'[c].op = caller[c].op /\ caller'[c].target = caller[c].target
                /\ caller'[c].space = caller[c].space /\ caller'[c].row = caller[c].row
                /\ caller'[c].change = caller[c].change /\ caller'[c].whole = caller[c].whole
                /\ caller'[c].email = caller[c].email /\ caller'[c].found = caller[c].found
                /\ caller'[c].stale <=> caller[c].stale \/ caller[c].target \in ts
<1> DEFINE late(c) == caller[c].stale \/ caller[c].target \in ts
           told(c) == [caller[c] EXCEPT !.stale = late(c)]
<1>1. caller' = [c \in Callers |-> IF c = q THEN next ELSE told(c)]
  BY DEF Writes
<1>2. ASSUME NEW c \in Callers  PROVE late(c) \in BOOLEAN
  <2>1. caller[c].stale \in BOOLEAN
    BY DEF Work
  <2> QED  BY <2>1
<1> HIDE DEF late
<1>3. ASSUME NEW c \in Callers
      PROVE  /\ told(c) \in Work /\ told(c).op = caller[c].op /\ told(c).target = caller[c].target
             /\ told(c).space = caller[c].space /\ told(c).row = caller[c].row
             /\ told(c).change = caller[c].change /\ told(c).whole = caller[c].whole
             /\ told(c).email = caller[c].email /\ told(c).found = caller[c].found
             /\ told(c).stale = late(c)
  BY <1>2 DEF Work
<1> HIDE DEF told
<1>4. /\ caller' \in [Callers -> Work] /\ (q \in Callers => caller'[q] = next)
      /\ \A c \in Callers : c # q => caller'[c] = told(c)
  BY <1>1, <1>3
<1> QED  BY <1>3, <1>4, ZenonT(60) DEF late

LEMMA InitSpacesInv == SpacesInit => SpacesInv
<1> SUFFICES ASSUME SpacesInit PROVE SpacesInv
    OBVIOUS
<1>1. \A q \in Callers : caller[q] = Resting
  BY DEF SpacesInit
<1>2. SpacesTyped
  <2>1. NoRecords \in [RecordIds -> Changes \cup {Missing}] /\ caller \in [Callers -> Work]
    BY RestingIsWork DEF NoRecords, SpacesInit
  <2> QED  BY <2>1 DEF SpacesInit, SpacesTyped
<1>3. \A q \in Callers : Aims(caller[q]) /\ UpToDate(caller[q])
  BY <1>1, RestingIsWork DEF Aims, UpToDate
<1>4. KindsStay
  BY <1>1, RestingIsWork DEF KindsStay, SpacesInit, IsPage, IsApp, Exists
<1>5. WorkIsKept
  BY NoSpaceRowAssumption DEF WorkIsKept, SpacesInit
<1>6. LinksAreSound
  BY <1>1, RestingIsWork DEF LinksAreSound, SpacesInit, SessionUnderWay, Verifies
<1> QED  BY <1>2, <1>3, <1>4, <1>5, <1>6 DEF SpacesInv

(* The same thing is read or written by the same request. *)
SameWork(q) ==
    /\ caller'[q].op = caller[q].op /\ caller'[q].target = caller[q].target
    /\ caller'[q].space = caller[q].space /\ caller'[q].row = caller[q].row
    /\ caller'[q].change = caller[q].change /\ caller'[q].whole = caller[q].whole
    /\ caller'[q].email = caller[q].email
    /\ ~caller'[q].stale => ~caller[q].stale

WorkOps == {"updateSpec", "updatePage", "addRecord", "updateRecord"}

LEMMA SameAims ==
    ASSUME NEW q \in Callers, Aims(caller[q]), SameWork(q)
    PROVE  Aims(caller'[q])
BY DEF Aims, SameWork

(* Nothing happens to spaces and records. *)
LEMMA WorkUntouched ==
    ASSUME SpacesInv, NoSpaceChange, outdated \subseteq outdated',
           \A q \in Callers : caller'[q].op \in WorkOps => SameWork(q)
    PROVE  /\ KindsStay' /\ WorkIsKept'
           /\ \A q \in Callers : ~caller'[q].stale => UpToDate(caller[q])'
<1>1. UNCHANGED <<spaces, pageState, records, asked, askedRecords, ticked>>
  BY DEF NoSpaceChange
<1>2. KindsStay'
  BY <1>1 DEF SpacesInv, KindsStay, WorkOps, SameWork, IsPage, IsApp, Exists
<1>3. WorkIsKept'
  BY <1>1 DEF SpacesInv, WorkIsKept
<1>4. ASSUME NEW q \in Callers, ~caller'[q].stale  PROVE UpToDate(caller[q])'
  <2>1. CASE caller'[q].op \in WorkOps
    <3>1. UpToDate(caller[q]) /\ SameWork(q)
      BY <1>4, <2>1 DEF SpacesInv, SameWork
    <3> QED  BY <1>1, <3>1 DEF UpToDate, SameWork, Exists, Edited
  <2>2. CASE caller'[q].op \notin WorkOps
    BY <2>2 DEF WorkOps, UpToDate
  <2> QED  BY <2>1, <2>2
<1> QED  BY <1>2, <1>3, <1>4

(* Links are spent if anything, and no session begins. *)
LEMMA LinksUntouched ==
    ASSUME SpacesInv, redeemed' = redeemed, outdated \subseteq outdated',
           \A l \in Links : (Spent(l) => Spent(l)') /\ (links[l] # Missing => links'[l] # Missing),
           \A q \in Callers, l \in Links :
                /\ SessionUnderWay(q, l)' => SessionUnderWay(q, l)
                /\ Verifies(q, l)' => Verifies(q, l) /\ (~caller'[q].stale => ~caller[q].stale)
    PROVE  LinksAreSound'
BY DEF SpacesInv, LinksAreSound

(* A request reads, finds what it looked for, and nothing changes. *)
LEMMA ReadingInv ==
    ASSUME SpacesInv, NEW q \in Callers, NEW next \in Work, Reads(q, next), NoSpaceChange,
           NoSignInChange, UNCHANGED outdated, Aims(next), UpToDate(next),
           next.op \in WorkOps => asked[next.space] # Missing,
           next.op = "updateSpec" => IsApp(next.space), next.op = "updatePage" => IsPage(next.space),
           next.op \in {"findMember", "saveMember"} => next.target = Missing,
           \A l \in Links : next.op = "verify" /\ next.target = LinkTarget(l) =>
                links[l] # Missing /\ ~Spent(l)
    PROVE  SpacesInv'
<1>1. /\ UNCHANGED <<spaces, pageState, records, asked, askedRecords, ticked>>
      /\ UNCHANGED <<links, members, redeemed, outdated>>
  BY DEF NoSpaceChange, NoSignInChange
<1>2. /\ caller' \in [Callers -> Work] /\ caller'[q] = next /\ caller[q] = Resting
      /\ \A c \in Callers : c # q => caller'[c] = caller[c]
  BY ReadsMoves DEF SpacesInv, SpacesTyped
<1>3. SpacesTyped'
  BY <1>1, <1>2 DEF SpacesInv, SpacesTyped
<1>4. \A c \in Callers : Aims(caller'[c])
  BY <1>2 DEF SpacesInv
<1>5. KindsStay'
  <2>1. \A c \in Callers : caller'[c].op = "updateSpec" => ~IsPage(caller'[c].space)
    BY <1>2 DEF SpacesInv, KindsStay, IsApp, IsPage
  <2>2. \A c \in Callers : caller'[c].op = "updatePage" => ~IsApp(caller'[c].space)
    BY <1>2 DEF SpacesInv, KindsStay, IsApp, IsPage
  <2>3. ASSUME NEW c \in Callers, NEW p \in Callers,
               caller'[c].op = "updateSpec", caller'[p].op = "updatePage"
        PROVE  caller'[c].space # caller'[p].space
    BY <1>2, <2>1, <2>2, <2>3 DEF SpacesInv, KindsStay
  <2>4. \A c \in Callers : caller'[c].op \in WorkOps => asked[caller'[c].space] # Missing
    BY <1>2 DEF SpacesInv, KindsStay, WorkOps
  <2> QED  BY <1>1, <2>1, <2>2, <2>3, <2>4 DEF SpacesInv, KindsStay, WorkOps, IsApp, IsPage, Exists
<1>6. ASSUME NEW c \in Callers, ~caller'[c].stale  PROVE UpToDate(caller[c])'
  <2>1. PICK w : w = caller'[c] /\ UpToDate(w)
    BY <1>2, <1>6 DEF SpacesInv
  <2> QED  BY <1>1, <2>1 DEF UpToDate, Exists, Edited
<1>7. WorkIsKept'
  BY <1>1 DEF SpacesInv, WorkIsKept
<1>8. LinksAreSound'
  <2>1. ASSUME NEW c \in Callers, NEW l \in Links
        PROVE  /\ SessionUnderWay(c, l)' => SessionUnderWay(c, l)
               /\ Verifies(c, l)' => (Verifies(c, l) /\ caller'[c] = caller[c])
                                     \/ (c = q /\ links[l] # Missing /\ ~Spent(l))
    <3>1. LinkTarget(l) # Missing
      BY TargetsExist
    <3>2. c # q => caller'[c] = caller[c]
      BY <1>2
    <3>3. c = q => caller'[c] = next /\ next.op \in CallerOps
      BY <1>2 DEF Work
    <3> QED  BY <3>1, <3>2, <3>3 DEF SessionUnderWay, Verifies
  <2>2. \A l \in Links : Spent(l)' <=> Spent(l)
    BY <1>1 DEF Spent
  <2>3. ASSUME NEW l \in Links, ~Spent(l)
        PROVE  redeemed[l] = 0 /\ \A p \in Callers : ~SessionUnderWay(p, l)
    BY <2>3 DEF SpacesInv, SpacesTyped, LinksAreSound
  <2> QED  BY <1>1, <2>1, <2>2, <2>3 DEF SpacesInv, LinksAreSound
<1> QED  BY <1>3, <1>4, <1>5, <1>6, <1>7, <1>8 DEF SpacesInv

-----------------------------------------------------------------------------
(* The steps of signing in.                                                  *)

LEMMA SignInInv ==
    ASSUME SpacesInv, NoSpaceChange, outdated \subseteq outdated', SpacesTyped', LinksAreSound',
           \A q \in Callers : Aims(caller'[q]) /\ (caller'[q].op \in WorkOps => SameWork(q))
    PROVE  SpacesInv'
BY WorkUntouched DEF SpacesInv

LEMMA LinkRowsInv ==
    ASSUME SpacesInv, NoSpaceChange, UNCHANGED <<members, caller, redeemed, outdated>>,
           links' \in [Links -> Link \cup {Missing, Gone}],
           \A l \in Links : (Spent(l) => Spent(l)') /\ (links[l] # Missing => links'[l] # Missing)
    PROVE  SpacesInv'
<1>1. UNCHANGED <<spaces, pageState, records, asked, askedRecords, ticked>>
  BY DEF NoSpaceChange
<1>2. SpacesTyped'
  BY <1>1 DEF SpacesInv, SpacesTyped
<1>3. LinksAreSound'
  BY LinksUntouched DEF SessionUnderWay, Verifies
<1>4. \A q \in Callers : Aims(caller'[q]) /\ SameWork(q)
  BY DEF SpacesInv, SameWork
<1> QED  BY <1>2, <1>3, <1>4, SignInInv

LEMMA RequestLinkInv ==
    ASSUME SpacesInv, NEW l \in Links, NEW s \in SpaceIds, NEW e \in Emails, RequestLink(l, s, e)
    PROVE  SpacesInv'
<1> DEFINE no == FALSE
           row == [space |-> s, email |-> e, used |-> no, expired |-> no]
<1>1. /\ links' = [links EXCEPT ![l] = row] /\ links[l] = Missing /\ NoSpaceChange
      /\ UNCHANGED <<members, caller, redeemed, outdated>>
  BY DEF RequestLink
<1>2. no \in BOOLEAN
  OBVIOUS
<1> HIDE DEF no
<1>3. row \in Link
  BY <1>2 DEF Link
<1> HIDE DEF row
<1>4. /\ links \in [Links -> Link \cup {Missing, Gone}]
      /\ links' \in [Links -> Link \cup {Missing, Gone}] /\ links'[l] = row
      /\ \A k \in Links : k # l => links'[k] = links[k]
  BY <1>1, <1>3 DEF SpacesInv, SpacesTyped
<1>5. \A k \in Links : (Spent(k) => Spent(k)') /\ (links[k] # Missing => links'[k] # Missing)
  BY <1>1, <1>4, NoSpaceRowAssumption DEF Spent
<1> QED  BY <1>1, <1>4, <1>5, LinkRowsInv

LEMMA ExpireLinkInv ==
    ASSUME SpacesInv, NEW l \in Links, ExpireLink(l)
    PROVE  SpacesInv'
<1> DEFINE yes == TRUE
           row == [links[l] EXCEPT !.expired = yes]
<1>1. /\ links' = [links EXCEPT ![l] = row] /\ links[l] \in Link /\ NoSpaceChange
      /\ links \in [Links -> Link \cup {Missing, Gone}]
      /\ UNCHANGED <<members, caller, redeemed, outdated>>
  BY DEF ExpireLink, SpacesInv, SpacesTyped
<1>2. yes \in BOOLEAN
  OBVIOUS
<1> HIDE DEF yes
<1>3. row \in Link /\ row.used = links[l].used
  BY <1>1, <1>2 DEF Link
<1> HIDE DEF row
<1>4. /\ links' \in [Links -> Link \cup {Missing, Gone}] /\ links'[l] = row
      /\ \A k \in Links : k # l => links'[k] = links[k]
  BY <1>1, <1>3
<1>5. \A k \in Links : (Spent(k) => Spent(k)') /\ (links[k] # Missing => links'[k] # Missing)
  BY <1>1, <1>3, <1>4, NoSpaceRowAssumption DEF Spent
<1> QED  BY <1>1, <1>4, <1>5, LinkRowsInv

LEMMA PurgeExpiredInv ==
    ASSUME SpacesInv, PurgeExpired
    PROVE  SpacesInv'
<1>1. /\ links' = [l \in Links |-> IF links[l] \in Link /\ links[l].expired THEN Gone ELSE links[l]]
      /\ links \in [Links -> Link \cup {Missing, Gone}] /\ NoSpaceChange
      /\ UNCHANGED <<members, caller, redeemed, outdated>>
  BY DEF PurgeExpired, SpacesInv, SpacesTyped
<1>2. links' \in [Links -> Link \cup {Missing, Gone}]
  BY <1>1
<1>3. \A k \in Links : (Spent(k) => Spent(k)') /\ (links[k] # Missing => links'[k] # Missing)
  BY <1>1, NoSpaceRowAssumption DEF Spent
<1> QED  BY <1>1, <1>2, <1>3, LinkRowsInv

(* A request ends, or dies. *)
LEMMA RestsInv ==
    ASSUME SpacesInv, NEW q \in Callers, Writes(q, {}, Resting), NoSpaceChange, NoSignInChange,
           UNCHANGED outdated
    PROVE  SpacesInv'
<1>1. /\ UNCHANGED <<spaces, pageState, records, asked, askedRecords, ticked>>
      /\ UNCHANGED <<links, members, redeemed, outdated>>
  BY DEF NoSpaceChange, NoSignInChange
<1>2. /\ caller' \in [Callers -> Work] /\ caller'[q] = Resting
      /\ \A c \in Callers : c # q => SameWork(c)
  BY WritesMoves, RestingIsWork DEF SpacesInv, SpacesTyped, SameWork
<1>3. SpacesTyped'
  BY <1>1, <1>2 DEF SpacesInv, SpacesTyped
<1>4. LinksAreSound'
  <2>1. \A c \in Callers, l \in Links :
            /\ SessionUnderWay(c, l)' => SessionUnderWay(c, l)
            /\ Verifies(c, l)' => Verifies(c, l) /\ (~caller'[c].stale => ~caller[c].stale)
    BY <1>2, RestingIsWork DEF SessionUnderWay, Verifies, SameWork
  <2>2. \A l \in Links : (Spent(l) => Spent(l)') /\ (links[l] # Missing => links'[l] # Missing)
    BY <1>1 DEF Spent
  <2> QED  BY <1>1, <2>1, <2>2, LinksUntouched
<1>5. \A c \in Callers : Aims(caller'[c]) /\ (caller'[c].op \in WorkOps => SameWork(c))
  <2>1. Aims(Resting) /\ Resting.op \notin WorkOps
    BY RestingIsWork DEF Aims, WorkOps
  <2> QED  BY <1>2, <2>1, SameAims DEF SpacesInv
<1> QED  BY <1>1, <1>3, <1>4, <1>5, SignInInv

LEMMA FindMemberInv ==
    ASSUME SpacesInv, NEW q \in Callers, FindMember(q)
    PROVE  SpacesInv'
<1> DEFINE found == <<caller[q].space, caller[q].email>> \in members
           next == [caller[q] EXCEPT !.op = "saveMember", !.found = found]
<1>1. /\ UNCHANGED <<spaces, pageState, records, asked, askedRecords, ticked>>
      /\ UNCHANGED <<links, members, redeemed, outdated>> /\ NoSpaceChange
      /\ caller[q].op = "findMember" /\ caller \in [Callers -> Work] /\ Writes(q, {}, next)
  BY DEF FindMember, NoSpaceChange, NoSignInChange, SpacesInv, SpacesTyped
<1>2. found \in BOOLEAN
  OBVIOUS
<1> HIDE DEF found
<1>3. next \in Work /\ next.op = "saveMember" /\ next.target = caller[q].target
  BY <1>1, <1>2 DEF Work, CallerOps
<1> HIDE DEF next
<1>4. /\ caller' \in [Callers -> Work] /\ caller'[q] = next
      /\ \A c \in Callers : c # q => SameWork(c)
  BY <1>1, <1>3, WritesMoves DEF SameWork
<1>5. SpacesTyped'
  BY <1>1, <1>4 DEF SpacesInv, SpacesTyped
<1>6. LinksAreSound'
  <2>1. \A c \in Callers, l \in Links :
            /\ SessionUnderWay(c, l)' => SessionUnderWay(c, l)
            /\ Verifies(c, l)' => Verifies(c, l) /\ (~caller'[c].stale => ~caller[c].stale)
    BY <1>1, <1>3, <1>4 DEF SessionUnderWay, Verifies, SameWork
  <2>2. \A l \in Links : (Spent(l) => Spent(l)') /\ (links[l] # Missing => links'[l] # Missing)
    BY <1>1 DEF Spent
  <2> QED  BY <1>1, <2>1, <2>2, LinksUntouched
<1>7. \A c \in Callers : Aims(caller'[c]) /\ (caller'[c].op \in WorkOps => SameWork(c))
  <2>1. Aims(caller[q])
    BY DEF SpacesInv
  <2>2. Aims(next) /\ next.op \notin WorkOps
    BY <1>1, <1>3, <2>1 DEF Aims, WorkOps
  <2> QED  BY <1>4, <2>2, SameAims DEF SpacesInv
<1> QED  BY <1>1, <1>5, <1>6, <1>7, SignInInv

(* The first up-to-date request to mark a link used is alone with it. *)
LEMMA MarkUsedInv ==
    ASSUME SpacesInv, NEW q \in Callers, MarkUsed(q)
    PROVE  SpacesInv'
<1> DEFINE s == caller[q].space
<1>1. /\ UNCHANGED <<spaces, pageState, records, asked, askedRecords, ticked>>
      /\ UNCHANGED <<members, redeemed>> /\ NoSpaceChange
      /\ caller[q].op = "verify" /\ caller \in [Callers -> Work] /\ caller[q] \in Work
      /\ links \in [Links -> Link \cup {Missing, Gone}]
  BY DEF MarkUsed, NoSpaceChange, SpacesInv, SpacesTyped
<1>2. PICK l \in Links : caller[q].target = LinkTarget(l)
  BY <1>1 DEF SpacesInv, Aims
<1>3. s \in SpaceIds /\ caller[q].email \in Emails /\ Verifies(q, l) /\ links[l] # Missing
  BY <1>1, <1>2 DEF SpacesInv, Aims, Verifies, LinksAreSound
<1>4. CASE ~Exists(s)
  <2>1. UNCHANGED <<links, outdated>> /\ Writes(q, {}, Resting)
    BY <1>4 DEF MarkUsed
  <2> QED  BY <1>1, <2>1, RestsInv DEF NoSignInChange
<1>5. CASE Exists(s)
  <2> DEFINE yes == TRUE
             no == FALSE
             late == links[l] = Gone \/ links[l].expired
             row == [space |-> s, email |-> caller[q].email, used |-> yes, expired |-> late]
             next == [caller[q] EXCEPT !.op = "findMember", !.stale = no]
  <2>1. caller[q].target[2] = l
    BY <1>2, TargetsDiffer
  <2>2. /\ links' = [links EXCEPT ![l] = row] /\ Contests(q)
        /\ Writes(q, {LinkTarget(l)}, next)
    BY <1>5, <2>1 DEF MarkUsed
  <2>3. late \in BOOLEAN /\ yes \in BOOLEAN /\ no \in BOOLEAN /\ yes
    OBVIOUS
  <2> HIDE DEF late, yes, no
  <2>4. row \in Link /\ row.used
    BY <1>3, <2>3 DEF Link
  <2>5. next \in Work /\ next.op = "findMember" /\ next.target = LinkTarget(l)
    BY <1>1, <1>2, <2>3 DEF Work, CallerOps
  <2> HIDE DEF row, next
  <2>6. /\ caller' \in [Callers -> Work] /\ caller'[q] = next
        /\ \A c \in Callers : c # q => SameWork(c) /\ (caller[c].target = LinkTarget(l) => caller'[c].stale)
    BY <1>1, <2>2, <2>5, WritesMoves DEF SameWork
  <2>7. /\ links' \in [Links -> Link \cup {Missing, Gone}] /\ links'[l] = row
        /\ \A k \in Links : k # l => links'[k] = links[k]
    BY <1>1, <2>2, <2>4
  <2>8. /\ outdated \subseteq outdated' /\ outdated' \subseteq outdated \cup {LinkTarget(l)}
        /\ LinkTarget(l) \notin outdated' => ~caller[q].stale
    BY <1>2, <2>2 DEF Contests
  <2>9. SpacesTyped'
    <3>1. outdated' \subseteq Targets
      BY <2>8, TargetsExist DEF SpacesInv, SpacesTyped
    <3> QED  BY <1>1, <2>6, <2>7, <3>1 DEF SpacesInv, SpacesTyped
  <2>10. \A k \in Links : k # l => LinkTarget(k) # LinkTarget(l)
    BY TargetsDiffer
  <2>11. LinksAreSound'
    <3>1. ASSUME NEW c \in Callers, NEW k \in Links
          PROVE  /\ SessionUnderWay(c, k)' => SessionUnderWay(c, k) \/ (c = q /\ k = l)
                 /\ Verifies(c, k)' => /\ c # q /\ Verifies(c, k) /\ (~caller'[c].stale => ~caller[c].stale)
                                       /\ k = l => caller'[c].stale
      BY <2>5, <2>6, <2>10 DEF SessionUnderWay, Verifies, SameWork
    <3>2. \A k \in Links : (Spent(k) => Spent(k)') /\ links[k] # Missing => links'[k] # Missing
      BY <2>4, <2>7, NoSpaceRowAssumption DEF Spent
    <3>3. Spent(l)' /\ \A k \in Links : Spent(k) => Spent(k)'
      BY <2>4, <2>7 DEF Spent
    <3>4. ASSUME LinkTarget(l) \notin outdated'
          PROVE  redeemed[l] = 0 /\ \A p \in Callers : ~SessionUnderWay(p, l)
      BY <1>3, <2>8, <3>4 DEF SpacesInv, LinksAreSound
    <3>5. ASSUME NEW k \in Links, NEW c \in Callers, Verifies(c, k)'  PROVE links'[k] # Missing
      BY <2>4, <2>7, <3>1, <3>5, NoSpaceRowAssumption DEF SpacesInv, LinksAreSound
    <3>6. ASSUME NEW k \in Links, redeemed'[k] > 0 \/ \E c \in Callers : SessionUnderWay(c, k)'
          PROVE  Spent(k)'
      BY <1>1, <3>1, <3>3, <3>6 DEF SpacesInv, LinksAreSound
    <3>7. ASSUME NEW k \in Links, k # l, LinkTarget(k) \notin outdated'
          PROVE  /\ redeemed'[k] <= 1
                 /\ \A c, p \in Callers : SessionUnderWay(c, k)' /\ SessionUnderWay(p, k)' => c = p
                 /\ \A c \in Callers : SessionUnderWay(c, k)' => redeemed'[k] = 0
                 /\ \A c \in Callers : Verifies(c, k)' /\ ~caller'[c].stale =>
                        redeemed'[k] = 0 /\ \A p \in Callers : ~SessionUnderWay(p, k)'
      BY <1>1, <2>8, <3>1, <3>7 DEF SpacesInv, LinksAreSound
    <3>8. ASSUME LinkTarget(l) \notin outdated'
          PROVE  /\ redeemed'[l] <= 1
                 /\ \A c, p \in Callers : SessionUnderWay(c, l)' /\ SessionUnderWay(p, l)' => c = p
                 /\ \A c \in Callers : SessionUnderWay(c, l)' => redeemed'[l] = 0
                 /\ \A c \in Callers : ~(Verifies(c, l)' /\ ~caller'[c].stale)
      BY <1>1, <3>1, <3>4, <3>8
    <3> QED  BY <3>5, <3>6, <3>7, <3>8 DEF LinksAreSound
  <2>12. \A c \in Callers : Aims(caller'[c]) /\ (caller'[c].op \in WorkOps => SameWork(c))
    <3>1. Aims(next) /\ next.op \notin WorkOps
      BY <2>5 DEF Aims, WorkOps
    <3> QED  BY <2>6, <3>1, SameAims DEF SpacesInv
  <2> QED  BY <1>1, <2>8, <2>9, <2>11, <2>12, SignInInv
<1> QED  BY <1>4, <1>5

LEMMA SaveMemberInv ==
    ASSUME SpacesInv, NEW q \in Callers, SaveMember(q)
    PROVE  SpacesInv'
<1>1. /\ UNCHANGED <<spaces, pageState, records, asked, askedRecords, ticked>>
      /\ UNCHANGED <<links, outdated>> /\ NoSpaceChange /\ Writes(q, {}, Resting)
      /\ caller[q].op = "saveMember" /\ caller \in [Callers -> Work]
      /\ redeemed \in [Links -> Nat]
  BY DEF SaveMember, NoSpaceChange, SpacesInv, SpacesTyped
<1>2. CASE UNCHANGED <<members, redeemed>>
  BY <1>1, <1>2, RestsInv DEF NoSignInChange
<1>3. CASE redeemed' = [l \in Links |->
                            redeemed[l] + (IF caller[q].target = LinkTarget(l) THEN 1 ELSE 0)]
  <2>1. /\ caller' \in [Callers -> Work] /\ caller'[q] = Resting
        /\ \A c \in Callers : c # q => SameWork(c)
    BY <1>1, WritesMoves, RestingIsWork DEF SameWork
  <2>2. redeemed' \in [Links -> Nat]
    BY <1>1, <1>3
  <2>3. SpacesTyped'
    BY <1>1, <2>1, <2>2 DEF SpacesInv, SpacesTyped
  <2>4. ASSUME NEW c \in Callers, NEW l \in Links
        PROVE  /\ SessionUnderWay(c, l)' => c # q /\ SessionUnderWay(c, l)
               /\ Verifies(c, l)' => c # q /\ Verifies(c, l) /\ (~caller'[c].stale => ~caller[c].stale)
    BY <2>1, RestingIsWork DEF SessionUnderWay, Verifies, SameWork
  <2>5. \A l \in Links : Spent(l)' <=> Spent(l)
    BY <1>1 DEF Spent
  <2>6. \A l \in Links : \/ redeemed'[l] = redeemed[l]
                         \/ redeemed'[l] = redeemed[l] + 1 /\ SessionUnderWay(q, l)
    BY <1>1, <1>3 DEF SessionUnderWay
  <2>7. ASSUME NEW l \in Links, redeemed'[l] = redeemed[l] + 1, SessionUnderWay(q, l)
        PROVE  /\ Spent(l)
               /\ LinkTarget(l) \notin outdated =>
                    /\ redeemed'[l] = 1 /\ \A c \in Callers : ~SessionUnderWay(c, l)'
                    /\ \A c \in Callers : ~(Verifies(c, l)' /\ ~caller'[c].stale)
    BY <2>4, <2>7 DEF SpacesInv, LinksAreSound
  <2>8. LinksAreSound'
    <3>1. \A l \in Links, c \in Callers : Verifies(c, l)' => links'[l] # Missing
      BY <1>1, <2>4 DEF SpacesInv, LinksAreSound
    <3>2. \A l \in Links : redeemed'[l] > 0 \/ (\E c \in Callers : SessionUnderWay(c, l)') => Spent(l)'
      BY <2>4, <2>5, <2>6, <2>7 DEF SpacesInv, LinksAreSound
    <3>3. ASSUME NEW l \in Links, LinkTarget(l) \notin outdated', redeemed'[l] = redeemed[l]
          PROVE  /\ redeemed'[l] <= 1
                 /\ \A c, p \in Callers : SessionUnderWay(c, l)' /\ SessionUnderWay(p, l)' => c = p
                 /\ \A c \in Callers : SessionUnderWay(c, l)' => redeemed'[l] = 0
                 /\ \A c \in Callers : Verifies(c, l)' /\ ~caller'[c].stale =>
                        redeemed'[l] = 0 /\ \A p \in Callers : ~SessionUnderWay(p, l)'
      BY <1>1, <2>4, <3>3 DEF SpacesInv, LinksAreSound
    <3>4. ASSUME NEW l \in Links, LinkTarget(l) \notin outdated', redeemed'[l] # redeemed[l]
          PROVE  /\ redeemed'[l] <= 1 /\ \A c \in Callers : ~SessionUnderWay(c, l)'
                 /\ \A c \in Callers : ~(Verifies(c, l)' /\ ~caller'[c].stale)
      BY <1>1, <2>6, <2>7, <3>4
    <3> QED  BY <3>1, <3>2, <3>3, <3>4 DEF LinksAreSound
  <2>9. \A c \in Callers : Aims(caller'[c]) /\ (caller'[c].op \in WorkOps => SameWork(c))
    <3>1. Aims(Resting) /\ Resting.op \notin WorkOps
      BY RestingIsWork DEF Aims, WorkOps
    <3> QED  BY <2>1, <3>1, SameAims DEF SpacesInv
  <2> QED  BY <1>1, <2>3, <2>8, <2>9, SignInInv
<1> QED  BY <1>2, <1>3 DEF SaveMember

-----------------------------------------------------------------------------
(* The requests that read.                                                   *)

LEMMA VerifyInv ==
    ASSUME SpacesInv, NEW q \in Callers, NEW l \in Links, Verify(q, l)
    PROVE  SpacesInv'
<1> DEFINE next == [Resting EXCEPT !.op = "verify", !.target = LinkTarget(l),
                            !.space = links[l].space, !.email = links[l].email]
<1>1. /\ links[l] \in Link /\ ~links[l].used /\ Reads(q, next)
      /\ NoSpaceChange /\ NoSignInChange /\ UNCHANGED outdated
  BY DEF Verify, Redeemable
<1>2. LinkTarget(l) \in Targets
  BY TargetsExist
<1>3. /\ next \in Work /\ next.op = "verify" /\ next.target = LinkTarget(l)
      /\ next.space \in SpaceIds /\ next.email \in Emails
  BY <1>1, <1>2, RestingIsWork DEF Work, CallerOps, Link
<1> HIDE DEF next
<1>4. Aims(next) /\ UpToDate(next) /\ next.op \notin WorkOps
  BY <1>3 DEF Aims, UpToDate, WorkOps
<1>5. ASSUME NEW k \in Links, next.target = LinkTarget(k)
      PROVE  links[k] # Missing /\ ~Spent(k)
  <2>1. k = l
    BY <1>3, <1>5, TargetsDiffer
  <2>2. links[l] # Missing /\ links[l] # Gone
    BY <1>1, NoSpaceRowAssumption
  <2> QED  BY <1>1, <2>1, <2>2 DEF Spent
<1> QED  BY <1>1, <1>3, <1>4, <1>5, ReadingInv

LEMMA WorkspaceSessionInv ==
    ASSUME SpacesInv, NEW q \in Callers, NEW s \in SpaceIds, NEW e \in Emails,
           WorkspaceSession(q, s, e)
    PROVE  SpacesInv'
<1> DEFINE next == [Resting EXCEPT !.op = "findMember", !.space = s, !.email = e]
<1>1. Reads(q, next) /\ NoSpaceChange /\ NoSignInChange /\ UNCHANGED outdated
  BY DEF WorkspaceSession
<1>2. next \in Work /\ next.op = "findMember" /\ next.target = Missing
  BY RestingIsWork DEF Work, CallerOps
<1> HIDE DEF next
<1>3. Aims(next) /\ UpToDate(next) /\ next.op \notin WorkOps
  BY <1>2 DEF Aims, UpToDate, WorkOps
<1> QED  BY <1>1, <1>2, <1>3, ReadingInv

LEMMA UpdateSpecInv ==
    ASSUME SpacesInv, NEW q \in Callers, NEW s \in SpaceIds, NEW x \in Changes,
           NEW open \in BOOLEAN, UpdateSpec(q, s, x, open)
    PROVE  SpacesInv'
<1> DEFINE row == [spaces[s] EXCEPT !.content = {x}, !.open = open]
           next == [Resting EXCEPT !.op = "updateSpec", !.target = SpaceTarget(s), !.space = s,
                            !.row = row]
<1>1. Reads(q, next) /\ NoSpaceChange /\ NoSignInChange /\ UNCHANGED outdated /\ IsApp(s)
  BY DEF UpdateSpec
<1>2. spaces[s] \in Space /\ spaces[s].kind = "app" /\ spaces[s] # Missing
  BY <1>1 DEF IsApp, Exists, SpacesInv, SpacesTyped
<1>3. row \in Space /\ row.kind = "app"
  BY <1>2 DEF Space
<1>4. SpaceTarget(s) \in Targets
  BY TargetsExist
<1> HIDE DEF row
<1>5. /\ next \in Work /\ next.op = "updateSpec" /\ next.target = SpaceTarget(s)
      /\ next.space = s /\ next.row = row
  BY <1>3, <1>4, RestingIsWork DEF Work, CallerOps
<1> HIDE DEF next
<1>6. Aims(next)
  BY <1>3, <1>5 DEF Aims
<1>7. asked[s] # Missing
  BY <1>2 DEF SpacesInv, KindsStay
<1>8. SpaceTarget(s) \in outdated \/ asked[s] # Gone
  BY <1>2 DEF SpacesInv, WorkIsKept
<1>9. UpToDate(next)
  BY <1>5, <1>8 DEF UpToDate
<1> QED  BY <1>1, <1>5, <1>6, <1>7, <1>9, ReadingInv

LEMMA UpdatePageInv ==
    ASSUME SpacesInv, NEW q \in Callers, NEW s \in SpaceIds, NEW x \in Changes,
           NEW whole \in BOOLEAN, UpdatePage(q, s, x, whole)
    PROVE  SpacesInv'
<1> DEFINE row == [spaces[s] EXCEPT !.content = Edited(spaces[s].content, x, whole)]
           next == [Resting EXCEPT !.op = "updatePage", !.target = SpaceTarget(s), !.space = s,
                            !.row = row, !.change = x, !.whole = whole]
<1>1. Reads(q, next) /\ NoSpaceChange /\ NoSignInChange /\ UNCHANGED outdated /\ IsPage(s)
  BY DEF UpdatePage
<1>2. spaces[s] \in Space /\ spaces[s].kind = "page" /\ spaces[s] # Missing
  BY <1>1 DEF IsPage, Exists, SpacesInv, SpacesTyped
<1>3. Edited(spaces[s].content, x, whole) \in SUBSET Changes
  BY <1>2 DEF Space, Edited
<1>4. row \in Space /\ row.kind = "page"
  BY <1>2, <1>3 DEF Space
<1>5. SpaceTarget(s) \in Targets
  BY TargetsExist
<1>6. row = [spaces[s] EXCEPT !.content = Edited(spaces[s].content, x, whole)]
  OBVIOUS
<1> HIDE DEF row
<1>7. /\ next \in Work /\ next.op = "updatePage" /\ next.target = SpaceTarget(s)
      /\ next.space = s /\ next.row = row /\ next.change = x /\ next.whole = whole
  BY <1>4, <1>5, RestingIsWork DEF Work, CallerOps
<1> HIDE DEF next
<1>8. Aims(next)
  BY <1>4, <1>7 DEF Aims
<1>9. asked[s] # Missing
  BY <1>2 DEF SpacesInv, KindsStay
<1>10. UpToDate(next)
  BY <1>2, <1>6, <1>7 DEF UpToDate, Exists
<1> QED  BY <1>1, <1>7, <1>8, <1>9, <1>10, ReadingInv

LEMMA OpenRecordInv ==
    ASSUME SpacesInv, NEW q \in Callers, NEW s \in SpaceIds, NEW r \in RecordIds,
           NEW x \in Changes, OpenRecord(q, s, r, x)
    PROVE  SpacesInv'
<1> DEFINE op == IF records[s][r] = Missing THEN "addRecord" ELSE "updateRecord"
           next == [Resting EXCEPT !.op = op, !.target = RecordTarget(s, r), !.space = s, !.change = x]
<1>1. Reads(q, next) /\ NoSpaceChange /\ NoSignInChange /\ UNCHANGED outdated /\ IsApp(s)
  BY DEF OpenRecord
<1>2. op \in {"addRecord", "updateRecord"} /\ (op = "updateRecord" => records[s][r] # Missing)
  OBVIOUS
<1>3. RecordTarget(s, r) \in Targets
  BY TargetsExist
<1> HIDE DEF op
<1>4. /\ next \in Work /\ next.op = op /\ next.target = RecordTarget(s, r)
      /\ next.space = s /\ next.change = x
  BY <1>2, <1>3, RestingIsWork DEF Work, CallerOps
<1> HIDE DEF next
<1>5. Aims(next)
  BY <1>2, <1>4 DEF Aims
<1>6. asked[s] # Missing
  BY <1>1 DEF SpacesInv, KindsStay, IsApp, Exists
<1>7. ASSUME op = "updateRecord", NEW u \in RecordIds, RecordTarget(s, r) = RecordTarget(s, u)
      PROVE  \/ SpaceTarget(s) \in outdated \/ RecordTarget(s, r) \in outdated
             \/ askedRecords[s][u] # Missing
  <2>1. u = r
    BY <1>7, TargetsDiffer
  <2> QED  BY <1>2, <1>7, <2>1 DEF SpacesInv, WorkIsKept
<1>8. UpToDate(next)
  BY <1>2, <1>4, <1>7 DEF UpToDate
<1> QED  BY <1>1, <1>2, <1>4, <1>5, <1>6, <1>8, ReadingInv
-----------------------------------------------------------------------------
(* The requests that write.                                                  *)

(* Who read one of the targets ts is out of date; the others go on. *)
LEMMA Written ==
    ASSUME SpacesInv, NEW q, NEW ts, Writes(q, ts, Resting)
    PROVE  /\ caller' \in [Callers -> Work] /\ (q \in Callers => caller'[q] = Resting)
           /\ \A c \in Callers : c # q => SameWork(c) /\ (caller[c].target \in ts => caller'[c].stale)
           /\ \A c \in Callers : caller'[c].op \in WorkOps => c # q
           /\ \A c \in Callers : Aims(caller'[c])
           /\ \A c \in Callers, l \in Links :
                /\ SessionUnderWay(c, l)' => SessionUnderWay(c, l)
                /\ Verifies(c, l)' => Verifies(c, l) /\ (~caller'[c].stale => ~caller[c].stale)
<1>1. /\ caller' \in [Callers -> Work] /\ (q \in Callers => caller'[q] = Resting)
      /\ \A c \in Callers : c # q => SameWork(c) /\ (caller[c].target \in ts => caller'[c].stale)
  BY WritesMoves, RestingIsWork DEF SpacesInv, SpacesTyped, SameWork
<1>2. Aims(Resting) /\ Resting.op \notin WorkOps
  BY RestingIsWork DEF Aims, WorkOps
<1>3. \A c \in Callers : Aims(caller'[c])
  BY <1>1, <1>2, SameAims DEF SpacesInv
<1>4. \A c \in Callers, l \in Links :
            /\ SessionUnderWay(c, l)' => SessionUnderWay(c, l)
            /\ Verifies(c, l)' => Verifies(c, l) /\ (~caller'[c].stale => ~caller[c].stale)
  BY <1>1, RestingIsWork DEF SessionUnderWay, Verifies, SameWork
<1> QED  BY <1>1, <1>2, <1>3, <1>4

(* What an up-to-date request read is not touched by the write. *)
LEMMA StaysUpToDate ==
    ASSUME SpacesInv, NEW c \in Callers, SameWork(c), ~caller'[c].stale,
           outdated \subseteq outdated',
           caller[c].op \in {"updateSpec", "updatePage"} =>
                /\ spaces'[caller[c].space] = spaces[caller[c].space]
                /\ asked'[caller[c].space] = asked[caller[c].space],
           \A r \in RecordIds : caller[c].op = "updateRecord"
                    /\ caller[c].target = RecordTarget(caller[c].space, r)
                    /\ askedRecords[caller[c].space][r] # Missing =>
                askedRecords'[caller[c].space][r] # Missing
    PROVE  UpToDate(caller[c])'
<1>1. UpToDate(caller[c])
  BY DEF SpacesInv, SameWork
<1>2. /\ caller'[c].op = caller[c].op /\ caller'[c].target = caller[c].target
      /\ caller'[c].space = caller[c].space /\ caller'[c].row = caller[c].row
      /\ caller'[c].change = caller[c].change /\ caller'[c].whole = caller[c].whole
  BY DEF SameWork
<1>3. caller'[c].op = "updateSpec" =>
            caller'[c].target \in outdated' \/ asked'[caller'[c].space] # Gone
  BY <1>1, <1>2 DEF UpToDate
<1>4. caller'[c].op = "updatePage" =>
        /\ Exists(caller[c].space)'
        /\ caller'[c].row = [spaces'[caller'[c].space] EXCEPT !.content =
                Edited(spaces'[caller'[c].space].content, caller'[c].change, caller'[c].whole)]
  BY <1>1, <1>2 DEF UpToDate, Exists
<1>5. caller'[c].op = "updateRecord" => \A r \in RecordIds :
        caller'[c].target = RecordTarget(caller'[c].space, r) =>
            SpaceTarget(caller'[c].space) \in outdated' \/ caller'[c].target \in outdated'
            \/ askedRecords'[caller'[c].space][r] # Missing
  BY <1>1, <1>2 DEF UpToDate
<1> QED  BY <1>3, <1>4, <1>5 DEF UpToDate, Exists, Edited

(* Requests that were working on other spaces, and rows that keep their kind. *)
LEMMA KindsKept ==
    ASSUME SpacesInv, NEW s \in SpaceIds,
           \A c \in Callers : caller'[c].op \in WorkOps => SameWork(c),
           \A t \in SpaceIds : t # s => UNCHANGED <<spaces[t], asked[t]>>,
           asked'[s] # Missing, IsPage(s)' => asked'[s] \in Space,
           \A c \in Callers : caller'[c].op = "updateSpec" /\ caller'[c].space = s => ~IsPage(s)',
           \A c \in Callers : caller'[c].op = "updatePage" /\ caller'[c].space = s => ~IsApp(s)'
    PROVE  KindsStay'
<1>1. ASSUME NEW c \in Callers, caller'[c].op \in WorkOps
      PROVE  /\ caller[c].op = caller'[c].op /\ caller[c].space = caller'[c].space
             /\ caller[c].space \in SpaceIds
  BY <1>1 DEF SpacesInv, Aims, SameWork, WorkOps
<1>2. \A t \in SpaceIds : (asked'[t] = Missing => spaces'[t] = Missing)
                          /\ (IsPage(t)' => asked'[t] \in Space)
  BY DEF SpacesInv, KindsStay, IsPage, Exists
<1>3. \A c \in Callers : caller'[c].op \in WorkOps => asked'[caller'[c].space] # Missing
  BY <1>1 DEF SpacesInv, KindsStay, WorkOps
<1>4. \A c \in Callers : caller'[c].op = "updateSpec" => ~IsPage(caller[c].space)'
  BY <1>1 DEF SpacesInv, KindsStay, WorkOps, IsPage, Exists
<1>5. \A c \in Callers : caller'[c].op = "updatePage" => ~IsApp(caller[c].space)'
  BY <1>1 DEF SpacesInv, KindsStay, WorkOps, IsApp, Exists
<1>6. \A c, p \in Callers : caller'[c].op = "updateSpec" /\ caller'[p].op = "updatePage" =>
            caller'[c].space # caller'[p].space
  BY <1>1 DEF SpacesInv, KindsStay, WorkOps
<1> QED  BY <1>2, <1>3, <1>4, <1>5, <1>6 DEF KindsStay, WorkOps

LEMMA CreateSpaceInv ==
    ASSUME SpacesInv, NEW s \in SpaceIds, NEW kind \in {"app", "page"}, NEW open \in BOOLEAN,
           NEW seeds \in [RecordIds -> Changes \cup {Missing}], CreateSpace(s, kind, open, seeds)
    PROVE  SpacesInv'
<1> DEFINE row == [kind |-> kind, open |-> open, content |-> {}]
<1>1. /\ asked[s] = Missing /\ spaces' = [spaces EXCEPT ![s] = row]
      /\ asked' = [asked EXCEPT ![s] = row]
      /\ records' = [records EXCEPT ![s] = seeds]
      /\ askedRecords' = [askedRecords EXCEPT ![s] = seeds]
      /\ UNCHANGED <<pageState, ticked, caller, outdated>>
      /\ UNCHANGED <<links, members, redeemed>>
  BY DEF CreateSpace, NoSignInChange
<1>2. row \in Space /\ row # Missing /\ row # Gone
  BY NoSpaceRowAssumption DEF Space
<1> HIDE DEF row
<1>3. /\ spaces'[s] = row /\ asked'[s] = row /\ records'[s] = seeds /\ askedRecords'[s] = seeds
      /\ \A t \in SpaceIds : t # s => UNCHANGED <<spaces[t], asked[t], records[t], askedRecords[t]>>
  BY <1>1 DEF SpacesInv, SpacesTyped
<1>4. SpacesTyped'
  BY <1>1, <1>2 DEF SpacesInv, SpacesTyped
<1>5. ASSUME NEW c \in Callers, caller[c].op \in WorkOps
      PROVE  caller[c].space \in SpaceIds /\ caller[c].space # s
  BY <1>1, <1>5 DEF SpacesInv, KindsStay, Aims, WorkOps
<1>6. \A c \in Callers : SameWork(c) /\ Aims(caller'[c])
  BY <1>1 DEF SpacesInv, SameWork
<1>7. KindsStay'
  <2>1. \A c \in Callers : caller'[c].op \in WorkOps => caller'[c].space # s
    BY <1>1, <1>5
  <2> QED  BY <1>2, <1>3, <1>6, <2>1, KindsKept DEF WorkOps
<1>8. ASSUME NEW c \in Callers, ~caller'[c].stale  PROVE UpToDate(caller[c])'
  <2>1. CASE caller[c].op \in WorkOps
    BY <1>1, <1>3, <1>5, <1>6, <1>8, <2>1, StaysUpToDate
  <2>2. CASE caller[c].op \notin WorkOps
    BY <1>1, <2>2 DEF WorkOps, UpToDate
  <2> QED  BY <2>1, <2>2
<1>9. WorkIsKept'
  BY <1>1, <1>2, <1>3 DEF SpacesInv, WorkIsKept
<1>10. LinksAreSound'
  BY <1>1 DEF SpacesInv, LinksAreSound, SessionUnderWay, Verifies, Spent
<1> QED  BY <1>4, <1>6, <1>7, <1>8, <1>9, <1>10 DEF SpacesInv

LEMMA SaveSpecInv ==
    ASSUME SpacesInv, NEW q \in Callers, SaveSpec(q)
    PROVE  SpacesInv'
<1> DEFINE s == caller[q].space
           row == caller[q].row
           now == IF asked[s] = Gone THEN Gone ELSE row
<1>1. /\ caller[q].op = "updateSpec" /\ spaces' = [spaces EXCEPT ![s] = row]
      /\ asked' = [asked EXCEPT ![s] = now] /\ Contests(q) /\ Writes(q, {SpaceTarget(s)}, Resting)
      /\ UNCHANGED <<pageState, records, askedRecords, ticked>>
      /\ UNCHANGED <<links, members, redeemed>>
  BY DEF SaveSpec, NoSignInChange
<1>2. PICK t \in SpaceIds : s = t
  BY <1>1 DEF SpacesInv, Aims
<1>3. /\ row \in Space /\ row.kind = "app" /\ caller[q].target = SpaceTarget(t)
      /\ row # Missing /\ row # Gone
  BY <1>1, <1>2, NoSpaceRowAssumption DEF SpacesInv, Aims
<1>4. PICK w : w = row
  OBVIOUS
<1>5. PICK n : n = now
  OBVIOUS
<1>6. n \in Space \cup {Gone} /\ n # Missing /\ (asked[t] # Gone => n = w)
  BY <1>2, <1>3, <1>4, <1>5, NoSpaceRowAssumption
<1>7. /\ spaces' = [spaces EXCEPT ![t] = w] /\ asked' = [asked EXCEPT ![t] = n]
      /\ Writes(q, {SpaceTarget(t)}, Resting)
  BY <1>1, <1>2, <1>4, <1>5
<1>8. w \in Space /\ w.kind = "app" /\ w # Missing /\ w # Gone
  BY <1>3, <1>4
<1> HIDE DEF s, row, now
<1>9. /\ spaces'[t] = w /\ asked'[t] = n
      /\ \A u \in SpaceIds : u # t => UNCHANGED <<spaces[u], asked[u]>>
  BY <1>7 DEF SpacesInv, SpacesTyped
<1>10. /\ outdated \subseteq outdated' /\ outdated' \subseteq outdated \cup {SpaceTarget(t)}
       /\ SpaceTarget(t) \notin outdated' => ~caller[q].stale
  BY <1>1, <1>3 DEF Contests
<1>11. /\ caller' \in [Callers -> Work]
       /\ \A c \in Callers : c # q => SameWork(c) /\ (caller[c].target = SpaceTarget(t) => caller'[c].stale)
       /\ \A c \in Callers : Aims(caller'[c]) /\ (caller'[c].op \in WorkOps => c # q)
       /\ caller'[q] = Resting
  BY <1>7, Written
<1>12. SpacesTyped'
  <2>1. outdated' \subseteq Targets
    BY <1>10, TargetsExist DEF SpacesInv, SpacesTyped
  <2>2. spaces' \in [SpaceIds -> Space \cup {Missing}]
    BY <1>7, <1>8 DEF SpacesInv, SpacesTyped
  <2>3. asked' \in [SpaceIds -> Space \cup {Missing, Gone}]
    BY <1>6, <1>7 DEF SpacesInv, SpacesTyped
  <2> QED  BY <1>1, <1>11, <2>1, <2>2, <2>3 DEF SpacesInv, SpacesTyped
<1>13. KindsStay'
  <2>1. IsApp(t)' /\ ~IsPage(t)'
    BY <1>8, <1>9 DEF IsApp, IsPage, Exists
  <2>2. ASSUME NEW c \in Callers, caller'[c].op = "updatePage"  PROVE caller'[c].space # t
    BY <1>1, <1>2, <1>11, <2>2 DEF SpacesInv, KindsStay, SameWork, WorkOps, s
  <2> QED  BY <1>6, <1>9, <1>11, <2>1, <2>2, KindsKept
<1>14. ASSUME NEW c \in Callers, ~caller'[c].stale  PROVE UpToDate(caller[c])'
  <2>1. CASE c # q
    <3>1. caller[c].op \in {"updateSpec", "updatePage"} => caller[c].space \in SpaceIds /\ caller[c].space # t
      BY <1>11, <1>14, <2>1 DEF SpacesInv, Aims
    <3>2. caller[c].op \in {"updateSpec", "updatePage"} =>
                /\ spaces'[caller[c].space] = spaces[caller[c].space]
                /\ asked'[caller[c].space] = asked[caller[c].space]
      BY <1>9, <3>1
    <3>3. SameWork(c)
      BY <1>11, <2>1
    <3> QED  BY <1>1, <1>10, <1>14, <3>2, <3>3, StaysUpToDate
  <2>2. CASE c = q
    BY <1>11, <2>2, RestingIsWork DEF UpToDate
  <2> QED  BY <2>1, <2>2
<1>15. WorkIsKept'
  <2>1. SpaceTarget(t) \notin outdated' => asked[t] # Gone
    BY <1>1, <1>2, <1>3, <1>10 DEF SpacesInv, UpToDate, s
  <2>2. \A u \in SpaceIds : SpaceTarget(u) \notin outdated' =>
            spaces'[u] = IF asked'[u] = Gone THEN Missing ELSE asked'[u]
    BY <1>6, <1>8, <1>9, <1>10, <2>1 DEF SpacesInv, WorkIsKept
  <2> QED  BY <1>1, <1>10, <2>2 DEF SpacesInv, WorkIsKept
<1>16. LinksAreSound'
  <2>1. \A c \in Callers, l \in Links :
            /\ SessionUnderWay(c, l)' => SessionUnderWay(c, l)
            /\ Verifies(c, l)' => Verifies(c, l) /\ (~caller'[c].stale => ~caller[c].stale)
    BY <1>7, Written
  <2>2. \A l \in Links : (Spent(l) => Spent(l)') /\ (links[l] # Missing => links'[l] # Missing)
    BY <1>1 DEF Spent
  <2> QED  BY <1>1, <1>10, <2>1, <2>2, LinksUntouched
<1> QED  BY <1>11, <1>12, <1>13, <1>14, <1>15, <1>16 DEF SpacesInv
LEMMA WritePageInv ==
    ASSUME SpacesInv, NEW q \in Callers, WritePage(q)
    PROVE  SpacesInv'
<1> DEFINE s == caller[q].space
           x == caller[q].change
<1>1. /\ caller[q].op = "updatePage" /\ Writes(q, {SpaceTarget(s)}, Resting)
      /\ UNCHANGED <<pageState, records, askedRecords, ticked>>
      /\ UNCHANGED <<links, members, redeemed>>
  BY DEF WritePage, NoSignInChange
<1>2. PICK t \in SpaceIds : s = t
  BY <1>1 DEF SpacesInv, Aims
<1>3. /\ caller[q].row \in Space /\ caller[q].row.kind = "page" /\ caller[q].target = SpaceTarget(t)
      /\ caller[q].row # Missing /\ x \in Changes
  BY <1>1, <1>2, NoSpaceRowAssumption DEF SpacesInv, Aims
<1>4. PICK w : w = caller[q].row
  OBVIOUS
<1>5. Writes(q, {SpaceTarget(t)}, Resting)
  BY <1>1, <1>2
<1>6. /\ caller' \in [Callers -> Work]
      /\ \A c \in Callers : c # q => SameWork(c) /\ (caller[c].target = SpaceTarget(t) => caller'[c].stale)
      /\ \A c \in Callers : Aims(caller'[c]) /\ (caller'[c].op \in WorkOps => c # q)
      /\ caller'[q] = Resting
  BY <1>5, Written
(* The page is still there: it is a page yet, and nobody asked it away. *)
<1>7. ASSUME Exists(t)
      PROVE  /\ spaces' = [spaces EXCEPT ![t] = w] /\ Contests(q)
             /\ asked[t] \in Space /\ IsPage(t)
             /\ asked' = [asked EXCEPT ![t].content =
                    IF caller[q].whole THEN {x} ELSE @ \cup {x}]
  <2>1. IsPage(t)
    BY <1>1, <1>2, <1>7 DEF SpacesInv, SpacesTyped, KindsStay, IsPage, IsApp, Exists, Space
  <2>2. asked[t] \in Space
    BY <2>1 DEF SpacesInv, KindsStay
  <2> QED  BY <1>2, <1>4, <1>7, <2>1, <2>2 DEF WritePage
<1>8. \/ UNCHANGED <<spaces, asked, outdated>>
      \/ Exists(t) /\ Contests(q)
  BY <1>2, <1>7 DEF WritePage
<1>9. /\ outdated \subseteq outdated' /\ outdated' \subseteq outdated \cup {SpaceTarget(t)}
      /\ Exists(t) /\ SpaceTarget(t) \notin outdated' => ~caller[q].stale
  <2>1. CASE Exists(t)
    BY <1>3, <1>7, <2>1 DEF Contests
  <2>2. CASE ~Exists(t)
    BY <1>8, <2>2
  <2> QED  BY <2>1, <2>2
<1>10. PICK n : n = [asked[t] EXCEPT !.content =
                        IF caller[q].whole THEN {x} ELSE asked[t].content \cup {x}]
  OBVIOUS
<1>11. ASSUME Exists(t)
       PROVE  /\ n \in Space /\ n # Missing /\ n # Gone
              /\ spaces' = [spaces EXCEPT ![t] = w] /\ asked' = [asked EXCEPT ![t] = n]
  <2>1. asked[t].content \subseteq Changes
    BY <1>7, <1>11 DEF Space
  <2> DEFINE c == IF caller[q].whole THEN {x} ELSE asked[t].content \cup {x}
  <2>2. c \in SUBSET Changes
    BY <1>3, <2>1
  <2>3. n = [asked[t] EXCEPT !.content = c]
    BY <1>10
  <2>4. asked' = [asked EXCEPT ![t] = [asked[t] EXCEPT !.content = c]]
    BY <1>7, <1>11
  <2>5. spaces' = [spaces EXCEPT ![t] = w]
    BY <1>7, <1>11
  <2> HIDE DEF c
  <2>6. n \in Space
    BY <1>7, <1>11, <2>2, <2>3 DEF Space
  <2> QED  BY <2>3, <2>4, <2>5, <2>6, NoSpaceRowAssumption
<1> HIDE DEF s, x
<1>12. \A u \in SpaceIds : u # t => UNCHANGED <<spaces[u], asked[u]>>
  <2>1. CASE Exists(t)
    BY <1>11, <2>1 DEF SpacesInv, SpacesTyped
  <2>2. CASE ~Exists(t)
    BY <1>2, <2>2 DEF WritePage, s
  <2> QED  BY <2>1, <2>2
<1>13. /\ Exists(t) => spaces'[t] = w /\ asked'[t] = n
       /\ ~Exists(t) => UNCHANGED <<spaces, asked, outdated>>
  <2>1. CASE Exists(t)
    BY <1>11, <2>1 DEF SpacesInv, SpacesTyped
  <2>2. CASE ~Exists(t)
    BY <1>2, <2>2 DEF WritePage, s
  <2> QED  BY <2>1, <2>2
<1>14. SpacesTyped'
  <2>1. outdated' \subseteq Targets
    BY <1>9, TargetsExist DEF SpacesInv, SpacesTyped
  <2>2. spaces' \in [SpaceIds -> Space \cup {Missing}]
    BY <1>3, <1>4, <1>11, <1>13 DEF SpacesInv, SpacesTyped
  <2>3. asked' \in [SpaceIds -> Space \cup {Missing, Gone}]
    BY <1>11, <1>13 DEF SpacesInv, SpacesTyped
  <2> QED  BY <1>1, <1>6, <2>1, <2>2, <2>3 DEF SpacesInv, SpacesTyped
<1>15. KindsStay'
  <2>1. ~IsApp(t)'
    <3>1. CASE Exists(t)
      BY <1>3, <1>4, <1>13, <3>1 DEF IsApp, Exists
    <3>2. CASE ~Exists(t)
      BY <1>13, <3>2 DEF IsApp, Exists
    <3> QED  BY <3>1, <3>2
  <2>2. ASSUME NEW c \in Callers, caller'[c].op = "updateSpec"  PROVE caller'[c].space # t
    BY <1>1, <1>2, <1>6, <2>2 DEF SpacesInv, KindsStay, SameWork, WorkOps, s
  <2>3. asked'[t] # Missing /\ (IsPage(t)' => asked'[t] \in Space)
    <3>1. CASE Exists(t)
      BY <1>11, <1>13, <3>1
    <3>2. CASE ~Exists(t)
      BY <1>1, <1>2, <1>13, <3>2 DEF SpacesInv, KindsStay, IsPage, Exists, s
    <3> QED  BY <3>1, <3>2
  <2> QED  BY <1>6, <1>12, <2>1, <2>2, <2>3, KindsKept
<1>16. ASSUME NEW c \in Callers, ~caller'[c].stale  PROVE UpToDate(caller[c])'
  <2>1. CASE c # q
    <3>1. caller[c].op \in {"updateSpec", "updatePage"} => caller[c].space \in SpaceIds /\ caller[c].space # t
      BY <1>6, <1>16, <2>1 DEF SpacesInv, Aims
    <3>2. caller[c].op \in {"updateSpec", "updatePage"} =>
                /\ spaces'[caller[c].space] = spaces[caller[c].space]
                /\ asked'[caller[c].space] = asked[caller[c].space]
      BY <1>12, <3>1
    <3>3. SameWork(c)
      BY <1>6, <2>1
    <3> QED  BY <1>1, <1>9, <1>16, <3>2, <3>3, StaysUpToDate
  <2>2. CASE c = q
    BY <1>6, <2>2, RestingIsWork DEF UpToDate
  <2> QED  BY <2>1, <2>2
<1>17. WorkIsKept'
  <2>1. ASSUME Exists(t), SpaceTarget(t) \notin outdated'  PROVE w = n
    <3>1. SpaceTarget(t) \notin outdated /\ ~caller[q].stale
      BY <1>9, <2>1
    <3>2. w = [spaces[t] EXCEPT !.content = Edited(spaces[t].content, x, caller[q].whole)]
      BY <1>1, <1>2, <1>4, <3>1 DEF SpacesInv, UpToDate, s, x
    <3>3. spaces[t] = asked[t]
      BY <1>7, <2>1, <3>1, NoSpaceRowAssumption DEF SpacesInv, WorkIsKept
    <3> QED  BY <1>10, <3>2, <3>3 DEF Edited
  <2>2. ASSUME NEW u \in SpaceIds, SpaceTarget(u) \notin outdated'
        PROVE  spaces'[u] = IF asked'[u] = Gone THEN Missing ELSE asked'[u]
    <3>1. CASE u = t /\ Exists(t)
      BY <1>11, <1>13, <2>1, <2>2, <3>1
    <3>2. CASE u # t \/ ~Exists(t)
      BY <1>9, <1>12, <1>13, <2>2, <3>2 DEF SpacesInv, WorkIsKept
    <3> QED  BY <3>1, <3>2
  <2> QED  BY <1>1, <1>9, <2>2 DEF SpacesInv, WorkIsKept
<1>18. LinksAreSound'
  <2>1. \A c \in Callers, l \in Links :
            /\ SessionUnderWay(c, l)' => SessionUnderWay(c, l)
            /\ Verifies(c, l)' => Verifies(c, l) /\ (~caller'[c].stale => ~caller[c].stale)
    BY <1>5, Written
  <2>2. \A l \in Links : (Spent(l) => Spent(l)') /\ (links[l] # Missing => links'[l] # Missing)
    BY <1>1 DEF Spent
  <2> QED  BY <1>1, <1>9, <2>1, <2>2, LinksUntouched
<1> QED  BY <1>6, <1>14, <1>15, <1>16, <1>17, <1>18 DEF SpacesInv

LEMMA DeleteSpaceInv ==
    ASSUME SpacesInv, NEW s \in SpaceIds, DeleteSpace(s)
    PROVE  SpacesInv'
<1> DEFINE ts == {SpaceTarget(s)} \cup {RecordTarget(s, r) : r \in RecordIds}
<1>1. /\ spaces' = [spaces EXCEPT ![s] = Missing] /\ asked' = [asked EXCEPT ![s] = Gone]
      /\ pageState' = [pageState EXCEPT ![s] = {}] /\ ticked' = [ticked EXCEPT ![s] = {}]
      /\ records' = [records EXCEPT ![s] = NoRecords]
      /\ askedRecords' = [askedRecords EXCEPT ![s] = NoRecords]
      /\ links' = [l \in Links |-> IF links[l] \in Link /\ links[l].space = s THEN Gone ELSE links[l]]
      /\ Writes(Missing, ts, Resting) /\ UNCHANGED <<redeemed, outdated>>
  BY DEF DeleteSpace
<1>2. /\ spaces'[s] = Missing /\ asked'[s] = Gone /\ Gone # Missing
      /\ records'[s] = NoRecords /\ askedRecords'[s] = NoRecords
      /\ \A t \in SpaceIds : t # s => UNCHANGED <<spaces[t], asked[t], records[t], askedRecords[t]>>
  BY <1>1, NoSpaceRowAssumption DEF SpacesInv, SpacesTyped
<1>3. \A c \in Callers : c # Missing
  BY NoSpaceRowAssumption
<1>4. /\ caller' \in [Callers -> Work]
      /\ \A c \in Callers : SameWork(c) /\ (caller[c].target \in ts => caller'[c].stale) /\ Aims(caller'[c])
  BY <1>1, <1>3, Written
<1>5. SpacesTyped'
  <2>1. NoRecords \in [RecordIds -> Changes \cup {Missing}]
    BY DEF NoRecords
  <2>2. links' \in [Links -> Link \cup {Missing, Gone}]
    BY <1>1 DEF SpacesInv, SpacesTyped
  <2>3. /\ spaces' \in [SpaceIds -> Space \cup {Missing}]
        /\ asked' \in [SpaceIds -> Space \cup {Missing, Gone}]
    BY <1>1 DEF SpacesInv, SpacesTyped
  <2>4. /\ records' \in [SpaceIds -> [RecordIds -> Changes \cup {Missing}]]
        /\ askedRecords' \in [SpaceIds -> [RecordIds -> Changes \cup {Missing}]]
    BY <1>1, <2>1 DEF SpacesInv, SpacesTyped
  <2>5. pageState' = ticked' /\ DOMAIN pageState' = SpaceIds
    BY <1>1 DEF SpacesInv, SpacesTyped
  <2> QED  BY <1>1, <1>4, <2>2, <2>3, <2>4, <2>5 DEF SpacesInv, SpacesTyped
<1>6. KindsStay'
  <2>1. ~IsApp(s)' /\ ~IsPage(s)'
    BY <1>2 DEF IsApp, IsPage, Exists
  <2> QED  BY <1>2, <1>4, <2>1, KindsKept
<1>7. ASSUME NEW c \in Callers, ~caller'[c].stale  PROVE UpToDate(caller[c])'
  <2>1. caller[c].op \in WorkOps => caller[c].space \in SpaceIds /\ caller[c].space # s
    BY <1>4, <1>7 DEF SpacesInv, Aims, WorkOps
  <2>2. caller[c].op \in {"updateSpec", "updatePage"} =>
                /\ spaces'[caller[c].space] = spaces[caller[c].space]
                /\ asked'[caller[c].space] = asked[caller[c].space]
    BY <1>2, <2>1 DEF WorkOps
  <2>3. caller[c].op = "updateRecord" => 
                askedRecords'[caller[c].space] = askedRecords[caller[c].space]
    BY <1>2, <2>1 DEF WorkOps
  <2> QED  BY <1>1, <1>4, <1>7, <2>2, <2>3, StaysUpToDate
<1>8. WorkIsKept'
  <2>1. pageState' = ticked'
    BY <1>5 DEF SpacesTyped
  <2> QED  BY <1>1, <1>2, <2>1 DEF SpacesInv, WorkIsKept
<1>9. LinksAreSound'
  <2>1. \A c \in Callers, l \in Links :
            /\ SessionUnderWay(c, l)' => SessionUnderWay(c, l)
            /\ Verifies(c, l)' => Verifies(c, l) /\ (~caller'[c].stale => ~caller[c].stale)
    BY <1>1, Written
  <2>2. \A l \in Links : (Spent(l) => Spent(l)') /\ (links[l] # Missing => links'[l] # Missing)
    BY <1>1, <1>2 DEF Spent
  <2> QED  BY <1>1, <2>1, <2>2, LinksUntouched
<1> QED  BY <1>4, <1>5, <1>6, <1>7, <1>8, <1>9 DEF SpacesInv
(* The page state is not read before it is written. *)
LEMMA PageStateInv ==
    ASSUME SpacesInv, NEW s \in SpaceIds, NEW ks, NEW js,
           pageState' = [pageState EXCEPT ![s] = ks], ticked' = [ticked EXCEPT ![s] = js],
           pageState[s] = ticked[s] => ks = js,
           UNCHANGED <<spaces, records, caller, asked, askedRecords, outdated>>, NoSignInChange
    PROVE  SpacesInv'
<1>1. /\ UNCHANGED <<links, members, redeemed>> /\ pageState' = ticked'
      /\ DOMAIN pageState' = SpaceIds
  BY DEF NoSignInChange, SpacesInv, SpacesTyped
<1>2. SpacesTyped'
  BY <1>1 DEF SpacesInv, SpacesTyped
<1>3. KindsStay' /\ \A q \in Callers : Aims(caller'[q])
  BY DEF SpacesInv, KindsStay, IsPage, IsApp, Exists
<1>4. ASSUME NEW q \in Callers, ~caller'[q].stale  PROVE UpToDate(caller[q])'
  BY <1>4 DEF SpacesInv, UpToDate, Exists, Edited
<1>5. WorkIsKept'
  BY <1>1 DEF SpacesInv, WorkIsKept
<1>6. LinksAreSound'
  BY <1>1 DEF SpacesInv, LinksAreSound, SessionUnderWay, Verifies, Spent
<1> QED  BY <1>2, <1>3, <1>4, <1>5, <1>6 DEF SpacesInv

LEMMA SavePageStateInv ==
    ASSUME SpacesInv, NEW s \in SpaceIds, NEW k \in Keys, SavePageState(s, k)
    PROVE  SpacesInv'
<1>1. /\ pageState' = [pageState EXCEPT ![s] = pageState[s] \cup {k}]
      /\ ticked' = [ticked EXCEPT ![s] = ticked[s] \cup {k}]
      /\ UNCHANGED <<spaces, records, caller, asked, askedRecords, outdated>> /\ NoSignInChange
  BY DEF SavePageState, Merged
<1> QED  BY <1>1, PageStateInv

LEMMA ClearPageStateInv ==
    ASSUME SpacesInv, NEW s \in SpaceIds, NEW k \in Keys, ClearPageState(s, k)
    PROVE  SpacesInv'
<1>1. /\ pageState' = [pageState EXCEPT ![s] = pageState[s] \ {k}]
      /\ ticked' = [ticked EXCEPT ![s] = ticked[s] \ {k}]
      /\ UNCHANGED <<spaces, records, caller, asked, askedRecords, outdated>> /\ NoSignInChange
  BY DEF ClearPageState
<1> QED  BY <1>1, PageStateInv

(* A record is written: who read it is out of date. *)
LEMMA RecordWrittenInv ==
    ASSUME SpacesInv, NEW q, NEW s \in SpaceIds, NEW r \in RecordIds,
           NEW now \in Changes \cup {Missing}, NEW then \in Changes \cup {Missing},
           Writes(q, {RecordTarget(s, r)}, Resting),
           records' = [records EXCEPT ![s][r] = now],
           askedRecords' = [askedRecords EXCEPT ![s][r] = then],
           outdated \subseteq outdated', outdated' \subseteq outdated \cup {RecordTarget(s, r)},
           SpaceTarget(s) \notin outdated' /\ RecordTarget(s, r) \notin outdated' => now = then,
           UNCHANGED <<spaces, pageState, asked, ticked>>, NoSignInChange
    PROVE  SpacesInv'
<1>1. /\ UNCHANGED <<links, members, redeemed>>
      /\ caller' \in [Callers -> Work]
      /\ \A c \in Callers : c # q => SameWork(c) /\ (caller[c].target = RecordTarget(s, r) => caller'[c].stale)
      /\ \A c \in Callers : Aims(caller'[c]) /\ (caller'[c].op \in WorkOps => c # q)
      /\ q \in Callers => caller'[q] = Resting
  BY Written DEF NoSignInChange
<1>2. /\ records \in [SpaceIds -> [RecordIds -> Changes \cup {Missing}]]
      /\ askedRecords \in [SpaceIds -> [RecordIds -> Changes \cup {Missing}]]
  BY DEF SpacesInv, SpacesTyped
<1>3. /\ records' \in [SpaceIds -> [RecordIds -> Changes \cup {Missing}]]
      /\ records'[s][r] = now
      /\ \A t \in SpaceIds, u \in RecordIds : t # s \/ u # r => records'[t][u] = records[t][u]
  BY <1>2
<1>4. /\ askedRecords' \in [SpaceIds -> [RecordIds -> Changes \cup {Missing}]]
      /\ askedRecords'[s][r] = then
      /\ \A t \in SpaceIds, u \in RecordIds : t # s \/ u # r => askedRecords'[t][u] = askedRecords[t][u]
  BY <1>2
<1>5. SpacesTyped'
  <2>1. outdated' \subseteq Targets
    BY TargetsExist DEF SpacesInv, SpacesTyped
  <2> QED  BY <1>1, <1>3, <1>4, <2>1 DEF SpacesInv, SpacesTyped
<1>6. KindsStay'
  BY <1>1 DEF SpacesInv, KindsStay, SameWork, WorkOps, IsPage, IsApp, Exists
<1>7. ASSUME NEW c \in Callers, ~caller'[c].stale  PROVE UpToDate(caller[c])'
  <2>1. CASE c # q
    <3>1. SameWork(c) /\ caller[c].target # RecordTarget(s, r)
      BY <1>1, <1>7, <2>1
    <3>2. ASSUME NEW u \in RecordIds, caller[c].op = "updateRecord",
                 caller[c].target = RecordTarget(caller[c].space, u)
          PROVE  askedRecords'[caller[c].space][u] = askedRecords[caller[c].space][u]
      <4>1. caller[c].space # s \/ u # r
        BY <3>1, <3>2
      <4>2. caller[c].space \in SpaceIds
        BY <3>2 DEF SpacesInv, Aims
      <4> QED  BY <1>4, <4>1, <4>2
    <3> QED  BY <1>7, <3>1, <3>2, StaysUpToDate
  <2>2. CASE c = q
    BY <1>1, <2>2, RestingIsWork DEF UpToDate
  <2> QED  BY <2>1, <2>2
<1>8. WorkIsKept'
  <2>1. \A t \in SpaceIds : SpaceTarget(t) \notin outdated' => SpaceTarget(t) \notin outdated
    OBVIOUS
  <2>2. ASSUME NEW t \in SpaceIds, NEW u \in RecordIds, SpaceTarget(t) \notin outdated',
               RecordTarget(t, u) \notin outdated'
        PROVE  records'[t][u] = askedRecords'[t][u]
    <3>1. CASE t = s /\ u = r
      BY <1>3, <1>4, <2>2, <3>1
    <3>2. CASE t # s \/ u # r
      BY <1>3, <1>4, <2>2, <3>2 DEF SpacesInv, WorkIsKept
    <3> QED  BY <3>1, <3>2
  <2> QED  BY <2>1, <2>2 DEF SpacesInv, WorkIsKept
<1>9. LinksAreSound'
  <2>1. \A c \in Callers, l \in Links :
            /\ SessionUnderWay(c, l)' => SessionUnderWay(c, l)
            /\ Verifies(c, l)' => Verifies(c, l) /\ (~caller'[c].stale => ~caller[c].stale)
    BY Written
  <2>2. \A l \in Links : (Spent(l) => Spent(l)') /\ (links[l] # Missing => links'[l] # Missing)
    BY <1>1 DEF Spent
  <2> QED  BY <1>1, <2>1, <2>2, LinksUntouched
<1> QED  BY <1>1, <1>5, <1>6, <1>7, <1>8, <1>9 DEF SpacesInv

LEMMA SaveRecordInv ==
    ASSUME SpacesInv, NEW q \in Callers, SaveRecord(q)
    PROVE  SpacesInv'
<1>1. /\ caller[q].op \in {"addRecord", "updateRecord"}
      /\ UNCHANGED <<spaces, pageState, asked, ticked>> /\ NoSignInChange
  BY DEF SaveRecord
<1>2. PICK s \in SpaceIds, r \in RecordIds, x \in Changes :
            s = caller[q].space /\ caller[q].target = RecordTarget(s, r) /\ x = caller[q].change
  BY <1>1 DEF SpacesInv, Aims
<1>3. caller[q].target[3] = r
  BY <1>2, TargetsDiffer
<1>4. Writes(q, {RecordTarget(s, r)}, Resting)
  BY <1>2, <1>3 DEF SaveRecord
<1>5. /\ records \in [SpaceIds -> [RecordIds -> Changes \cup {Missing}]]
      /\ askedRecords \in [SpaceIds -> [RecordIds -> Changes \cup {Missing}]]
  BY DEF SpacesInv, SpacesTyped
<1>6. CASE UNCHANGED <<records, askedRecords, outdated>>
  <2>1. /\ records' = [records EXCEPT ![s][r] = records[s][r]]
        /\ askedRecords' = [askedRecords EXCEPT ![s][r] = askedRecords[s][r]]
    BY <1>5, <1>6
  <2>2. records[s][r] \in Changes \cup {Missing} /\ askedRecords[s][r] \in Changes \cup {Missing}
    BY <1>5
  <2>3. SpaceTarget(s) \notin outdated /\ RecordTarget(s, r) \notin outdated =>
            records[s][r] = askedRecords[s][r]
    BY DEF SpacesInv, WorkIsKept
  <2> QED  BY <1>1, <1>4, <1>6, <2>1, <2>2, <2>3, RecordWrittenInv
<1>7. CASE ~UNCHANGED <<records, askedRecords, outdated>>
  <2>1. /\ records' = [records EXCEPT ![s][r] = x] /\ Contests(q)
        /\ askedRecords' = IF caller[q].op = "updateRecord" /\ askedRecords[s][r] = Missing
                           THEN askedRecords ELSE [askedRecords EXCEPT ![s][r] = x]
    BY <1>2, <1>3, <1>7 DEF SaveRecord
  <2>2. /\ outdated \subseteq outdated' /\ outdated' \subseteq outdated \cup {RecordTarget(s, r)}
        /\ RecordTarget(s, r) \notin outdated' => ~caller[q].stale
    BY <1>2, <2>1 DEF Contests
  <2>3. CASE ~(caller[q].op = "updateRecord" /\ askedRecords[s][r] = Missing)
    <3>1. askedRecords' = [askedRecords EXCEPT ![s][r] = x]
      BY <2>1, <2>3
    <3> QED  BY <1>1, <1>4, <2>1, <2>2, <3>1, RecordWrittenInv
  <2>4. CASE caller[q].op = "updateRecord" /\ askedRecords[s][r] = Missing
    <3>1. askedRecords' = [askedRecords EXCEPT ![s][r] = Missing]
      BY <1>5, <2>1, <2>4
    <3>2. SpaceTarget(s) \in outdated' \/ RecordTarget(s, r) \in outdated'
      BY <1>2, <2>2, <2>4 DEF SpacesInv, UpToDate
    <3>3. x \in Changes \cup {Missing} /\ Missing \in Changes \cup {Missing}
      OBVIOUS
    <3> QED  BY <1>1, <1>4, <2>1, <2>2, <3>1, <3>2, <3>3, RecordWrittenInv
  <2> QED  BY <2>3, <2>4
<1> QED  BY <1>6, <1>7

LEMMA DeleteRecordInv ==
    ASSUME SpacesInv, NEW s \in SpaceIds, NEW r \in RecordIds, DeleteRecord(s, r)
    PROVE  SpacesInv'
<1>1. /\ records' = [records EXCEPT ![s][r] = Missing]
      /\ askedRecords' = [askedRecords EXCEPT ![s][r] = Missing]
      /\ Writes(Missing, {RecordTarget(s, r)}, Resting)
      /\ UNCHANGED <<spaces, pageState, asked, ticked>> /\ NoSignInChange
      /\ outdated' = outdated /\ Missing \in Changes \cup {Missing}
  BY DEF DeleteRecord
<1> QED  BY <1>1, RecordWrittenInv

LEMMA NextSpacesInv == SpacesInv /\ [SpacesNext]_spaceVars => SpacesInv'
<1> SUFFICES ASSUME SpacesInv, [SpacesNext]_spaceVars PROVE SpacesInv'
    OBVIOUS
<1>1. CASE \E q \in Callers, s \in SpaceIds, x \in Changes :
        \/ \E open \in BOOLEAN : UpdateSpec(q, s, x, open)
        \/ \E whole \in BOOLEAN : UpdatePage(q, s, x, whole)
        \/ \E r \in RecordIds : OpenRecord(q, s, r, x)
  BY <1>1, UpdateSpecInv, UpdatePageInv, OpenRecordInv
<1>2. CASE \E q \in Callers :
        \/ \E s \in SpaceIds, e \in Emails : WorkspaceSession(q, s, e)
        \/ \E l \in Links : Verify(q, l)
  BY <1>2, WorkspaceSessionInv, VerifyInv
<1>3. CASE \E q \in Callers : SaveSpec(q) \/ WritePage(q) \/ SaveRecord(q)
  BY <1>3, SaveSpecInv, WritePageInv, SaveRecordInv
<1>4. CASE \E q \in Callers : MarkUsed(q) \/ FindMember(q) \/ SaveMember(q)
  BY <1>4, MarkUsedInv, FindMemberInv, SaveMemberInv
<1>5. ASSUME NEW q \in Callers, CallerDies(q)  PROVE SpacesInv'
  <2>1. Writes(q, {}, Resting) /\ NoSpaceChange /\ NoSignInChange /\ UNCHANGED outdated
    BY <1>5 DEF CallerDies
  <2> QED  BY <2>1, RestsInv
<1>6. CASE \E s \in SpaceIds :
        \/ DeleteSpace(s)
        \/ \E kind \in {"app", "page"}, open \in BOOLEAN, seeds \in [RecordIds -> Changes \cup {Missing}] :
                CreateSpace(s, kind, open, seeds)
  BY <1>6, DeleteSpaceInv, CreateSpaceInv
<1>7. CASE \E s \in SpaceIds, k \in Keys : SavePageState(s, k) \/ ClearPageState(s, k)
  BY <1>7, SavePageStateInv, ClearPageStateInv
<1>8. CASE \E s \in SpaceIds, r \in RecordIds : DeleteRecord(s, r)
  BY <1>8, DeleteRecordInv
<1>9. CASE \E s \in SpaceIds, l \in Links, e \in Emails : RequestLink(l, s, e)
  BY <1>9, RequestLinkInv
<1>10. CASE (\E l \in Links : ExpireLink(l)) \/ PurgeExpired
  BY <1>10, ExpireLinkInv, PurgeExpiredInv
<1>11. CASE UNCHANGED spaceVars
  <2>1. /\ NoSpaceChange /\ NoSignInChange
        /\ UNCHANGED <<links, members, caller, redeemed, outdated>>
    BY <1>11 DEF spaceVars, NoSpaceChange, NoSignInChange
  <2>2. links' \in [Links -> Link \cup {Missing, Gone}]
    BY <2>1 DEF SpacesInv, SpacesTyped
  <2>3. \A l \in Links : (Spent(l) => Spent(l)') /\ (links[l] # Missing => links'[l] # Missing)
    BY <2>1 DEF Spent
  <2> QED  BY <2>1, <2>2, <2>3, LinkRowsInv
<1> QED
  BY <1>1, <1>2, <1>3, <1>4, <1>5, <1>6, <1>7, <1>8, <1>9, <1>10, <1>11 DEF SpacesNext

(* The tables, requests and ghosts of spaces and of signing in stay related
   as SpacesInv says, whatever a request read before the others wrote. *)
THEOREM SpacesInvariant == SpacesSpec => []SpacesInv
<1>1. SpacesInit => SpacesInv
  BY InitSpacesInv
<1>2. SpacesInv /\ [SpacesNext]_spaceVars => SpacesInv'
  BY NextSpacesInv
<1> QED  BY <1>1, <1>2, PTL DEF SpacesSpec

(* What people put into a space stays until someone takes it out
   (savePageState's "both keep theirs"; updateSpec, updatePage, updateRecord
   and deleteForWorkspace of spaces.service.ts). *)
THEOREM WorkStays == SpacesSpec => []WorkIsKept
<1>1. SpacesInv => WorkIsKept
  BY DEF SpacesInv
<1> QED  BY <1>1, SpacesInvariant, PTL

(* A sign-in link issues one session at most, unless two requests had read it
   before either marked it used (verify of spaces-auth.service.ts). *)
THEOREM LinksAreSingleUse == SpacesSpec => []LinkUsedUp
<1>1. SpacesInv => LinkUsedUp
  BY DEF SpacesInv, LinksAreSound, LinkUsedUp, Spent
<1> QED  BY <1>1, SpacesInvariant, PTL

(* Who has a link in hand; each of them redeems it once at most. *)
Working(l) == {q \in Callers : caller[q].target = LinkTarget(l)}

SpacesBounds ==
    /\ pageState \in [SpaceIds -> SUBSET Keys]
    /\ \A s \in SpaceIds : IsFiniteSet(pageState[s]) /\ Cardinality(pageState[s]) <= MaxKeys
    /\ members \subseteq SpaceIds \X Emails
    /\ \A q \in Callers : caller[q].op \in {"findMember", "saveMember"} =>
                            caller[q].space \in SpaceIds /\ caller[q].email \in Emails
    /\ \A l \in Links : redeemed[l] + Cardinality(Working(l)) <= Cardinality(Callers)

LEMMA WorkersAreCallers ==
    ASSUME NEW l
    PROVE  /\ IsFiniteSet(Working(l)) /\ Cardinality(Working(l)) \in Nat
           /\ Cardinality(Callers) \in Nat /\ Cardinality(Working(l)) <= Cardinality(Callers)
<1>1. IsFiniteSet(Callers) /\ Working(l) \subseteq Callers
  BY SpacesAssumption DEF Working
<1> QED  BY <1>1, FS_Subset, FS_CardinalityType

(* Nobody else takes up a link, and no session is issued. *)
LEMMA NoLinkTakenUp ==
    ASSUME SpacesInv, SpacesBounds, redeemed' = redeemed, NEW l \in Links,
           \A q \in Callers : caller'[q].target = LinkTarget(l) => caller[q].target = LinkTarget(l)
    PROVE  (redeemed[l] + Cardinality(Working(l)) <= Cardinality(Callers))'
<1> DEFINE before == Working(l)
           after == Working(l)'
<1>1. after \subseteq before /\ IsFiniteSet(before)
  BY WorkersAreCallers DEF Working
<1>2. Cardinality(after) <= Cardinality(before) /\ Cardinality(after) \in Nat /\ Cardinality(before) \in Nat
  <2> HIDE DEF after, before
  <2> QED  BY <1>1, FS_Subset, FS_CardinalityType
<1>3. redeemed[l] \in Nat /\ redeemed[l] + Cardinality(before) <= Cardinality(Callers)
  BY DEF SpacesInv, SpacesTyped, SpacesBounds
<1>4. Cardinality(Callers) \in Nat
  BY WorkersAreCallers
<1>5. redeemed[l] + Cardinality(after) <= Cardinality(Callers)
  <2> HIDE DEF after, before
  <2> QED  BY <1>2, <1>3, <1>4
<1> QED  BY <1>5

(* The columns of a space and its members as they were, or fewer. *)
LEMMA BoundsStay ==
    ASSUME SpacesInv, SpacesBounds, redeemed' = redeemed, members' \subseteq members,
           pageState' \in [SpaceIds -> SUBSET Keys],
           \A s \in SpaceIds : IsFiniteSet(pageState'[s]) /\ Cardinality(pageState'[s]) <= MaxKeys,
           \A q \in Callers :
              /\ \A l \in Links : caller'[q].target = LinkTarget(l) => caller[q].target = LinkTarget(l)
              /\ caller'[q].op \in {"findMember", "saveMember"} =>
                    caller'[q].space \in SpaceIds /\ caller'[q].email \in Emails
    PROVE  SpacesBounds'
<1>1. \A l \in Links : (redeemed[l] + Cardinality(Working(l)) <= Cardinality(Callers))'
  BY NoLinkTakenUp
<1> QED  BY <1>1 DEF SpacesBounds

LEMMA ReadBounds ==
    ASSUME SpacesInv, SpacesBounds, NEW q \in Callers, NEW next, Reads(q, next),
           NoSpaceChange, NoSignInChange,
           \A l \in Links : next.target # LinkTarget(l),
           next.op \in {"findMember", "saveMember"} => next.space \in SpaceIds /\ next.email \in Emails
    PROVE  SpacesBounds'
<1>1. UNCHANGED <<pageState, members, redeemed>>
  BY DEF NoSpaceChange, NoSignInChange
<1>2. /\ caller'[q] = next /\ \A c \in Callers : c # q => caller'[c] = caller[c]
  BY DEF SpacesInv, SpacesTyped, Reads
<1>3. \A c \in Callers :
          /\ \A l \in Links : caller'[c].target = LinkTarget(l) => caller[c].target = LinkTarget(l)
          /\ caller'[c].op \in {"findMember", "saveMember"} =>
                caller'[c].space \in SpaceIds /\ caller'[c].email \in Emails
  BY <1>2 DEF SpacesBounds
<1>4. /\ pageState' \in [SpaceIds -> SUBSET Keys]
      /\ \A s \in SpaceIds : IsFiniteSet(pageState'[s]) /\ Cardinality(pageState'[s]) <= MaxKeys
  BY <1>1 DEF SpacesBounds
<1> QED  BY <1>1, <1>3, <1>4, BoundsStay

(* A write; q, if it is a request, is done or goes on with the same link. *)
LEMMA WriteBounds ==
    ASSUME SpacesInv, SpacesBounds, NEW q, NEW ts, NEW next \in Work, Writes(q, ts, next),
           UNCHANGED redeemed, members' \subseteq members,
           pageState' \in [SpaceIds -> SUBSET Keys],
           \A s \in SpaceIds : IsFiniteSet(pageState'[s]) /\ Cardinality(pageState'[s]) <= MaxKeys,
           next.target = Missing \/ (q \in Callers /\ next.target = caller[q].target),
           next.op \in {"findMember", "saveMember"} => next.space \in SpaceIds /\ next.email \in Emails
    PROVE  SpacesBounds'
<1>1. /\ q \in Callers => caller'[q] = next
      /\ \A c \in Callers : c # q => /\ caller'[c].op = caller[c].op /\ caller'[c].target = caller[c].target
                                     /\ caller'[c].space = caller[c].space
                                     /\ caller'[c].email = caller[c].email
  BY WritesMoves DEF SpacesInv, SpacesTyped
<1>2. \A l \in Links : LinkTarget(l) # Missing
  BY TargetsExist
<1>3. \A c \in Callers :
          /\ \A l \in Links : caller'[c].target = LinkTarget(l) => caller[c].target = LinkTarget(l)
          /\ caller'[c].op \in {"findMember", "saveMember"} =>
                caller'[c].space \in SpaceIds /\ caller'[c].email \in Emails
  BY <1>1, <1>2 DEF SpacesBounds
<1> QED  BY <1>3, BoundsStay

LEMMA SaveMemberBounds ==
    ASSUME SpacesInv, SpacesBounds, NEW q \in Callers, SaveMember(q)
    PROVE  SpacesBounds'
<1> DEFINE m == <<caller[q].space, caller[q].email>>
<1>1. /\ UNCHANGED pageState /\ Writes(q, {}, Resting) /\ caller[q].op = "saveMember"
      /\ caller \in [Callers -> Work] /\ redeemed \in [Links -> Nat]
  BY DEF SaveMember, NoSpaceChange, SpacesInv, SpacesTyped
<1>2. Resting.target = Missing /\ Resting.op = "idle" /\ Resting \in Work
  BY RestingIsWork
<1>3. /\ pageState' \in [SpaceIds -> SUBSET Keys]
      /\ \A s \in SpaceIds : IsFiniteSet(pageState'[s]) /\ Cardinality(pageState'[s]) <= MaxKeys
  BY <1>1 DEF SpacesBounds
<1>4. CASE UNCHANGED <<members, redeemed>>
  BY <1>1, <1>2, <1>3, <1>4, WriteBounds
<1>5. CASE /\ members' = members \cup {m}
           /\ redeemed' = [l \in Links |-> redeemed[l] + (IF caller[q].target = LinkTarget(l) THEN 1 ELSE 0)]
  <2>1. /\ caller'[q] = Resting
        /\ \A c \in Callers : c # q => /\ caller'[c].op = caller[c].op /\ caller'[c].target = caller[c].target
                                       /\ caller'[c].space = caller[c].space
                                       /\ caller'[c].email = caller[c].email
    BY <1>1, <1>2, WritesMoves
  <2>2. members' \subseteq SpaceIds \X Emails
    BY <1>1, <1>5 DEF SpacesBounds
  <2>3. \A c \in Callers : caller'[c].op \in {"findMember", "saveMember"} =>
                              caller'[c].space \in SpaceIds /\ caller'[c].email \in Emails
    BY <1>2, <2>1 DEF SpacesBounds
  <2>4. ASSUME NEW l \in Links
        PROVE  (redeemed[l] + Cardinality(Working(l)) <= Cardinality(Callers))'
    <3> DEFINE before == Working(l)
               after == Working(l)'
    <3>1. /\ IsFiniteSet(before) /\ Cardinality(before) \in Nat /\ Cardinality(Callers) \in Nat
          /\ redeemed[l] \in Nat /\ redeemed[l] + Cardinality(before) <= Cardinality(Callers)
      BY <1>1, WorkersAreCallers DEF SpacesBounds
    <3>2. LinkTarget(l) # Missing
      BY TargetsExist
    <3>3. after = before \ {q} /\ (caller[q].target = LinkTarget(l) <=> q \in before)
      BY <1>2, <2>1, <3>2 DEF Working
    <3>4. redeemed'[l] = redeemed[l] + (IF q \in before THEN 1 ELSE 0)
      BY <1>5, <3>3
    <3> HIDE DEF before, after
    <3>5. CASE q \in before
      <4>1. Cardinality(after) = Cardinality(before) - 1 /\ redeemed'[l] = redeemed[l] + 1
        BY <3>1, <3>3, <3>4, <3>5, FS_RemoveElement
      <4>2. redeemed'[l] + Cardinality(after) <= Cardinality(Callers)
        BY <3>1, <4>1
      <4> QED  BY <4>2 DEF after
    <3>6. CASE q \notin before
      <4>1. after = before /\ redeemed'[l] = redeemed[l]
        BY <3>1, <3>3, <3>4, <3>6
      <4>2. redeemed'[l] + Cardinality(after) <= Cardinality(Callers)
        BY <3>1, <4>1
      <4> QED  BY <4>2 DEF after
    <3> QED  BY <3>5, <3>6
  <2> QED  BY <1>3, <2>2, <2>3, <2>4 DEF SpacesBounds
<1> QED  BY <1>4, <1>5 DEF SaveMember

LEMMA VerifyBounds ==
    ASSUME SpacesInv, SpacesBounds, NEW q \in Callers, NEW l \in Links, Verify(q, l)
    PROVE  SpacesBounds'
<1> DEFINE next == [Resting EXCEPT !.op = "verify", !.target = LinkTarget(l),
                            !.space = links[l].space, !.email = links[l].email]
<1>1. /\ links[l] \in Link /\ ~links[l].used /\ caller' = [caller EXCEPT ![q] = next]
      /\ UNCHANGED <<pageState, members, redeemed>>
  BY DEF Verify, Redeemable, NoSpaceChange, NoSignInChange, Reads
<1>2. next.op = "verify" /\ next.target = LinkTarget(l)
  BY DEF Resting
<1> HIDE DEF next
<1>3. /\ caller'[q] = next /\ \A c \in Callers : c # q => caller'[c] = caller[c]
  BY <1>1 DEF SpacesInv, SpacesTyped
<1>4. \A c \in Callers : caller'[c].op \in {"findMember", "saveMember"} =>
                            caller'[c].space \in SpaceIds /\ caller'[c].email \in Emails
  BY <1>2, <1>3 DEF SpacesBounds
<1>5. ASSUME NEW k \in Links
      PROVE  (redeemed[k] + Cardinality(Working(k)) <= Cardinality(Callers))'
  <2>1. CASE k = l
    <3>1. links[l] # Gone
      BY <1>1, NoSpaceRowAssumption
    <3>2. redeemed[l] = 0
      BY <1>1, <3>1 DEF SpacesInv, SpacesTyped, LinksAreSound, Spent
    <3> DEFINE after == Working(l)'
    <3>3. IsFiniteSet(Callers) /\ after \subseteq Callers
      BY SpacesAssumption DEF Working
    <3> HIDE DEF after
    <3>4. Cardinality(after) \in Nat /\ Cardinality(after) <= Cardinality(Callers)
      BY <3>3, FS_Subset, FS_CardinalityType
    <3>5. 0 + Cardinality(after) <= Cardinality(Callers)
      BY <3>4, WorkersAreCallers
    <3> QED  BY <1>1, <2>1, <3>2, <3>5 DEF after
  <2>2. CASE k # l
    <3>1. LinkTarget(k) # LinkTarget(l)
      BY <2>2, TargetsDiffer
    <3>2. \A c \in Callers : caller'[c].target = LinkTarget(k) => caller[c].target = LinkTarget(k)
      BY <1>2, <1>3, <3>1
    <3> QED  BY <1>1, <3>2, NoLinkTakenUp
  <2> QED  BY <2>1, <2>2
<1> QED  BY <1>1, <1>4, <1>5 DEF SpacesBounds

LEMMA SpacesBoundsStep == SpacesInv /\ SpacesBounds /\ [SpacesNext]_spaceVars => SpacesBounds'
<1> SUFFICES ASSUME SpacesInv, SpacesBounds, [SpacesNext]_spaceVars  PROVE SpacesBounds'
  OBVIOUS
<1> DEFINE Columns(p) == /\ p \in [SpaceIds -> SUBSET Keys]
                         /\ \A s \in SpaceIds : IsFiniteSet(p[s]) /\ Cardinality(p[s]) <= MaxKeys
           Steady == \A q \in Callers :
                        /\ \A l \in Links : caller'[q].target = LinkTarget(l) => caller[q].target = LinkTarget(l)
                        /\ caller'[q].op \in {"findMember", "saveMember"} =>
                              caller'[q].space \in SpaceIds /\ caller'[q].email \in Emails
<1>0. /\ Columns(pageState) /\ (UNCHANGED caller => Steady)
      /\ caller \in [Callers -> Work] /\ DOMAIN pageState = SpaceIds /\ pageState = ticked
      /\ Resting \in Work /\ Resting.target = Missing /\ Resting.op = "idle"
  BY RestingIsWork DEF SpacesBounds, SpacesInv, SpacesTyped
<1>1. ASSUME UNCHANGED <<caller, redeemed>>, members' \subseteq members, Columns(pageState')
      PROVE  SpacesBounds'
  BY <1>0, <1>1, BoundsStay
<1>2. ASSUME NEW q, NEW ts, Writes(q, ts, Resting), UNCHANGED redeemed, members' \subseteq members,
             Columns(pageState')
      PROVE  SpacesBounds'
  BY <1>0, <1>2, WriteBounds
<1>3. CASE UNCHANGED spaceVars
  BY <1>0, <1>1, <1>3 DEF spaceVars
<1>4. ASSUME NEW q \in Callers, NEW s \in SpaceIds, NEW x \in Changes, NEW open \in BOOLEAN,
             UpdateSpec(q, s, x, open)
      PROVE  SpacesBounds'
  <2> DEFINE row == [spaces[s] EXCEPT !.content = {x}, !.open = open]
             next == [Resting EXCEPT !.op = "updateSpec", !.target = SpaceTarget(s), !.space = s, !.row = row]
  <2>1. Reads(q, next) /\ NoSpaceChange /\ NoSignInChange
    BY <1>4 DEF UpdateSpec
  <2> HIDE DEF row
  <2>2. next.op = "updateSpec" /\ \A l \in Links : next.target # LinkTarget(l)
    BY TargetsDiffer DEF Resting
  <2> HIDE DEF next
  <2> QED  BY <2>1, <2>2, ReadBounds
<1>5. ASSUME NEW q \in Callers, NEW s \in SpaceIds, NEW x \in Changes, NEW whole \in BOOLEAN,
             UpdatePage(q, s, x, whole)
      PROVE  SpacesBounds'
  <2> DEFINE row == [spaces[s] EXCEPT !.content = Edited(spaces[s].content, x, whole)]
             next == [Resting EXCEPT !.op = "updatePage", !.target = SpaceTarget(s), !.space = s,
                            !.row = row, !.change = x, !.whole = whole]
  <2>1. Reads(q, next) /\ NoSpaceChange /\ NoSignInChange
    BY <1>5 DEF UpdatePage
  <2> HIDE DEF row
  <2>2. next.op = "updatePage" /\ \A l \in Links : next.target # LinkTarget(l)
    BY TargetsDiffer DEF Resting
  <2> HIDE DEF next
  <2> QED  BY <2>1, <2>2, ReadBounds
<1>6. ASSUME NEW q \in Callers, NEW s \in SpaceIds, NEW r \in RecordIds, NEW x \in Changes,
             OpenRecord(q, s, r, x)
      PROVE  SpacesBounds'
  <2> DEFINE op == IF records[s][r] = Missing THEN "addRecord" ELSE "updateRecord"
             next == [Resting EXCEPT !.op = op, !.target = RecordTarget(s, r), !.space = s, !.change = x]
  <2>1. Reads(q, next) /\ NoSpaceChange /\ NoSignInChange
    BY <1>6 DEF OpenRecord
  <2>2. op \notin {"findMember", "saveMember"}
    OBVIOUS
  <2> HIDE DEF op
  <2>3. next.op = op /\ \A l \in Links : next.target # LinkTarget(l)
    BY TargetsDiffer DEF Resting
  <2> HIDE DEF next
  <2> QED  BY <2>1, <2>2, <2>3, ReadBounds
<1>7. ASSUME NEW q \in Callers, NEW s \in SpaceIds, NEW e \in Emails, WorkspaceSession(q, s, e)
      PROVE  SpacesBounds'
  <2> DEFINE next == [Resting EXCEPT !.op = "findMember", !.space = s, !.email = e]
  <2>1. Reads(q, next) /\ NoSpaceChange /\ NoSignInChange
    BY <1>7 DEF WorkspaceSession
  <2>2. next.space = s /\ next.email = e /\ \A l \in Links : next.target # LinkTarget(l)
    BY TargetsExist DEF Resting
  <2> HIDE DEF next
  <2> QED  BY <2>1, <2>2, ReadBounds
<1>8. ASSUME NEW q \in Callers, NEW l \in Links, Verify(q, l)  PROVE SpacesBounds'
  BY <1>8, VerifyBounds
<1>9. ASSUME NEW q \in Callers, SaveSpec(q) \/ WritePage(q) \/ SaveRecord(q) \/ CallerDies(q)
      PROVE  SpacesBounds'
  <2>1. /\ \E ts : Writes(q, ts, Resting)
        /\ UNCHANGED <<redeemed, members, pageState>>
    BY <1>9 DEF SaveSpec, WritePage, SaveRecord, CallerDies, NoSpaceChange, NoSignInChange
  <2> QED  BY <1>0, <1>2, <2>1
<1>10. ASSUME NEW q \in Callers, MarkUsed(q)  PROVE SpacesBounds'
  <2> DEFINE no == FALSE
             next == [caller[q] EXCEPT !.op = "findMember", !.stale = no]
  <2>1. /\ UNCHANGED <<redeemed, members, pageState>> /\ caller[q].op = "verify"
        /\ Writes(q, {}, Resting) \/ \E ts : Writes(q, ts, next)
    BY <1>10 DEF MarkUsed, NoSpaceChange
  <2>2. CASE Writes(q, {}, Resting)
    BY <1>0, <1>2, <2>1, <2>2
  <2>3. CASE \E ts : Writes(q, ts, next)
    <3>1. no \in BOOLEAN /\ caller[q] \in Work
      BY <1>0
    <3> HIDE DEF no
    <3>2. /\ next \in Work /\ next.target = caller[q].target /\ next.space = caller[q].space
          /\ next.email = caller[q].email
      BY <3>1 DEF Work, CallerOps
    <3> HIDE DEF next
    <3>3. caller[q].space \in SpaceIds /\ caller[q].email \in Emails
      BY <2>1 DEF SpacesInv, Aims
    <3> QED  BY <1>0, <2>1, <2>3, <3>2, <3>3, WriteBounds
  <2> QED  BY <2>1, <2>2, <2>3
<1>11. ASSUME NEW q \in Callers, FindMember(q)  PROVE SpacesBounds'
  <2> DEFINE found == <<caller[q].space, caller[q].email>> \in members
             next == [caller[q] EXCEPT !.op = "saveMember", !.found = found]
  <2>1. /\ UNCHANGED <<redeemed, members, pageState>> /\ caller[q].op = "findMember"
        /\ Writes(q, {}, next)
    BY <1>11 DEF FindMember, NoSpaceChange, NoSignInChange
  <2>2. found \in BOOLEAN /\ caller[q] \in Work
    BY <1>0
  <2> HIDE DEF found
  <2>3. /\ next \in Work /\ next.target = caller[q].target /\ next.space = caller[q].space
        /\ next.email = caller[q].email
    BY <2>2 DEF Work, CallerOps
  <2> HIDE DEF next
  <2>4. caller[q].space \in SpaceIds /\ caller[q].email \in Emails
    BY <2>1 DEF SpacesBounds
  <2> QED  BY <1>0, <2>1, <2>3, <2>4, WriteBounds
<1>12. ASSUME NEW q \in Callers, SaveMember(q)  PROVE SpacesBounds'
  BY <1>12, SaveMemberBounds
<1>13. ASSUME NEW s \in SpaceIds, DeleteSpace(s)  PROVE SpacesBounds'
  <2>1. /\ \E ts : Writes(Missing, ts, Resting)
        /\ UNCHANGED redeemed /\ members' \subseteq members /\ pageState' = [pageState EXCEPT ![s] = {}]
    BY <1>13 DEF DeleteSpace
  <2>2. {} \subseteq Keys /\ IsFiniteSet({}) /\ Cardinality({}) <= MaxKeys
    BY FS_EmptySet, SpacesAssumption
  <2>3. Columns(pageState')
    BY <1>0, <2>1, <2>2
  <2> QED  BY <1>2, <2>1, <2>3
<1>14. ASSUME NEW s \in SpaceIds, NEW kind, NEW open, NEW seeds, CreateSpace(s, kind, open, seeds)
       PROVE  SpacesBounds'
  BY <1>0, <1>1, <1>14 DEF CreateSpace, NoSignInChange
<1>15. ASSUME NEW s \in SpaceIds, NEW k \in Keys, SavePageState(s, k)  PROVE SpacesBounds'
  <2> DEFINE more == pageState[s] \cup {k}
  <2>1. /\ UNCHANGED <<caller, redeemed, members>> /\ pageState' = [pageState EXCEPT ![s] = more]
        /\ Cardinality(more) <= MaxKeys
    BY <1>15 DEF SavePageState, Fits, Merged, NoSignInChange
  <2>2. more \subseteq Keys /\ IsFiniteSet(more)
    BY <1>0, FS_AddElement
  <2> HIDE DEF more
  <2>3. Columns(pageState')
    BY <1>0, <2>1, <2>2
  <2> QED  BY <1>1, <2>1, <2>3
<1>16. ASSUME NEW s \in SpaceIds, NEW k \in Keys, ClearPageState(s, k)  PROVE SpacesBounds'
  <2> DEFINE less == pageState[s] \ {k}
  <2>1. /\ UNCHANGED <<caller, redeemed, members>> /\ pageState' = [pageState EXCEPT ![s] = less]
    BY <1>16 DEF ClearPageState, NoSignInChange
  <2>2. less \subseteq pageState[s] /\ IsFiniteSet(pageState[s]) /\ Cardinality(pageState[s]) <= MaxKeys
    BY <1>0
  <2> HIDE DEF less
  <2>3. less \subseteq Keys /\ IsFiniteSet(less) /\ Cardinality(less) <= Cardinality(pageState[s])
        /\ Cardinality(less) \in Nat /\ Cardinality(pageState[s]) \in Nat
    BY <1>0, <2>2, FS_Subset, FS_CardinalityType
  <2>4. Cardinality(less) <= MaxKeys
    BY <2>2, <2>3, SpacesAssumption
  <2>5. Columns(pageState')
    BY <1>0, <2>1, <2>3, <2>4
  <2> QED  BY <1>1, <2>1, <2>5
<1>17. ASSUME NEW s \in SpaceIds, NEW r \in RecordIds, DeleteRecord(s, r)  PROVE SpacesBounds'
  BY <1>0, <1>2, <1>17 DEF DeleteRecord, NoSignInChange
<1>18. ASSUME NEW l \in Links, NEW s \in SpaceIds, NEW e \in Emails, RequestLink(l, s, e)
       PROVE  SpacesBounds'
  BY <1>0, <1>1, <1>18 DEF RequestLink, NoSpaceChange
<1>19. ASSUME NEW l \in Links, ExpireLink(l)  PROVE SpacesBounds'
  BY <1>0, <1>1, <1>19 DEF ExpireLink, NoSpaceChange
<1>20. CASE PurgeExpired
  BY <1>0, <1>1, <1>20 DEF PurgeExpired, NoSpaceChange
<1> HIDE DEF Columns, Steady
<1> QED  BY <1>3, <1>4, <1>5, <1>6, <1>7, <1>8, <1>9, <1>10, <1>11, <1>12, <1>13, <1>14, <1>15,
            <1>16, <1>17, <1>18, <1>19, <1>20 DEF SpacesNext

LEMMA InitSpacesBounds == SpacesInit => SpacesBounds
<1> SUFFICES ASSUME SpacesInit  PROVE SpacesBounds
  OBVIOUS
<1>1. Resting.op = "idle"
  BY RestingIsWork
<1>2. IsFiniteSet({}) /\ Cardinality({}) = 0
  BY FS_EmptySet
<1>3. \A l \in Links : redeemed[l] + Cardinality(Working(l)) <= Cardinality(Callers)
  <2> SUFFICES ASSUME NEW l \in Links  PROVE redeemed[l] + Cardinality(Working(l)) <= Cardinality(Callers)
    OBVIOUS
  <2>1. redeemed[l] = 0
    BY DEF SpacesInit
  <2> QED  BY <2>1, WorkersAreCallers
<1> QED  BY <1>1, <1>2, <1>3, SpacesAssumption DEF SpacesInit, SpacesBounds

LEMMA SpacesTypes == SpacesInv /\ SpacesBounds => SpacesTypeOK
<1> SUFFICES ASSUME SpacesInv, SpacesBounds  PROVE SpacesTypeOK
  OBVIOUS
<1>1. ticked \in [SpaceIds -> SUBSET Keys]
  BY DEF SpacesInv, SpacesTyped, WorkIsKept, SpacesBounds
<1>2. redeemed \in [Links -> 0 .. Cardinality(Callers)]
  <2>1. \A l \in Links : redeemed[l] \in 0 .. Cardinality(Callers)
    <3> SUFFICES ASSUME NEW l \in Links  PROVE redeemed[l] \in 0 .. Cardinality(Callers)
      OBVIOUS
    <3>1. redeemed[l] \in Nat /\ redeemed[l] + Cardinality(Working(l)) <= Cardinality(Callers)
      BY DEF SpacesInv, SpacesTyped, SpacesBounds
    <3> QED  BY <3>1, WorkersAreCallers
  <2> QED  BY <2>1 DEF SpacesInv, SpacesTyped
<1>3. \A q \in Callers : caller[q] \in Work
  BY DEF SpacesInv, SpacesTyped
<1> QED  BY <1>1, <1>2, <1>3 DEF SpacesTypeOK, SpacesInv, SpacesTyped, SpacesBounds, Work

-----------------------------------------------------------------------------
(* Connections.  As long as nobody is about to save a row of the account it   *)
(* had found there, the account is as its members left it (AsLeft).  A request *)
(* that is alone with such a save, and not out of date, brings a row that is  *)
(* (Brings); of two of them the first to save makes the other one's save an   *)
(* out-of-date one.                                                           *)

Hand == [phase : HandPhases, account : Connections \cup {NoRun}, row : Connection \cup {NoToken},
         found : BOOLEAN, decides : BOOLEAN, stale : BOOLEAN]

ConnectionsTyped ==
    /\ connections \in [Connections -> Connection \cup {NoToken}]
    /\ issued \in [Connections -> 0 .. MaxIssued]
    /\ accepted \in [Connections -> SUBSET Nat]
    /\ kept \in [Connections -> BOOLEAN \cup {NoToken}]
    /\ hand \in [Runs -> Hand]

(* What a request at work has in memory. *)
HandSound(h) ==
    /\ h.phase # "idle" => h.account \in Connections /\ h.row \in Connection
    /\ h.phase = "refresh" => h.found /\ h.row.refresh # NoToken
    /\ h.phase \in Saving /\ ~h.found => h.decides
    /\ h.phase = "connect" => h.decides
    /\ h.phase # "idle" /\ ~h.stale => (h.found <=> connections[h.account] # NoToken)
    /\ h.phase = "refresh" /\ ~h.stale => h.row = connections[h.account]

Saves(q, c) == hand[q].phase \in Saving /\ hand[q].account = c
Replaces(q, c) == Saves(q, c) /\ hand[q].found

(* The refresh token of a row of c is one Meta accepts, or was never given. *)
Refreshes(c, refresh) == IF c \in bare THEN refresh = NoToken ELSE refresh \in accepted[c]

AsLeft(c) ==
    \/ connections[c] = NoToken /\ kept[c] = NoToken
    \/ /\ connections[c] # NoToken
       /\ connections[c].isActive = kept[c]
       /\ Refreshes(c, connections[c].refresh)

Brings(q, c) ==
    /\ IF hand[q].phase = "connect" THEN hand[q].row.refresh \in accepted[c] \cup {NoToken}
                                    ELSE Refreshes(c, hand[q].row.refresh)
    /\ hand[q].decides \/ hand[q].row.isActive = kept[c]

(* What the invariant says of one account. *)
AccountSound(c) ==
    /\ (\E q \in Runs : Replaces(q, c)) \/ AsLeft(c)
    /\ \A q \in Runs : Saves(q, c) /\ ~hand[q].stale =>
            (\E p \in Runs : p # q /\ Replaces(p, c)) \/ Brings(q, c)

ConnectionsInv ==
    /\ ConnectionsTyped
    /\ \A q \in Runs : HandSound(hand[q])
    /\ \A c \in Connections \ upset : AccountSound(c)

LEMMA EmptyHandIsHand == EmptyHand \in Hand /\ EmptyHand.phase = "idle"
<1> DEFINE no == FALSE
           empty == [phase |-> "idle", account |-> NoRun, row |-> NoToken, found |-> no,
                     decides |-> no, stale |-> no]
<1>1. no \in BOOLEAN
  OBVIOUS
<1> HIDE DEF no
<1>2. empty \in Hand /\ empty.phase = "idle"
  BY <1>1 DEF Hand, HandPhases, Saving
<1>3. empty = EmptyHand
  BY DEF EmptyHand, no
<1> QED  BY <1>2, <1>3

LEMMA HoldsMoves ==
    ASSUME ConnectionsTyped, NEW q \in Runs, NEW c \in Connections, NEW phase \in HandPhases,
           NEW row \in Connection, NEW decides \in BOOLEAN, Holds(q, phase, c, row, decides)
    PROVE  /\ hand' \in [Runs -> Hand] /\ hand'[q].phase = phase /\ hand'[q].account = c
           /\ hand'[q].row = row /\ (hand'[q].decides <=> decides) /\ ~hand'[q].stale
           /\ (hand'[q].found <=> connections[c] # NoToken)
           /\ \A p \in Runs : p # q => hand'[p] = hand[p]
<1> DEFINE no == FALSE
           found == connections[c] # NoToken
           next == [phase |-> phase, account |-> c, row |-> row, found |-> found,
                    decides |-> decides, stale |-> no]
<1>1. hand' = [hand EXCEPT ![q] = next]
  BY DEF Holds
<1>2. no \in BOOLEAN /\ ~no /\ found \in BOOLEAN /\ (found <=> connections[c] # NoToken)
  OBVIOUS
<1> HIDE DEF no, found
<1>3. /\ next \in Hand /\ next.phase = phase /\ next.account = c /\ next.row = row
      /\ next.decides = decides /\ next.stale = no /\ next.found = found
  BY <1>2 DEF Hand
<1> HIDE DEF next
<1> QED  BY <1>1, <1>2, <1>3 DEF ConnectionsTyped

(* An account nobody's row, wish or saved token of which has changed. *)
LEMMA AccountUntouched ==
    ASSUME NEW c \in Connections, AccountSound(c),
           connections'[c] = connections[c], kept'[c] = kept[c], accepted[c] \subseteq accepted'[c],
           c \in bare' <=> c \in bare,
           \A q \in Runs : Saves(q, c)' => /\ Saves(q, c) /\ hand'[q].row = hand[q].row
                                           /\ hand'[q].phase = hand[q].phase
                                           /\ (hand'[q].decides <=> hand[q].decides)
                                           /\ (hand'[q].found <=> hand[q].found)
                                           /\ (~hand'[q].stale => ~hand[q].stale),
           \A q \in Runs : Replaces(q, c) => Replaces(q, c)'
    PROVE  AccountSound(c)'
<1>1. (\E q \in Runs : Replaces(q, c)') \/ AsLeft(c)'
  BY DEF AccountSound, AsLeft, Refreshes
<1>2. ASSUME NEW q \in Runs, Saves(q, c)', ~hand'[q].stale
      PROVE  (\E p \in Runs : p # q /\ Replaces(p, c)') \/ Brings(q, c)'
  BY <1>2 DEF AccountSound, Brings, Refreshes
<1> QED  BY <1>1, <1>2 DEF AccountSound

LEMMA InitConnectionsInv == ConnectionsInit => ConnectionsInv
<1> SUFFICES ASSUME ConnectionsInit PROVE ConnectionsInv
    OBVIOUS
<1>1. \A q \in Runs : hand[q] = EmptyHand
  BY DEF ConnectionsInit
<1>2. ConnectionsTyped
  BY EmptyHandIsHand, ConnectionsAssumption DEF ConnectionsInit, ConnectionsTyped
<1>3. \A q \in Runs : HandSound(hand[q])
  BY <1>1, EmptyHandIsHand DEF HandSound, Saving
<1>4. \A c \in Connections : AccountSound(c)
  BY <1>1, EmptyHandIsHand DEF AccountSound, Saves, Saving, Replaces, AsLeft, ConnectionsInit
<1> QED  BY <1>2, <1>3, <1>4 DEF ConnectionsInv

(* The table and the hands are as they were; Meta may have issued tokens, and
   an account been upset. *)
LEMMA NothingHeldInv ==
    ASSUME ConnectionsInv, UNCHANGED <<connections, hand, kept, bare>>,
           issued' = issued, accepted' \in [Connections -> SUBSET Nat], upset \subseteq upset',
           \A c \in Connections \ upset' : accepted[c] \subseteq accepted'[c]
    PROVE  ConnectionsInv'
<1>1. ConnectionsTyped' /\ \A q \in Runs : HandSound(hand[q])'
  BY DEF ConnectionsInv, ConnectionsTyped, HandSound
<1>2. ASSUME NEW c \in Connections \ upset'  PROVE AccountSound(c)'
  BY <1>2, AccountUntouched DEF ConnectionsInv, Saves, Replaces
<1> QED  BY <1>1, <1>2 DEF ConnectionsInv

LEMMA CompleteMetaConnectInv ==
    ASSUME ConnectionsInv, NEW q \in Runs, NEW c \in Connections, NEW given \in BOOLEAN,
           CompleteMetaConnect(q, c, given)
    PROVE  ConnectionsInv'
<1> DEFINE yes == TRUE
           new == issued'[c]
           got == IF given THEN new ELSE NoToken
           row == [isActive |-> yes, access |-> new, refresh |-> got]
<1>1. /\ hand[q].phase = "idle" /\ Issue(c, given, {}) /\ Holds(q, "connect", c, row, TRUE)
      /\ UNCHANGED <<connections, kept, bare, upset>> /\ ConnectionsTyped
  BY DEF CompleteMetaConnect, ConnectionsInv
<1>2. /\ issued' \in [Connections -> 0 .. MaxIssued] /\ new \in Tokens /\ new = issued[c] + 1
      /\ new \in Nat
  BY <1>1, ConnectionsAssumption DEF Issue, ConnectionsTyped, Tokens
<1>3. accepted' = IF given THEN [accepted EXCEPT ![c] = (accepted[c] \ {}) \cup {new}] ELSE accepted
  BY <1>1, <1>2 DEF Issue
<1>4. /\ accepted' \in [Connections -> SUBSET Nat] /\ got \in accepted'[c] \cup {NoToken}
      /\ \A d \in Connections : accepted[d] \subseteq accepted'[d]
      /\ got \in Tokens \cup {NoToken}
  <2>1. CASE given
    BY <1>1, <1>2, <1>3, <2>1 DEF ConnectionsTyped
  <2>2. CASE ~given
    BY <1>1, <1>2, <1>3, <2>2 DEF ConnectionsTyped
  <2> QED  BY <2>1, <2>2
<1>5. yes \in BOOLEAN
  OBVIOUS
<1> HIDE DEF yes, got
<1>6. row \in Connection /\ row.refresh = got
  BY <1>2, <1>4, <1>5 DEF Connection
<1> HIDE DEF new, row
<1>7. /\ hand' \in [Runs -> Hand] /\ hand'[q].phase = "connect" /\ hand'[q].account = c
      /\ hand'[q].row = row /\ hand'[q].decides /\ ~hand'[q].stale
      /\ (hand'[q].found <=> connections[c] # NoToken)
      /\ \A p \in Runs : p # q => hand'[p] = hand[p]
  BY <1>1, <1>6, HoldsMoves DEF HandPhases, Saving
<1>8. ConnectionsTyped'
  BY <1>1, <1>2, <1>4, <1>7 DEF ConnectionsTyped
<1>9. \A p \in Runs : HandSound(hand[p])'
  <2>1. HandSound(hand[q])'
    BY <1>1, <1>6, <1>7 DEF HandSound, Saving
  <2>2. ASSUME NEW p \in Runs, p # q  PROVE HandSound(hand[p])'
    BY <1>1, <1>7, <2>2 DEF ConnectionsInv, HandSound
  <2> QED  BY <2>1, <2>2
<1>10. ASSUME NEW d \in Connections \ upset'  PROVE AccountSound(d)'
  <2>1. AccountSound(d)
    BY <1>1, <1>10 DEF ConnectionsInv
  <2>2. \A p \in Runs : p # q => /\ Saves(p, d)' <=> Saves(p, d)
                                 /\ Replaces(p, d)' <=> Replaces(p, d)
    BY <1>7 DEF Saves, Replaces
  <2>3. ~Saves(q, d) /\ ~Replaces(q, d)
    BY <1>1 DEF Saves, Saving, Replaces
  <2>4. (\E p \in Runs : Replaces(p, d)') \/ AsLeft(d)'
    BY <1>1, <1>4, <2>1, <2>2, <2>3 DEF AccountSound, AsLeft, Refreshes
  <2>5. ASSUME NEW p \in Runs, Saves(p, d)', ~hand'[p].stale
        PROVE  (\E r \in Runs : r # p /\ Replaces(r, d)') \/ Brings(p, d)'
    <3>1. CASE p = q
      BY <1>4, <1>6, <1>7, <2>5, <3>1 DEF Saves, Brings
    <3>2. CASE p # q
      BY <1>1, <1>4, <1>7, <2>1, <2>2, <2>3, <2>5, <3>2 DEF AccountSound, Brings, Refreshes
    <3> QED  BY <3>1, <3>2
  <2> QED  BY <2>4, <2>5 DEF AccountSound
<1> QED  BY <1>8, <1>9, <1>10 DEF ConnectionsInv

(* A request takes the row of the account as it is, to refresh or to edit it. *)
LEMMA TakesRowInv ==
    ASSUME ConnectionsInv, NEW q \in Runs, NEW c \in Connections, NEW row \in Connection,
           NEW phase \in {"refresh", "save"}, NEW decides \in BOOLEAN,
           hand[q].phase = "idle", connections[c] # NoToken, Holds(q, phase, c, row, decides),
           UNCHANGED <<connections, issued, accepted, kept, bare, upset>>,
           phase = "refresh" => row = connections[c] /\ row.refresh # NoToken,
           row.refresh = connections[c].refresh,
           decides \/ row.isActive = connections[c].isActive
    PROVE  ConnectionsInv'
<1>1. /\ hand' \in [Runs -> Hand] /\ hand'[q].phase = phase /\ hand'[q].account = c
      /\ hand'[q].row = row /\ (hand'[q].decides <=> decides) /\ ~hand'[q].stale
      /\ hand'[q].found
      /\ \A p \in Runs : p # q => hand'[p] = hand[p]
  BY HoldsMoves DEF ConnectionsInv, HandPhases, Saving
<1>2. ConnectionsTyped'
  BY <1>1 DEF ConnectionsInv, ConnectionsTyped
<1>3. \A p \in Runs : HandSound(hand[p])'
  <2>1. HandSound(hand[q])'
    BY <1>1 DEF HandSound, Saving
  <2>2. ASSUME NEW p \in Runs, p # q  PROVE HandSound(hand[p])'
    BY <1>1, <2>2 DEF ConnectionsInv, HandSound
  <2> QED  BY <2>1, <2>2
<1>4. ASSUME NEW d \in Connections \ upset'  PROVE AccountSound(d)'
  <2>1. AccountSound(d)
    BY <1>4 DEF ConnectionsInv
  <2>2. \A p \in Runs : p # q => /\ Saves(p, d)' <=> Saves(p, d)
                                 /\ Replaces(p, d)' <=> Replaces(p, d)
    BY <1>1 DEF Saves, Replaces
  <2>3. ~Saves(q, d) /\ ~Replaces(q, d)
    BY DEF Saves, Saving, Replaces
  <2>4. (\E p \in Runs : Replaces(p, d)') \/ AsLeft(d)'
    BY <2>1, <2>2, <2>3 DEF AccountSound, AsLeft, Refreshes
  <2>5. ASSUME NEW p \in Runs, Saves(p, d)', ~hand'[p].stale
        PROVE  (\E r \in Runs : r # p /\ Replaces(r, d)') \/ Brings(p, d)'
    <3>1. CASE p = q
      <4>1. d = c
        BY <1>1, <2>5, <3>1 DEF Saves
      <4>2. CASE AsLeft(c)
        BY <1>1, <3>1, <4>1, <4>2 DEF AsLeft, Brings, Refreshes
      <4>3. CASE \E r \in Runs : Replaces(r, d)
        BY <2>2, <2>3, <3>1, <4>3
      <4> QED  BY <2>1, <4>1, <4>2, <4>3 DEF AccountSound
    <3>2. CASE p # q
      BY <1>1, <2>1, <2>2, <2>3, <2>5, <3>2 DEF AccountSound, Brings, Refreshes
    <3> QED  BY <3>1, <3>2
  <2> QED  BY <2>4, <2>5 DEF AccountSound
<1> QED  BY <1>2, <1>3, <1>4 DEF ConnectionsInv

LEMMA NeedTokenInv ==
    ASSUME ConnectionsInv, NEW q \in Runs, NEW c \in Connections, NeedToken(q, c)
    PROVE  ConnectionsInv'
<1>1. /\ hand[q].phase = "idle" /\ connections[c] # NoToken
      /\ connections[c].refresh # NoToken
      /\ Holds(q, "refresh", c, connections[c], FALSE)
      /\ UNCHANGED <<connections, issued, accepted, kept, bare, upset>>
  BY DEF NeedToken
<1>2. connections[c] \in Connection
  BY <1>1 DEF ConnectionsInv, ConnectionsTyped
<1> QED  BY <1>1, <1>2, TakesRowInv

LEMMA UpdateConnectionInv ==
    ASSUME ConnectionsInv, NEW q \in Runs, NEW c \in Connections, NEW active \in BOOLEAN,
           UpdateConnection(q, c, active)
    PROVE  ConnectionsInv'
<1> DEFINE row == [connections[c] EXCEPT !.isActive = active]
           decides == active # connections[c].isActive
<1>1. /\ hand[q].phase = "idle" /\ connections[c] # NoToken
      /\ Holds(q, "save", c, row, decides)
      /\ UNCHANGED <<connections, issued, accepted, kept, bare, upset>>
  BY DEF UpdateConnection
<1>2. connections[c] \in Connection
  BY <1>1 DEF ConnectionsInv, ConnectionsTyped
<1>3. /\ row \in Connection /\ row.refresh = connections[c].refresh /\ row.isActive = active
      /\ decides \in BOOLEAN
  BY <1>2 DEF Connection
<1>4. decides \/ row.isActive = connections[c].isActive
  BY <1>3
<1> HIDE DEF row, decides
<1> QED  BY <1>1, <1>3, <1>4, TakesRowInv

(* A refresh is over: the row it took is to be saved. *)
AfterRefresh == {"refreshed", "save"}

LEMMA RefreshEndsInv ==
    ASSUME ConnectionsInv, NEW q \in Runs, NEW c, c = hand[q].account, NEW row \in Connection,
           NEW phase \in AfterRefresh, hand[q].phase = "refresh",
           hand' = [hand EXCEPT ![q] = [hand[q] EXCEPT !.phase = phase, !.row = row]],
           UNCHANGED <<connections, kept, bare>>, upset \subseteq upset',
           issued' \in [Connections -> 0 .. MaxIssued], accepted' \in [Connections -> SUBSET Nat],
           \A d \in Connections : d # c => accepted[d] \subseteq accepted'[d],
           c \notin upset' /\ ~hand[q].stale /\ hand[q].row.refresh \in accepted[c] =>
                row.refresh \in accepted'[c] /\ row.isActive = hand[q].row.isActive
    PROVE  ConnectionsInv'
<1>1. c \in Connections /\ hand[q].found /\ hand[q] \in Hand
  BY DEF ConnectionsInv, ConnectionsTyped, HandSound
<1>2. /\ hand' \in [Runs -> Hand] /\ hand'[q].phase = phase /\ hand'[q].account = c
      /\ hand'[q].row = row /\ hand'[q].decides = hand[q].decides
      /\ hand'[q].stale = hand[q].stale /\ hand'[q].found
      /\ \A p \in Runs : p # q => hand'[p] = hand[p]
  <2> DEFINE next == [hand[q] EXCEPT !.phase = phase, !.row = row]
  <2>1. /\ next \in Hand /\ next.phase = phase /\ next.account = c /\ next.row = row
        /\ next.decides = hand[q].decides /\ next.stale = hand[q].stale
        /\ next.found = hand[q].found
    BY <1>1 DEF Hand, HandPhases, Saving, AfterRefresh
  <2>2. hand' = [hand EXCEPT ![q] = next]
    OBVIOUS
  <2> HIDE DEF next
  <2>3. /\ hand' \in [Runs -> Hand] /\ hand'[q] = next
        /\ \A p \in Runs : p # q => hand'[p] = hand[p]
    BY <2>1, <2>2 DEF ConnectionsInv, ConnectionsTyped
  <2> QED  BY <1>1, <2>1, <2>3
<1>3. ConnectionsTyped'
  BY <1>2 DEF ConnectionsInv, ConnectionsTyped
<1>4. \A p \in Runs : HandSound(hand[p])'
  <2>1. HandSound(hand[q])'
    BY <1>1, <1>2 DEF ConnectionsInv, HandSound, Saving, AfterRefresh
  <2>2. ASSUME NEW p \in Runs, p # q  PROVE HandSound(hand[p])'
    BY <1>2, <2>2 DEF ConnectionsInv, HandSound
  <2> QED  BY <2>1, <2>2
<1>5. ASSUME NEW d \in Connections \ upset'  PROVE AccountSound(d)'
  <2>1. AccountSound(d)
    BY <1>5 DEF ConnectionsInv
  <2>2. \A p \in Runs : p # q => /\ Saves(p, d)' <=> Saves(p, d)
                                 /\ Replaces(p, d)' <=> Replaces(p, d)
    BY <1>2 DEF Saves, Replaces
  <2>3. ~Saves(q, d) /\ ~Replaces(q, d)
    BY DEF Saves, Saving, Replaces
  <2>4. CASE d # c
    <3>1. ~Saves(q, d)'
      BY <1>2, <2>4 DEF Saves
    <3> QED  BY <1>2, <2>1, <2>2, <2>3, <2>4, <3>1, AccountUntouched
  <2>5. CASE d = c
    <3>1. Replaces(q, d)'
      BY <1>2, <2>5 DEF Replaces, Saves, Saving, AfterRefresh
    <3>2. ASSUME ~hand'[q].stale, \A p \in Runs : p # q => ~Replaces(p, d)'
          PROVE  Brings(q, d)'
      <4>1. AsLeft(c)
        BY <2>1, <2>2, <2>3, <2>5, <3>2 DEF AccountSound
      <4>2. /\ hand[q].row = connections[c] /\ connections[c] # NoToken
            /\ hand[q].row.refresh # NoToken
        BY <1>1, <1>2, <3>2 DEF ConnectionsInv, HandSound
      <4>3. /\ hand[q].row.refresh \in accepted[c] /\ hand[q].row.isActive = kept[c]
            /\ c \notin bare
        BY <4>1, <4>2 DEF AsLeft, Refreshes
      <4> QED  BY <1>2, <1>5, <2>5, <3>2, <4>3 DEF Brings, Refreshes, AfterRefresh
    <3>3. ASSUME NEW p \in Runs, Saves(p, d)', ~hand'[p].stale
          PROVE  (\E r \in Runs : r # p /\ Replaces(r, d)') \/ Brings(p, d)'
      BY <3>1, <3>2, <3>3
    <3> QED  BY <3>1, <3>3 DEF AccountSound
  <2> QED  BY <2>4, <2>5
<1> QED  BY <1>3, <1>4, <1>5 DEF ConnectionsInv

LEMMA RefreshAccessTokenInv ==
    ASSUME ConnectionsInv, NEW q \in Runs, NEW given \in BOOLEAN, RefreshAccessToken(q, given)
    PROVE  ConnectionsInv'
<1>1. PICK c : c = hand[q].account
  OBVIOUS
<1>2. PICK old : old = hand[q].row
  OBVIOUS
<1> DEFINE new == issued[c] + 1
           row == [old EXCEPT !.access = new, !.refresh = IF given THEN new ELSE old.refresh]
<1>3. /\ hand[q].phase = "refresh" /\ old.refresh \in accepted[c] /\ Issue(c, given, {old.refresh})
      /\ hand' = [hand EXCEPT ![q].phase = "refreshed", ![q].row = row]
      /\ UNCHANGED <<connections, kept, bare, upset>> /\ ConnectionsTyped
  BY <1>1, <1>2 DEF RefreshAccessToken, Refreshed, ConnectionsInv
<1>4. c \in Connections /\ old \in Connection
  BY <1>1, <1>2, <1>3 DEF ConnectionsInv, HandSound
<1>5. /\ issued' \in [Connections -> 0 .. MaxIssued] /\ new \in Tokens /\ new \in Nat
  BY <1>3, <1>4, ConnectionsAssumption DEF Issue, ConnectionsTyped, Tokens
<1>6. accepted' = IF given THEN [accepted EXCEPT ![c] = (accepted[c] \ {old.refresh}) \cup {new}]
                  ELSE accepted
  BY <1>3 DEF Issue
<1> HIDE DEF new
<1>7. /\ row \in Connection /\ row.isActive = old.isActive
      /\ row.refresh = IF given THEN new ELSE old.refresh
  BY <1>4, <1>5 DEF Connection
<1>8. /\ accepted' \in [Connections -> SUBSET Nat]
      /\ row.refresh \in accepted'[c]
      /\ \A d \in Connections : d # c => accepted[d] \subseteq accepted'[d]
  <2>1. CASE given
    BY <1>3, <1>4, <1>5, <1>6, <1>7, <2>1 DEF ConnectionsTyped
  <2>2. CASE ~given
    BY <1>3, <1>6, <1>7, <2>2 DEF ConnectionsTyped
  <2> QED  BY <2>1, <2>2
<1> HIDE DEF row
<1>10. PICK phase \in AfterRefresh : phase = "refreshed"
  BY DEF AfterRefresh
<1>9. hand' = [hand EXCEPT ![q] = [hand[q] EXCEPT !.phase = phase, !.row = row]]
  BY <1>3, <1>10 DEF ConnectionsTyped, Hand
<1>11. phase \in AfterRefresh
  BY <1>10
<1> QED  BY <1>1, <1>2, <1>3, <1>5, <1>7, <1>8, <1>9, <1>11, RefreshEndsInv, ZenonT(60)

(* Refused, or not reached. *)
LEMMA RefreshFailsInv ==
    ASSUME ConnectionsInv, NEW q \in Runs, NEW reached \in BOOLEAN, RefreshFails(q, reached)
    PROVE  ConnectionsInv'
<1>1. PICK c : c = hand[q].account
  OBVIOUS
<1> DEFINE no == FALSE
           row == [hand[q].row EXCEPT !.isActive = no]
<1>2. /\ hand[q].phase = "refresh" /\ (reached => hand[q].row.refresh \notin accepted[c])
      /\ hand' = [hand EXCEPT ![q].phase = "save", ![q].row.isActive = FALSE]
      /\ upset' = IF reached THEN upset ELSE upset \cup {c}
      /\ UNCHANGED <<connections, issued, accepted, kept, bare>> /\ ConnectionsTyped
  BY <1>1 DEF RefreshFails, ConnectionsInv
<1>3. hand[q].row \in Connection
  BY <1>2 DEF ConnectionsInv, HandSound
<1>10. PICK phase \in AfterRefresh : phase = "save"
  BY DEF AfterRefresh
<1>4. hand' = [hand EXCEPT ![q] = [hand[q] EXCEPT !.phase = phase, !.row = row]]
  BY <1>2, <1>10 DEF ConnectionsTyped, Hand
<1>5. no \in BOOLEAN
  OBVIOUS
<1> HIDE DEF no
<1>6. row \in Connection
  BY <1>3, <1>5 DEF Connection
<1> HIDE DEF row
<1>7. upset \subseteq upset' /\ (c \notin upset' => hand[q].row.refresh \notin accepted[c])
  BY <1>2
<1>8. issued' \in [Connections -> 0 .. MaxIssued] /\ accepted' \in [Connections -> SUBSET Nat]
  BY <1>2 DEF ConnectionsTyped
<1>11. phase \in AfterRefresh
  BY <1>10
<1> QED  BY <1>1, <1>2, <1>4, <1>6, <1>7, <1>8, <1>11, RefreshEndsInv, ZenonT(60)

(* The save after a refresh has failed. *)
LEMMA SaveFailsInv ==
    ASSUME ConnectionsInv, NEW q \in Runs, SaveFails(q)
    PROVE  ConnectionsInv'
<1> DEFINE no == FALSE
           row == [hand[q].row EXCEPT !.isActive = no]
           next == [hand[q] EXCEPT !.phase = "save", !.row = row]
<1>1. /\ hand[q].phase = "refreshed" /\ ConnectionsTyped /\ HandSound(hand[q])
      /\ hand' = [hand EXCEPT ![q].phase = "save", ![q].row.isActive = FALSE]
      /\ upset' = upset \cup {hand[q].account}
      /\ UNCHANGED <<connections, issued, accepted, kept, bare>>
  BY DEF SaveFails, ConnectionsInv
<1>2. hand' = [hand EXCEPT ![q] = next]
  BY <1>1 DEF ConnectionsTyped, Hand
<1>3. no \in BOOLEAN /\ hand[q].row \in Connection /\ hand[q] \in Hand
  BY <1>1 DEF HandSound, ConnectionsTyped
<1> HIDE DEF no
<1>4. row \in Connection
  BY <1>3 DEF Connection
<1> HIDE DEF row
<1>5. /\ next \in Hand /\ next.phase = "save" /\ next.account = hand[q].account
      /\ next.row = row /\ next.found = hand[q].found /\ next.decides = hand[q].decides
      /\ next.stale = hand[q].stale
  BY <1>3, <1>4 DEF Hand, HandPhases, Saving
<1> HIDE DEF next
<1>6. /\ hand' \in [Runs -> Hand] /\ hand'[q] = next
      /\ \A p \in Runs : p # q => hand'[p] = hand[p]
  BY <1>1, <1>2, <1>5 DEF ConnectionsTyped
<1>7. ConnectionsTyped'
  BY <1>1, <1>6 DEF ConnectionsTyped
<1>8. \A p \in Runs : HandSound(hand[p])'
  <2>1. HandSound(hand[q])'
    BY <1>1, <1>4, <1>5, <1>6 DEF HandSound, Saving
  <2>2. ASSUME NEW p \in Runs, p # q  PROVE HandSound(hand[p])'
    BY <1>1, <1>6, <2>2 DEF ConnectionsInv, HandSound
  <2> QED  BY <2>1, <2>2
<1>9. ASSUME NEW d \in Connections \ upset'  PROVE AccountSound(d)'
  <2>1. AccountSound(d) /\ hand[q].account # d
    BY <1>1, <1>9 DEF ConnectionsInv
  <2>2. \A p \in Runs : /\ Saves(p, d)' => p # q /\ Saves(p, d)
                        /\ Replaces(p, d) => Replaces(p, d)'
    BY <1>5, <1>6, <2>1 DEF Saves, Replaces
  <2> QED  BY <1>1, <1>6, <2>1, <2>2, AccountUntouched
<1> QED  BY <1>7, <1>8, <1>9 DEF ConnectionsInv

(* The hands, once q has let go of its own and the accounts cs have changed. *)
LetsGo(q, cs) ==
    hand' = [r \in Runs |-> IF r = q THEN EmptyHand
                ELSE [hand[r] EXCEPT !.stale = hand[r].stale \/ hand[r].account \in cs]]

LEMMA LetsGoMoves ==
    ASSUME ConnectionsTyped, NEW q, NEW cs, LetsGo(q, cs)
    PROVE  /\ hand' \in [Runs -> Hand] /\ (q \in Runs => hand'[q] = EmptyHand)
           /\ \A p \in Runs : p # q =>
                /\ hand'[p].phase = hand[p].phase /\ hand'[p].account = hand[p].account
                /\ hand'[p].row = hand[p].row /\ (hand'[p].found <=> hand[p].found)
                /\ (hand'[p].decides <=> hand[p].decides)
                /\ (hand'[p].stale <=> hand[p].stale \/ hand[p].account \in cs)
<1> DEFINE late(p) == hand[p].stale \/ hand[p].account \in cs
           told(p) == [hand[p] EXCEPT !.stale = late(p)]
<1>1. hand' = [r \in Runs |-> IF r = q THEN EmptyHand ELSE told(r)]
  BY DEF LetsGo
<1>2. ASSUME NEW p \in Runs  PROVE late(p) \in BOOLEAN
  <2>1. hand[p].stale \in BOOLEAN
    BY DEF ConnectionsTyped, Hand
  <2> QED  BY <2>1
<1> HIDE DEF late
<1>3. ASSUME NEW p \in Runs
      PROVE  /\ told(p) \in Hand /\ told(p).phase = hand[p].phase /\ told(p).account = hand[p].account
             /\ told(p).row = hand[p].row /\ told(p).found = hand[p].found
             /\ told(p).decides = hand[p].decides /\ told(p).stale = late(p)
  BY <1>2 DEF ConnectionsTyped, Hand
<1> HIDE DEF told
<1>4. /\ hand' \in [Runs -> Hand] /\ (q \in Runs => hand'[q] = EmptyHand)
      /\ \A p \in Runs : p # q => hand'[p] = told(p)
  BY <1>1, <1>3, EmptyHandIsHand
<1> QED  BY <1>3, <1>4 DEF late

LEMMA SaveConnectionInv ==
    ASSUME ConnectionsInv, NEW q \in Runs, SaveConnection(q)
    PROVE  ConnectionsInv'
<1> DEFINE refused == ~hand[q].found /\ connections[hand[q].account] # NoToken
<1>1. hand[q].phase \in Saving /\ UNCHANGED <<issued, accepted>> /\ ConnectionsTyped
  BY DEF SaveConnection, ConnectionsInv
<1>2. PICK c \in Connections, row \in Connection : c = hand[q].account /\ row = hand[q].row
  BY <1>1 DEF ConnectionsInv, HandSound, Saving
<1> DEFINE cs == IF refused THEN {} ELSE {hand[q].account}
<1>3. LetsGo(q, cs)
  BY DEF SaveConnection, LetsGo
<1>4. \A d : d \in cs <=> d = c /\ ~refused
  BY <1>2
<1> HIDE DEF cs, refused
<1>5. /\ hand' \in [Runs -> Hand] /\ hand'[q] = EmptyHand
      /\ \A p \in Runs : p # q =>
                /\ hand'[p].phase = hand[p].phase /\ hand'[p].account = hand[p].account
                /\ hand'[p].row = hand[p].row /\ (hand'[p].found <=> hand[p].found)
                /\ (hand'[p].decides <=> hand[p].decides)
                /\ (hand'[p].stale <=> hand[p].stale \/ (hand[p].account = c /\ ~refused))
  BY <1>1, <1>3, <1>4, LetsGoMoves
<1> USE DEF refused
<1>6. row # NoToken /\ Saves(q, c)
  BY <1>1, <1>2, NoConnectionAssumption DEF Saves
<1>7. ASSUME refused
      PROVE  UNCHANGED <<connections, kept, bare, upset>> /\ ~hand[q].found /\ connections[c] # NoToken
  BY <1>2, <1>7 DEF SaveConnection
<1>8. ASSUME ~refused
      PROVE  /\ connections' = [connections EXCEPT ![c] = row]
             /\ kept' = IF hand[q].decides THEN [kept EXCEPT ![c] = row.isActive] ELSE kept
             /\ upset' = IF hand[q].stale THEN upset \cup {c} ELSE upset
             /\ hand[q].found \/ connections[c] = NoToken
             /\ bare' = CASE hand[q].phase = "connect" /\ row.refresh = NoToken -> bare \cup {c}
                          [] hand[q].phase = "connect" /\ row.refresh # NoToken -> bare \ {c}
                          [] OTHER -> bare
  BY <1>2, <1>8 DEF SaveConnection
<1>9. /\ connections' \in [Connections -> Connection \cup {NoToken}] /\ upset \subseteq upset'
      /\ kept' \in [Connections -> BOOLEAN \cup {NoToken}]
      /\ \A d \in Connections : d # c => connections'[d] = connections[d] /\ kept'[d] = kept[d]
  <2>1. CASE refused
    BY <1>1, <1>7, <2>1 DEF ConnectionsTyped
  <2>2. CASE ~refused
    <3>1. row.isActive \in BOOLEAN
      BY DEF Connection
    <3>2. /\ connections' \in [Connections -> Connection \cup {NoToken}] /\ upset \subseteq upset'
          /\ \A d \in Connections : d # c => connections'[d] = connections[d]
      BY <1>1, <1>8, <2>2 DEF ConnectionsTyped
    <3>3. /\ kept' \in [Connections -> BOOLEAN \cup {NoToken}]
          /\ \A d \in Connections : d # c => kept'[d] = kept[d]
      <4>1. PICK b \in BOOLEAN : b = row.isActive
        BY <3>1
      <4>2. kept' = [kept EXCEPT ![c] = b] \/ kept' = kept
        BY <1>8, <2>2, <4>1
      <4> QED  BY <1>1, <4>2 DEF ConnectionsTyped
    <3> QED  BY <3>2, <3>3
  <2> QED  BY <2>1, <2>2
<1>10. ASSUME ~refused
       PROVE  /\ connections'[c] = row
              /\ kept'[c] = IF hand[q].decides THEN row.isActive ELSE kept[c]
  BY <1>1, <1>8, <1>10 DEF ConnectionsTyped
<1>16. /\ \A d \in Connections : d # c \/ refused => (d \in bare' <=> d \in bare)
       /\ ~refused => (c \in bare' <=> IF hand[q].phase = "connect" THEN row.refresh = NoToken
                                                                  ELSE c \in bare)
  <2>1. CASE refused
    BY <1>7, <2>1
  <2>2. CASE ~refused
    BY <1>8, <2>2
  <2> QED  BY <2>1, <2>2
<1> HIDE DEF refused
<1>11. ConnectionsTyped'
  BY <1>1, <1>5, <1>9 DEF ConnectionsTyped
<1>12. \A p \in Runs : HandSound(hand[p])'
  <2>1. HandSound(hand[q])'
    BY <1>5, EmptyHandIsHand DEF HandSound, Saving
  <2>2. ASSUME NEW p \in Runs, p # q  PROVE HandSound(hand[p])'
    <3>1. HandSound(hand[p])
      BY DEF ConnectionsInv
    <3>2. hand[p].phase # "idle" /\ ~hand'[p].stale =>
                connections'[hand[p].account] = connections[hand[p].account]
      BY <1>5, <1>7, <1>9, <2>2, <3>1 DEF HandSound
    <3>3. hand'[p].phase # "idle" => hand'[p].account \in Connections /\ hand'[p].row \in Connection
      BY <1>5, <2>2, <3>1 DEF HandSound
    <3>4. /\ hand'[p].phase = "refresh" => hand'[p].found /\ hand'[p].row.refresh # NoToken
          /\ hand'[p].phase \in Saving /\ ~hand'[p].found => hand'[p].decides
          /\ hand'[p].phase = "connect" => hand'[p].decides
      BY <1>5, <2>2, <3>1 DEF HandSound
    <3>5. hand'[p].phase # "idle" /\ ~hand'[p].stale =>
                (hand'[p].found <=> connections'[hand'[p].account] # NoToken)
      BY <1>5, <2>2, <3>1, <3>2 DEF HandSound
    <3>6. hand'[p].phase = "refresh" /\ ~hand'[p].stale => hand'[p].row = connections'[hand'[p].account]
      BY <1>5, <2>2, <3>1, <3>2 DEF HandSound
    <3> QED  BY <3>3, <3>4, <3>5, <3>6 DEF HandSound
  <2> QED  BY <2>1, <2>2
<1>13. \A p \in Runs, d \in Connections : p # q =>
            (Saves(p, d)' <=> Saves(p, d)) /\ (Replaces(p, d)' <=> Replaces(p, d))
  BY <1>5 DEF Saves, Replaces
<1>14. \A d \in Connections : ~Saves(q, d)' /\ ~Replaces(q, d)'
  BY <1>5, EmptyHandIsHand DEF Saves, Saving, Replaces
<1>15. ASSUME NEW d \in Connections \ upset'  PROVE AccountSound(d)'
  <2>1. AccountSound(d)
    BY <1>9, <1>15 DEF ConnectionsInv
  <2>2. CASE d # c
    <3>1. ~Replaces(q, d)
      BY <1>2, <2>2 DEF Replaces, Saves
    <3> QED  BY <1>1, <1>5, <1>9, <1>13, <1>14, <1>16, <2>1, <2>2, <3>1, AccountUntouched
  <2>3. CASE d = c /\ refused
    <3>1. ~Replaces(q, d) /\ connections'[d] = connections[d] /\ kept'[d] = kept[d]
      BY <1>7, <2>3 DEF Replaces
    <3> QED  BY <1>1, <1>5, <1>13, <1>14, <1>16, <2>1, <2>3, <3>1, AccountUntouched
  <2>4. CASE d = c /\ ~refused
    <3>1. ~hand[q].stale
      BY <1>8, <1>15, <2>4
    <3>2. (\E p \in Runs : Replaces(p, d)') \/ Brings(q, d)
      BY <1>6, <1>13, <2>1, <2>4, <3>1 DEF AccountSound
    <3>3. ASSUME Brings(q, d)  PROVE AsLeft(d)'
      <4>1. Refreshes(d, row.refresh)' /\ (hand[q].decides \/ row.isActive = kept[d])
        BY <1>1, <1>2, <1>16, <2>4, <3>3 DEF Brings, Refreshes
      <4>2. connections'[d] = row /\ kept'[d] = row.isActive
        BY <1>10, <2>4, <4>1
      <4> QED  BY <1>6, <4>1, <4>2 DEF AsLeft, Refreshes
    <3>4. \A p \in Runs : Saves(p, d)' => hand'[p].stale
      BY <1>5, <1>13, <1>14, <2>4 DEF Saves
    <3> QED  BY <3>2, <3>3, <3>4 DEF AccountSound
  <2> QED  BY <2>2, <2>3, <2>4
<1> QED  BY <1>11, <1>12, <1>15 DEF ConnectionsInv

LEMMA DisconnectInv ==
    ASSUME ConnectionsInv, NEW c \in Connections, Disconnect(c)
    PROVE  ConnectionsInv'
<1>1. /\ connections' = [connections EXCEPT ![c] = NoToken] /\ kept' = [kept EXCEPT ![c] = NoToken]
      /\ UNCHANGED <<issued, accepted, bare, upset>> /\ ConnectionsTyped
  BY DEF Disconnect, ConnectionsInv
<1>2. PICK nobody : nobody \notin Runs
  <2>1. PICK nobody : nobody = {x \in Runs : x \notin x}
    OBVIOUS
  <2> QED  BY <2>1
<1>3. LetsGo(nobody, {c})
  <2>1. hand' = [r \in Runs |-> [hand[r] EXCEPT !.stale = hand[r].stale \/ hand[r].account = c]]
    BY DEF Disconnect
  <2>2. \A r \in Runs : r # nobody
    BY <1>2
  <2> QED  BY <2>1, <2>2 DEF LetsGo
<1>5. /\ hand' \in [Runs -> Hand]
      /\ \A p \in Runs :
                /\ hand'[p].phase = hand[p].phase /\ hand'[p].account = hand[p].account
                /\ hand'[p].row = hand[p].row /\ (hand'[p].found <=> hand[p].found)
                /\ (hand'[p].decides <=> hand[p].decides)
                /\ (hand'[p].stale <=> hand[p].stale \/ hand[p].account = c)
  BY <1>1, <1>2, <1>3, LetsGoMoves
<1>6. /\ connections' \in [Connections -> Connection \cup {NoToken}]
      /\ kept' \in [Connections -> BOOLEAN \cup {NoToken}]
      /\ connections'[c] = NoToken /\ kept'[c] = NoToken
      /\ \A d \in Connections : d # c => connections'[d] = connections[d] /\ kept'[d] = kept[d]
  BY <1>1 DEF ConnectionsTyped
<1>7. ConnectionsTyped'
  BY <1>1, <1>5, <1>6 DEF ConnectionsTyped
<1>8. ASSUME NEW p \in Runs  PROVE HandSound(hand[p])'
  <2>1. HandSound(hand[p])
    BY DEF ConnectionsInv
  <2>2. hand[p].phase # "idle" /\ ~hand'[p].stale =>
                connections'[hand[p].account] = connections[hand[p].account]
    BY <1>5, <1>6, <2>1 DEF HandSound
  <2>3. hand'[p].phase # "idle" => hand'[p].account \in Connections /\ hand'[p].row \in Connection
    BY <1>5, <2>1 DEF HandSound
  <2>4. /\ hand'[p].phase = "refresh" => hand'[p].found /\ hand'[p].row.refresh # NoToken
        /\ hand'[p].phase \in Saving /\ ~hand'[p].found => hand'[p].decides
        /\ hand'[p].phase = "connect" => hand'[p].decides
    BY <1>5, <2>1 DEF HandSound
  <2>5. hand'[p].phase # "idle" /\ ~hand'[p].stale =>
                (hand'[p].found <=> connections'[hand'[p].account] # NoToken)
    BY <1>5, <2>1, <2>2 DEF HandSound
  <2>6. hand'[p].phase = "refresh" /\ ~hand'[p].stale => hand'[p].row = connections'[hand'[p].account]
    BY <1>5, <2>1, <2>2 DEF HandSound
  <2> QED  BY <2>3, <2>4, <2>5, <2>6 DEF HandSound
<1>9. \A p \in Runs, d \in Connections :
            (Saves(p, d)' <=> Saves(p, d)) /\ (Replaces(p, d)' <=> Replaces(p, d))
  BY <1>5 DEF Saves, Replaces
<1>10. ASSUME NEW d \in Connections \ upset'  PROVE AccountSound(d)'
  <2>1. AccountSound(d)
    BY <1>1, <1>10 DEF ConnectionsInv
  <2>2. CASE d # c
    BY <1>1, <1>5, <1>6, <1>9, <2>1, <2>2, AccountUntouched
  <2>3. CASE d = c
    <3>1. AsLeft(d)'
      BY <1>6, <2>3 DEF AsLeft
    <3>2. \A p \in Runs : Saves(p, d)' => hand'[p].stale
      BY <1>5, <1>9, <2>3 DEF Saves
    <3> QED  BY <3>1, <3>2 DEF AccountSound
  <2> QED  BY <2>2, <2>3
<1> QED  BY <1>7, <1>8, <1>10 DEF ConnectionsInv

LEMMA RunDiesInv ==
    ASSUME ConnectionsInv, NEW q \in Runs, RunDies(q)
    PROVE  ConnectionsInv'
<1>1. /\ hand' = [hand EXCEPT ![q] = EmptyHand] /\ upset' = upset \cup {hand[q].account}
      /\ UNCHANGED <<connections, issued, accepted, kept, bare>> /\ ConnectionsTyped
  BY DEF RunDies, ConnectionsInv
<1>2. /\ hand' \in [Runs -> Hand] /\ hand'[q].phase = "idle"
      /\ \A p \in Runs : p # q => hand'[p] = hand[p]
  BY <1>1, EmptyHandIsHand DEF ConnectionsTyped
<1>3. ConnectionsTyped'
  BY <1>1, <1>2 DEF ConnectionsTyped
<1>4. \A p \in Runs : HandSound(hand[p])'
  <2>1. HandSound(hand[q])'
    BY <1>2 DEF HandSound, Saving
  <2>2. ASSUME NEW p \in Runs, p # q  PROVE HandSound(hand[p])'
    BY <1>1, <1>2, <2>2 DEF ConnectionsInv, HandSound
  <2> QED  BY <2>1, <2>2
<1>5. ASSUME NEW d \in Connections \ upset'  PROVE AccountSound(d)'
  <2>1. AccountSound(d) /\ ~Saves(q, d) /\ ~Replaces(q, d)
    BY <1>1, <1>5 DEF ConnectionsInv, Saves, Replaces
  <2>2. \A p \in Runs : /\ Saves(p, d)' => p # q /\ Saves(p, d)
                        /\ Replaces(p, d) => Replaces(p, d)'
    BY <1>2, <2>1 DEF Saves, Saving, Replaces
  <2> QED  BY <1>1, <1>2, <2>1, <2>2, AccountUntouched
<1> QED  BY <1>3, <1>4, <1>5 DEF ConnectionsInv

LEMMA NextConnectionsInv ==
    ConnectionsInv /\ [ConnectionsNext]_connectionVars => ConnectionsInv'
<1> SUFFICES ASSUME ConnectionsInv, [ConnectionsNext]_connectionVars PROVE ConnectionsInv'
    OBVIOUS
<1>1. accepted \in [Connections -> SUBSET Nat]
  BY DEF ConnectionsInv, ConnectionsTyped
<1>2. CASE UNCHANGED connectionVars
  BY <1>1, <1>2, NothingHeldInv DEF connectionVars
<1>3. ASSUME NEW c \in Connections,
             StartMetaConnect(c) \/ ForgetHandshake(c) \/ ExpireAccess(c)
      PROVE  ConnectionsInv'
  BY <1>1, <1>3, NothingHeldInv DEF StartMetaConnect, ForgetHandshake, ExpireAccess
<1>4. ASSUME NEW c \in Connections, Revoke(c)  PROVE ConnectionsInv'
  <2>1. /\ accepted' = [accepted EXCEPT ![c] = {}] /\ upset' = upset \cup {c}
        /\ UNCHANGED <<connections, hand, kept, bare>> /\ issued' = issued
    BY <1>4 DEF Revoke
  <2>2. /\ accepted' \in [Connections -> SUBSET Nat]
        /\ \A d \in Connections \ upset' : accepted[d] \subseteq accepted'[d]
    BY <1>1, <2>1
  <2> QED  BY <2>1, <2>2, NothingHeldInv
<1>5. CASE \E c \in Connections :
        \/ Disconnect(c)
        \/ \E q \in Runs : NeedToken(q, c) \/ \E given \in BOOLEAN : CompleteMetaConnect(q, c, given)
  BY <1>5, DisconnectInv, CompleteMetaConnectInv, NeedTokenInv
<1>6. CASE \E c \in Connections, q \in Runs, active \in BOOLEAN : UpdateConnection(q, c, active)
  BY <1>6, UpdateConnectionInv
<1>7. CASE \E q \in Runs :
        \/ \E given \in BOOLEAN : RefreshAccessToken(q, given)
        \/ \E reached \in BOOLEAN : RefreshFails(q, reached)
        \/ SaveFails(q) \/ SaveConnection(q) \/ RunDies(q)
  BY <1>7, RefreshAccessTokenInv, RefreshFailsInv, SaveFailsInv, SaveConnectionInv, RunDiesInv
<1> QED  BY <1>2, <1>3, <1>4, <1>5, <1>6, <1>7 DEF ConnectionsNext

(* The table of connections, the requests that work on it and what Meta
   accepts stay related as ConnectionsInv says. *)
THEOREM ConnectionsInvariant == ConnectionsSpec => []ConnectionsInv
<1>1. ConnectionsInit => ConnectionsInv
  BY InitConnectionsInv
<1>2. ConnectionsInv /\ [ConnectionsNext]_connectionVars => ConnectionsInv'
  BY NextConnectionsInv
<1> QED  BY <1>1, <1>2, PTL DEF ConnectionsSpec

LEMMA ConnectionIsUsable == ConnectionsInv => ConnectionSurvives
BY DEF ConnectionsInv, AccountSound, ConnectionSurvives, Replaces, Saves, AsLeft, Refreshes

(* A connection left active stays active, with a refresh token Meta accepts,
   through any number of refreshes (ensureFreshMetaToken), and one that was
   disconnected stays so, unless saves overlapped, a refresh went wrong, its
   saving included, or the grant was withdrawn; a connect that Meta answered
   without a refresh token leaves none (completeMetaConnect). *)
THEOREM ConnectionsSurvive == ConnectionsSpec => []ConnectionSurvives
BY ConnectionsInvariant, ConnectionIsUsable, PTL

(* What the tokens, handshakes and ghosts of Meta connections range over. *)
ConnectionsBounds ==
    /\ handshakes \subseteq Connections
    /\ bare \subseteq Connections
    /\ upset \subseteq Connections
    /\ expired \in [Connections -> Nat]
    /\ \A c \in Connections : expired[c] <= issued[c] /\ accepted[c] \subseteq 1 .. issued[c]

LEMMA IssueBounds ==
    ASSUME ConnectionsInv, ConnectionsBounds, NEW c \in Connections, NEW given \in BOOLEAN, NEW old,
           Issue(c, given, old), UNCHANGED expired
    PROVE  \A d \in Connections : expired'[d] <= issued'[d] /\ accepted'[d] \subseteq 1 .. issued'[d]
<1>1. /\ issued \in [Connections -> 0 .. MaxIssued] /\ issued' = [issued EXCEPT ![c] = issued[c] + 1]
      /\ accepted \in [Connections -> SUBSET Nat] /\ MaxIssued \in Nat
  BY ConnectionsAssumption DEF ConnectionsInv, ConnectionsTyped, Issue
<1>2. \A d \in Connections : accepted'[d] \subseteq accepted[d] \cup (IF d = c THEN {issued[c] + 1} ELSE {})
  BY <1>1 DEF Issue
<1>3. \A d \in Connections : /\ issued[d] \in Nat /\ issued'[d] \in Nat
                             /\ issued'[d] = issued[d] + (IF d = c THEN 1 ELSE 0)
  BY <1>1
<1>4. ASSUME NEW d \in Connections
      PROVE  expired'[d] <= issued'[d] /\ accepted'[d] \subseteq 1 .. issued'[d]
  <2>1. /\ expired[d] \in Nat /\ expired[d] <= issued[d] /\ accepted[d] \subseteq 1 .. issued[d]
        /\ expired'[d] = expired[d]
    BY DEF ConnectionsBounds
  <2>2. CASE d = c
    BY <1>2, <1>3, <2>1, <2>2
  <2>3. CASE d # c
    BY <1>2, <1>3, <2>1, <2>3
  <2> QED  BY <2>2, <2>3
<1> QED  BY <1>4

LEMMA ConnectionsBoundsStep ==
    ConnectionsInv /\ ConnectionsBounds /\ [ConnectionsNext]_connectionVars => ConnectionsBounds'
<1> SUFFICES ASSUME ConnectionsInv, ConnectionsBounds, [ConnectionsNext]_connectionVars
             PROVE  ConnectionsBounds'
  OBVIOUS
<1>0. /\ issued \in [Connections -> 0 .. MaxIssued] /\ accepted \in [Connections -> SUBSET Nat]
      /\ \A q \in Runs : hand[q].phase # "idle" => hand[q].account \in Connections
      /\ \A c \in Connections : issued[c] \in Nat
  BY ConnectionsAssumption DEF ConnectionsInv, ConnectionsTyped, HandSound
<1>1. CASE UNCHANGED connectionVars
  BY <1>1 DEF connectionVars, ConnectionsBounds
<1>2. ASSUME NEW c \in Connections, StartMetaConnect(c) \/ ForgetHandshake(c) \/ Disconnect(c)
      PROVE  ConnectionsBounds'
  BY <1>2 DEF StartMetaConnect, ForgetHandshake, Disconnect, ConnectionsBounds
<1>3. ASSUME NEW c \in Connections, ExpireAccess(c)  PROVE ConnectionsBounds'
  BY <1>0, <1>3 DEF ExpireAccess, ConnectionsBounds
<1>4. ASSUME NEW c \in Connections, Revoke(c)  PROVE ConnectionsBounds'
  BY <1>0, <1>4 DEF Revoke, ConnectionsBounds
<1>5. ASSUME NEW c \in Connections, NEW q \in Runs, NEW given \in BOOLEAN,
             CompleteMetaConnect(q, c, given)
      PROVE  ConnectionsBounds'
  <2>1. Issue(c, given, {}) /\ UNCHANGED <<expired, bare, upset>> /\ handshakes' \subseteq handshakes
    BY <1>5 DEF CompleteMetaConnect
  <2>2. \A d \in Connections : expired'[d] <= issued'[d] /\ accepted'[d] \subseteq 1 .. issued'[d]
    BY <2>1, IssueBounds
  <2> QED  BY <2>1, <2>2 DEF ConnectionsBounds
<1>6. ASSUME NEW c \in Connections, NEW q \in Runs,
             NeedToken(q, c) \/ \E active \in BOOLEAN : UpdateConnection(q, c, active)
      PROVE  ConnectionsBounds'
  BY <1>6 DEF NeedToken, UpdateConnection, ConnectionsBounds
<1>7. ASSUME NEW q \in Runs, NEW given \in BOOLEAN, RefreshAccessToken(q, given)
      PROVE  ConnectionsBounds'
  <2> DEFINE c == hand[q].account
             old == {hand[q].row.refresh}
  <2>1. c \in Connections /\ Issue(c, given, old) /\ UNCHANGED <<handshakes, expired, bare, upset>>
    BY <1>0, <1>7 DEF RefreshAccessToken
  <2> HIDE DEF c, old
  <2>2. \A d \in Connections : expired'[d] <= issued'[d] /\ accepted'[d] \subseteq 1 .. issued'[d]
    BY <2>1, IssueBounds
  <2> QED  BY <2>1, <2>2 DEF ConnectionsBounds
<1>8. ASSUME NEW q \in Runs,
             \/ \E reached \in BOOLEAN : RefreshFails(q, reached)
             \/ SaveFails(q) \/ SaveConnection(q) \/ RunDies(q)
      PROVE  ConnectionsBounds'
  <2>1. hand[q].account \in Connections /\ UNCHANGED <<handshakes, issued, expired, accepted>>
    BY <1>0, <1>8 DEF RefreshFails, SaveFails, SaveConnection, Saving, RunDies
  <2>2. /\ upset' \subseteq upset \cup {hand[q].account}
        /\ bare' \subseteq bare \cup {hand[q].account}
    <3>1. CASE \E reached \in BOOLEAN : RefreshFails(q, reached)
      BY <3>1 DEF RefreshFails
    <3>2. CASE SaveConnection(q)
      BY <3>2 DEF SaveConnection
    <3>3. CASE SaveFails(q) \/ RunDies(q)
      BY <3>3 DEF SaveFails, RunDies
    <3> QED  BY <1>8, <3>1, <3>2, <3>3
  <2> QED  BY <2>1, <2>2 DEF ConnectionsBounds
<1> QED  BY <1>1, <1>2, <1>3, <1>4, <1>5, <1>6, <1>7, <1>8 DEF ConnectionsNext

LEMMA InitConnectionsBounds == ConnectionsInit => ConnectionsBounds
BY DEF ConnectionsInit, ConnectionsBounds

LEMMA ConnectionsTypes == ConnectionsInv /\ ConnectionsBounds => ConnectionsTypeOK
<1> SUFFICES ASSUME ConnectionsInv, ConnectionsBounds  PROVE ConnectionsTypeOK
  OBVIOUS
<1>1. \A c \in Connections : expired[c] \in 0 .. issued[c]
  BY ConnectionsAssumption DEF ConnectionsInv, ConnectionsTyped, ConnectionsBounds
<1> QED  BY <1>1 DEF ConnectionsTypeOK, ConnectionsInv, ConnectionsTyped, ConnectionsBounds, Hand

-----------------------------------------------------------------------------
(* Conversation.  A message that was accepted once is in one pair of hands:   *)
(* what its handler has yet to record or to post nobody has (OneTurn).        *)

Speakers == {"user", "assistant"}
Handling == [step : Steps, message : Messages \cup {Nothing}, instance : Instances \cup {Nothing},
             todo : SUBSET Threads, history : Seq(Turn), card : BOOLEAN]

ConversationTyped ==
    /\ sent \in [Messages -> Threads \cup {Nothing}]
    /\ deliveries \in [Messages -> Nat]
    /\ handler \in [Handlers -> Handling]
    /\ turns \in [Threads -> Seq(Turn)]
    /\ posted \in [Messages -> Nat] /\ apologies \in [Messages -> Nat]

IsTurn(t, m, role) == t.message = m /\ t.role = role
NotTold(s, m, role) == \A n \in 1 .. Len(s) : ~IsTurn(s[n], m, role)
ToldOnce(s, m, role) ==
    \A n, j \in 1 .. Len(s) : IsTurn(s[n], m, role) /\ IsTurn(s[j], m, role) => n = j

(* A handler works on a message that was sent and delivered. *)
Handles(h) ==
    /\ handler[h].step = "idle" => handler[h].message = Nothing
    /\ handler[h].step # "idle" =>
        /\ handler[h].message \in Messages
        /\ sent[handler[h].message] # Nothing /\ deliveries[handler[h].message] > 0
    /\ handler[h].step \in {"ask", "tell"} => handler[h].todo \subseteq ThreadsOf(handler[h].message)

(* What the handler of m has yet to do. *)
StillToDo(w, m) ==
    /\ w.step \notin {"stamp", "sorry", "clear"} => posted[m] = 0
    /\ w.step # "clear" => apologies[m] = 0
    /\ w.step = "sorry" => posted[m] = 0 \/ m \in unstamped
    /\ w.step = "read" => \A k \in Threads, role \in Speakers : NotTold(turns[k], m, role)
    /\ w.step \in {"ask", "think"} => \A k \in Threads : NotTold(turns[k], m, "assistant")
    /\ w.step = "ask" => \A k \in w.todo : NotTold(turns[k], m, "user")
    /\ w.step = "tell" => \A k \in w.todo : NotTold(turns[k], m, "assistant")
    /\ \A n \in 1 .. Len(w.history) : w.history[n].message # m

(* Answered once, or given one apology; both only about an unstamped card. *)
Answered(m) ==
    /\ posted[m] <= 1 /\ apologies[m] <= 1
    /\ posted[m] = 0 \/ apologies[m] = 0 \/ m \in unstamped

OneTurn(m) ==
    /\ deliveries[m] = 0 => /\ posted[m] = 0 /\ apologies[m] = 0 /\ m \notin reacting
                            /\ \A k \in Threads, role \in Speakers : NotTold(turns[k], m, role)
    /\ Answered(m)
    /\ \A k \in Threads, role \in Speakers :
        /\ ToldOnce(turns[k], m, role)
        /\ sent[m] = Nothing \/ k \notin ThreadsOf(m) => NotTold(turns[k], m, role)
    /\ \A h, g \in Handlers : handler[h].message = m /\ handler[g].message = m => h = g
    /\ \A h \in Handlers : handler[h].message = m => StillToDo(handler[h], m)
    /\ m \in reacting => \E h \in Handlers : handler[h].message = m

ConversationInv ==
    /\ ConversationTyped
    /\ \A h \in Handlers : Handles(h)
    /\ \A m \in Messages \ forgotten : OneTurn(m)

LEMMA FreeIsHandling ==
    Free \in Handling /\ Free.step = "idle" /\ Free.message = Nothing /\ Free.history = << >>
BY DEF Free, Handling, Steps

(* A thread with one more turn. *)
LEMMA OneMoreTurn ==
    ASSUME NEW s \in Seq(Turn), NEW t \in Turn, NEW m, NEW role
    PROVE  /\ Append(s, t) \in Seq(Turn)
           /\ ~IsTurn(t, m, role) => /\ NotTold(s, m, role) => NotTold(Append(s, t), m, role)
                                     /\ ToldOnce(s, m, role) => ToldOnce(Append(s, t), m, role)
           /\ NotTold(s, m, role) => ToldOnce(Append(s, t), m, role)
<1>1. /\ Append(s, t) \in Seq(Turn) /\ Len(Append(s, t)) = Len(s) + 1 /\ Len(s) \in Nat
      /\ Append(s, t)[Len(s) + 1] = t
      /\ \A n \in 1 .. Len(s) : Append(s, t)[n] = s[n]
  OBVIOUS
<1>2. \A n \in 1 .. Len(Append(s, t)) : n \in 1 .. Len(s) \/ n = Len(s) + 1
  BY <1>1
<1>3. ASSUME ~IsTurn(t, m, role), NotTold(s, m, role)  PROVE NotTold(Append(s, t), m, role)
  BY <1>1, <1>2, <1>3 DEF NotTold
<1>4. ASSUME ~IsTurn(t, m, role), ToldOnce(s, m, role)  PROVE ToldOnce(Append(s, t), m, role)
  <2>1. \A n \in 1 .. Len(Append(s, t)) : IsTurn(Append(s, t)[n], m, role) =>
            n \in 1 .. Len(s) /\ IsTurn(s[n], m, role)
    BY <1>1, <1>2, <1>4
  <2> QED  BY <1>4, <2>1 DEF ToldOnce
<1>5. ASSUME NotTold(s, m, role)  PROVE ToldOnce(Append(s, t), m, role)
  <2>1. \A n \in 1 .. Len(Append(s, t)) : IsTurn(Append(s, t)[n], m, role) => n = Len(s) + 1
    BY <1>1, <1>2, <1>5 DEF NotTold
  <2> QED  BY <2>1 DEF ToldOnce
<1> QED  BY <1>1, <1>3, <1>4, <1>5

(* What getThread returns was recorded. *)
LEMMA LastTurnsAreTurns ==
    ASSUME NEW s \in Seq(Turn)
    PROVE  /\ LastTurns(s) \in Seq(Turn)
           /\ \A n \in 1 .. Len(LastTurns(s)) : \E j \in 1 .. Len(s) : LastTurns(s)[n] = s[j]
<1> DEFINE first == IF Len(s) > HistoryLimit THEN Len(s) - HistoryLimit + 1 ELSE 1
<1>1. Len(s) \in Nat /\ HistoryLimit \in Nat
  BY ConversationAssumption
<1>2. first \in 1 .. Len(s) + 1
  BY <1>1
<1>3. Len(s) \in first - 1 .. Len(s)
  BY <1>1, <1>2
<1> HIDE DEF first
<1>4. /\ SubSeq(s, first, Len(s)) \in Seq(Turn)
      /\ Len(SubSeq(s, first, Len(s))) = Len(s) - first + 1
      /\ \A n \in 1 .. Len(s) - first + 1 : SubSeq(s, first, Len(s))[n] = s[first + n - 1]
  BY <1>1, <1>2, <1>3, SubSeqProperties
<1>5. \A n \in 1 .. Len(s) - first + 1 : first + n - 1 \in 1 .. Len(s)
  BY <1>1, <1>2
<1>6. LastTurns(s) = SubSeq(s, first, Len(s))
  BY DEF LastTurns, first
<1> QED  BY <1>4, <1>5, <1>6

LEMMA ThreadsOfAMessage ==
    ASSUME ConversationInv, NEW m \in Messages, sent[m] # Nothing
    PROVE  ThreadsOf(m) \subseteq Threads /\ MemoryThread(m) \in ThreadsOf(m)
           /\ \A k \in ThreadsOf(m) : k = MemoryThread(m) \/ k = m
BY DEF ConversationInv, ConversationTyped, ThreadsOf, MemoryThread, BranchThreads, Threads

(* Nothing happens to a message and to who handles it. *)
LEMMA OneTurnUntouched ==
    ASSUME NEW m \in Messages, OneTurn(m), sent'[m] = sent[m], deliveries'[m] = deliveries[m],
           posted'[m] = posted[m], apologies'[m] = apologies[m],
           m \in unstamped' <=> m \in unstamped, m \in reacting' <=> m \in reacting,
           \A k \in Threads, role \in Speakers :
                /\ NotTold(turns[k], m, role) => NotTold(turns'[k], m, role)
                /\ ToldOnce(turns[k], m, role) => ToldOnce(turns'[k], m, role),
           \A g \in Handlers : handler[g].message = m \/ handler'[g].message = m =>
                handler'[g] = handler[g] /\ handler[g].todo \subseteq Threads
    PROVE  OneTurn(m)'
<1>1. ThreadsOf(m)' = ThreadsOf(m)
  BY DEF ThreadsOf, MemoryThread, BranchThreads
<1>2. ASSUME NEW g \in Handlers, handler'[g].message = m  PROVE StillToDo(handler[g], m)'
  <2>1. PICK w : w = handler[g]
    OBVIOUS
  <2>2. handler'[g] = w /\ StillToDo(w, m) /\ w.todo \subseteq Threads
    BY <1>2, <2>1 DEF OneTurn
  <2> QED  BY <2>2 DEF StillToDo, Speakers
<1>3. deliveries'[m] = 0 => /\ posted'[m] = 0 /\ apologies'[m] = 0 /\ m \notin reacting'
                            /\ \A k \in Threads, role \in Speakers : NotTold(turns'[k], m, role)
  BY DEF OneTurn
<1>4. /\ Answered(m)'
      /\ \A k \in Threads, role \in Speakers :
            /\ ToldOnce(turns'[k], m, role)
            /\ sent'[m] = Nothing \/ k \notin ThreadsOf(m)' => NotTold(turns'[k], m, role)
  BY <1>1 DEF OneTurn, Answered
<1>5. /\ \A h, g \in Handlers : handler'[h].message = m /\ handler'[g].message = m => h = g
      /\ m \in reacting' => \E h \in Handlers : handler'[h].message = m
  BY DEF OneTurn
<1> QED  BY <1>2, <1>3, <1>4, <1>5 DEF OneTurn

(* A handler goes on with its message; the other messages see nothing of it. *)
LEMMA HandlerGoesOn ==
    ASSUME ConversationInv, NEW h \in Handlers, NEW m, m = handler[h].message,
           NEW next \in Handling, Becomes(h, next), Quiet, UNCHANGED reacting,
           handler[h].step # "idle", next.step # "idle", next.message = m,
           next.step \in {"ask", "tell"} => next.todo \subseteq ThreadsOf(m),
           turns' \in [Threads -> Seq(Turn)], posted' \in [Messages -> Nat],
           apologies' \in [Messages -> Nat],
           \A o \in Messages : o # m =>
                /\ posted'[o] = posted[o] /\ apologies'[o] = apologies[o]
                /\ o \in unstamped' <=> o \in unstamped
                /\ \A k \in Threads, role \in Speakers :
                    /\ NotTold(turns[k], o, role) => NotTold(turns'[k], o, role)
                    /\ ToldOnce(turns[k], o, role) => ToldOnce(turns'[k], o, role),
           m \notin forgotten =>
                /\ Answered(m)' /\ StillToDo(next, m)'
                /\ \A k \in Threads, role \in Speakers :
                    /\ ToldOnce(turns'[k], m, role)
                    /\ k \notin ThreadsOf(m) => NotTold(turns'[k], m, role)
    PROVE  ConversationInv'
<1>1. /\ handler \in [Handlers -> Handling] /\ m \in Messages /\ sent[m] # Nothing
      /\ deliveries[m] > 0 /\ deliveries[m] \in Nat
  BY DEF ConversationInv, ConversationTyped, Handles
<1>2. /\ handler' \in [Handlers -> Handling] /\ handler'[h] = next
      /\ \A g \in Handlers : g # h => handler'[g] = handler[g]
  BY <1>1 DEF Becomes
<1>3. UNCHANGED <<sent, deliveries, forgotten, reacting>>
  BY DEF Quiet
<1>4. \A o \in Messages : ThreadsOf(o)' = ThreadsOf(o)
  BY <1>3 DEF ThreadsOf, MemoryThread, BranchThreads
<1>5. ConversationTyped'
  BY <1>2, <1>3 DEF ConversationInv, ConversationTyped
<1>6. \A g \in Handlers : Handles(g)'
  <2>1. Handles(h)'
    BY <1>1, <1>2, <1>3, <1>4 DEF Handles
  <2>2. ASSUME NEW g \in Handlers, g # h  PROVE Handles(g)'
    <3>1. Handles(g) /\ handler'[g] = handler[g]
      BY <1>2, <2>2 DEF ConversationInv
    <3> QED  BY <1>3, <1>4, <3>1 DEF Handles
  <2> QED  BY <2>1, <2>2
<1>7. ASSUME NEW o \in Messages \ forgotten'  PROVE OneTurn(o)'
  <2>1. OneTurn(o)
    BY <1>3, <1>7 DEF ConversationInv
  <2>2. CASE o # m
    <3>1. \A g \in Handlers : handler[g].message = o \/ handler'[g].message = o =>
                handler'[g] = handler[g] /\ handler[g].todo \subseteq Threads
      BY <1>1, <1>2, <2>2 DEF Handling
    <3> QED  BY <1>3, <2>1, <2>2, <3>1, OneTurnUntouched
  <2>3. CASE o = m
    <3>1. \A g \in Handlers : handler'[g].message = m <=> g = h
      BY <1>2, <2>1, <2>3 DEF OneTurn
    <3>2. ASSUME NEW g \in Handlers, handler'[g].message = o  PROVE StillToDo(handler[g], o)'
      <4>1. handler'[g] = next /\ StillToDo(next, m)'
        BY <1>2, <1>3, <1>7, <2>3, <3>1, <3>2
      <4> QED  BY <2>3, <4>1 DEF StillToDo
    <3> QED  BY <1>1, <1>3, <1>4, <1>7, <2>3, <3>1, <3>2 DEF OneTurn
  <2> QED  BY <2>2, <2>3
<1> QED  BY <1>5, <1>6, <1>7 DEF ConversationInv

LEMMA InitConversationInv == ConversationInit => ConversationInv
<1> SUFFICES ASSUME ConversationInit PROVE ConversationInv
    OBVIOUS
<1>1. \A h \in Handlers : handler[h] = Free
  BY DEF ConversationInit
<1>2. << >> \in Seq(Turn) /\ Len(<< >>) = 0
  OBVIOUS
<1>3. ConversationTyped
  BY <1>2, FreeIsHandling DEF ConversationInit, ConversationTyped
<1>4. \A h \in Handlers : Handles(h)
  BY <1>1, FreeIsHandling DEF Handles
<1>5. ASSUME NEW m \in Messages  PROVE OneTurn(m)
  <2>1. \A k \in Threads, role \in Speakers : NotTold(turns[k], m, role) /\ ToldOnce(turns[k], m, role)
    BY <1>2 DEF ConversationInit, NotTold, ToldOnce
  <2>2. \A h \in Handlers : handler[h].message # m
    BY <1>1, FreeIsHandling, ConversationAssumption
  <2>3. posted[m] = 0 /\ apologies[m] = 0 /\ m \notin reacting /\ Answered(m)
    BY DEF ConversationInit, Answered
  <2> QED  BY <2>1, <2>2, <2>3 DEF OneTurn
<1> QED  BY <1>3, <1>4, <1>5 DEF ConversationInv

LEMMA SendInv ==
    ASSUME ConversationInv, NEW m \in Messages, NEW thread \in Threads, Send(m, thread)
    PROVE  ConversationInv'
<1>1. /\ sent' = [sent EXCEPT ![m] = thread] /\ sent[m] = Nothing
      /\ UNCHANGED <<deliveries, handler, turns, posted, apologies, unstamped, reacting, forgotten>>
      /\ ConversationTyped
  BY DEF Send, ConversationInv
<1>2. /\ sent' \in [Messages -> Threads \cup {Nothing}]
      /\ \A o \in Messages : o # m => sent'[o] = sent[o] /\ ThreadsOf(o)' = ThreadsOf(o)
  BY <1>1 DEF ConversationTyped, ThreadsOf, MemoryThread, BranchThreads
<1>3. ConversationTyped'
  BY <1>1, <1>2 DEF ConversationTyped
<1>4. \A h \in Handlers : handler[h].message # m
  BY <1>1, ConversationAssumption DEF ConversationInv, Handles
<1>5. ASSUME NEW h \in Handlers  PROVE Handles(h)'
  <2>1. Handles(h) /\ handler'[h] = handler[h]
    BY <1>1 DEF ConversationInv
  <2> QED  BY <1>1, <1>2, <1>4, <2>1 DEF Handles
<1>6. ASSUME NEW o \in Messages \ forgotten'  PROVE OneTurn(o)'
  <2>1. OneTurn(o)
    BY <1>1, <1>6 DEF ConversationInv
  <2>2. CASE o # m
    <3>1. \A g \in Handlers : handler'[g] = handler[g] /\ handler[g].todo \subseteq Threads
      BY <1>1 DEF ConversationTyped, Handling
    <3> QED  BY <1>1, <1>2, <2>1, <2>2, <3>1, OneTurnUntouched
  <2>3. CASE o = m
    <3>1. \A k \in Threads, role \in Speakers : NotTold(turns[k], o, role)
      BY <1>1, <2>1, <2>3 DEF OneTurn
    <3>2. Answered(o)'
      BY <1>1, <2>1 DEF OneTurn, Answered
    <3> QED  BY <1>1, <1>4, <2>1, <2>3, <3>1, <3>2 DEF OneTurn
  <2> QED  BY <2>2, <2>3
<1> QED  BY <1>3, <1>5, <1>6 DEF ConversationInv

(* A second acceptance is told by the ghost; the first finds nothing done. *)
LEMMA DeliverInv ==
    ASSUME ConversationInv, NEW h \in Handlers, NEW i \in Instances, NEW m \in Messages,
           Deliver(h, i, m)
    PROVE  ConversationInv'
<1> DEFINE next == [Free EXCEPT !.step = "read", !.message = m, !.instance = i]
<1>1. /\ sent[m] # Nothing /\ handler[h].step = "idle" /\ ConversationTyped
      /\ deliveries' = [deliveries EXCEPT ![m] = deliveries[m] + 1]
      /\ UNCHANGED <<sent, turns, posted, apologies, unstamped>>
  BY DEF Deliver, ConversationInv
<1>2. /\ deliveries' \in [Messages -> Nat] /\ deliveries[m] \in Nat /\ deliveries'[m] = deliveries[m] + 1
      /\ \A o \in Messages : o # m => deliveries'[o] = deliveries[o]
  BY <1>1 DEF ConversationTyped
<1>3. \A o \in Messages : ThreadsOf(o)' = ThreadsOf(o)
  BY <1>1 DEF ThreadsOf, MemoryThread, BranchThreads
<1>4. CASE UNCHANGED <<handler, reacting, forgotten>>
  <2>1. ConversationTyped'
    BY <1>1, <1>2, <1>4 DEF ConversationTyped
  <2>2. ASSUME NEW g \in Handlers  PROVE Handles(g)'
    <3>1. Handles(g) /\ handler'[g] = handler[g]
      BY <1>4 DEF ConversationInv
    <3> QED  BY <1>1, <1>2, <1>3, <3>1 DEF Handles, ConversationTyped
  <2>3. ASSUME NEW o \in Messages \ forgotten'  PROVE OneTurn(o)'
    <3>1. OneTurn(o)
      BY <1>4, <2>3 DEF ConversationInv
    <3>2. ASSUME NEW g \in Handlers, handler'[g].message = o  PROVE StillToDo(handler[g], o)'
      BY <1>1, <1>4, <3>1, <3>2 DEF OneTurn, StillToDo
    <3>3. Answered(o)'
      BY <1>1, <3>1 DEF OneTurn, Answered
    <3> QED  BY <1>1, <1>2, <1>3, <1>4, <3>1, <3>2, <3>3 DEF OneTurn
  <2> QED  BY <2>1, <2>2, <2>3 DEF ConversationInv
<1>5. CASE /\ handler' = [handler EXCEPT ![h] = next] /\ reacting' = reacting \cup {m}
           /\ forgotten' = IF deliveries[m] > 0 THEN forgotten \cup {m} ELSE forgotten
  <2>1. next \in Handling /\ next.step = "read" /\ next.message = m /\ next.history = << >>
    BY FreeIsHandling DEF Handling, Steps
  <2> HIDE DEF next
  <2>2. /\ handler' \in [Handlers -> Handling] /\ handler'[h] = next
        /\ \A g \in Handlers : g # h => handler'[g] = handler[g]
        /\ handler[h].message = Nothing
    BY <1>1, <1>5, <2>1 DEF ConversationInv, ConversationTyped, Handles
  <2>3. ConversationTyped'
    BY <1>1, <1>2, <2>2 DEF ConversationTyped
  <2>4. ASSUME NEW g \in Handlers  PROVE Handles(g)'
    <3>1. CASE g = h
      BY <1>1, <1>2, <2>1, <2>2, <3>1 DEF Handles
    <3>2. CASE g # h
      <4>1. Handles(g) /\ handler'[g] = handler[g]
        BY <2>2, <3>2 DEF ConversationInv
      <4> QED  BY <1>1, <1>2, <1>3, <4>1 DEF Handles, ConversationTyped
    <3> QED  BY <3>1, <3>2
  <2>5. ASSUME NEW o \in Messages \ forgotten'  PROVE OneTurn(o)'
    <3>1. OneTurn(o)
      BY <1>5, <2>5 DEF ConversationInv
    <3>2. CASE o # m
      <4>1. \A g \in Handlers : handler[g].message = o \/ handler'[g].message = o =>
                    handler'[g] = handler[g] /\ handler[g].todo \subseteq Threads
        BY <1>1, <2>1, <2>2, <3>2, ConversationAssumption DEF ConversationTyped, Handling
      <4> QED  BY <1>1, <1>2, <1>5, <3>1, <3>2, <4>1, OneTurnUntouched
    <3>3. CASE o = m
      <4>1. deliveries[m] = 0
        BY <1>2, <1>5, <2>5, <3>3
      <4>2. \A g \in Handlers : handler[g].message # m
        BY <4>1, ConversationAssumption DEF ConversationInv, Handles
      <4>3. \A g \in Handlers : handler'[g].message = m <=> g = h
        BY <2>1, <2>2, <4>2
      <4>4. /\ posted[m] = 0 /\ apologies[m] = 0
            /\ \A k \in Threads, role \in Speakers : NotTold(turns[k], m, role)
        BY <3>1, <3>3, <4>1 DEF OneTurn
      <4>5. StillToDo(next, m)'
        BY <1>1, <2>1, <4>4 DEF StillToDo
      <4>6. ASSUME NEW g \in Handlers, handler'[g].message = o  PROVE StillToDo(handler[g], o)'
        <5>1. handler'[g] = next
          BY <2>2, <3>3, <4>3, <4>6
        <5> QED  BY <3>3, <4>5, <5>1 DEF StillToDo
      <4>7. Answered(o)'
        BY <1>1, <3>1 DEF OneTurn, Answered
      <4> QED  BY <1>1, <1>2, <1>3, <3>1, <3>3, <4>3, <4>4, <4>6, <4>7 DEF OneTurn
    <3> QED  BY <3>2, <3>3
  <2> QED  BY <2>3, <2>4, <2>5 DEF ConversationInv
<1> QED  BY <1>4, <1>5 DEF Deliver

(* What the steps of a handler have in common. *)
LEMMA AtWork ==
    ASSUME ConversationInv, NEW h \in Handlers, handler[h].step # "idle"
    PROVE  /\ handler[h] \in Handling /\ handler[h].message \in Messages
           /\ turns \in [Threads -> Seq(Turn)]
           /\ posted \in [Messages -> Nat] /\ apologies \in [Messages -> Nat]
           /\ sent[handler[h].message] # Nothing
           /\ handler[h].message \notin forgotten =>
                /\ Answered(handler[h].message) /\ StillToDo(handler[h], handler[h].message)
                /\ \A k \in Threads, role \in Speakers :
                    /\ ToldOnce(turns[k], handler[h].message, role)
                    /\ k \notin ThreadsOf(handler[h].message) =>
                            NotTold(turns[k], handler[h].message, role)
BY DEF ConversationInv, ConversationTyped, Handles, OneTurn

LEMMA ReadHistoryInv ==
    ASSUME ConversationInv, NEW h \in Handlers, NEW ok \in BOOLEAN, ReadHistory(h, ok)
    PROVE  ConversationInv'
<1>1. handler[h].step = "read"
  BY DEF ReadHistory
<1>2. PICK m \in Messages : m = handler[h].message
  BY <1>1, AtWork
<1> DEFINE history == IF ok THEN LastTurns(turns[MemoryThread(m)]) ELSE << >>
           new == [handler[h] EXCEPT !.step = "ask", !.todo = ThreadsOf(m), !.history = history]
<1>3. Becomes(h, new) /\ Quiet /\ UNCHANGED <<reacting, turns>> /\ Silent
  BY <1>2 DEF ReadHistory
<1>4. ThreadsOf(m) \subseteq Threads /\ MemoryThread(m) \in ThreadsOf(m)
  BY <1>1, <1>2, AtWork, ThreadsOfAMessage
<1>5. turns[MemoryThread(m)] \in Seq(Turn)
  BY <1>1, <1>4, AtWork
<1>6. /\ history \in Seq(Turn)
      /\ \A n \in 1 .. Len(history) :
            \E j \in 1 .. Len(turns[MemoryThread(m)]) : history[n] = turns[MemoryThread(m)][j]
  BY <1>5, LastTurnsAreTurns
<1> HIDE DEF history
<1>7. PICK next \in Handling :
            /\ Becomes(h, next) /\ next.step = "ask" /\ next.message = m
            /\ next.todo = ThreadsOf(m) /\ next.history = history
  <2>1. /\ new \in Handling /\ new.step = "ask" /\ new.message = m /\ new.todo = ThreadsOf(m)
        /\ new.history = history
    BY <1>1, <1>2, <1>4, <1>6, AtWork DEF Handling, Steps
  <2> QED  BY <1>3, <2>1
<1>8. ASSUME m \notin forgotten  PROVE StillToDo(next, m)'
  <2>1. /\ posted[m] = 0 /\ apologies[m] = 0
        /\ \A k \in Threads, role \in Speakers : NotTold(turns[k], m, role)
    BY <1>1, <1>2, <1>8, AtWork DEF StillToDo
  <2>2. ASSUME NEW n \in 1 .. Len(history)  PROVE history[n].message # m
    <3>1. PICK j \in 1 .. Len(turns[MemoryThread(m)]) : history[n] = turns[MemoryThread(m)][j]
      BY <1>6
    <3>2. turns[MemoryThread(m)][j] \in Turn
      BY <1>5
    <3>3. \A role \in Speakers : ~IsTurn(turns[MemoryThread(m)][j], m, role)
      BY <1>4, <2>1 DEF NotTold
    <3>4. turns[MemoryThread(m)][j].role \in Speakers
      BY <3>2 DEF Turn, Speakers
    <3> QED  BY <3>1, <3>3, <3>4 DEF IsTurn
  <2> QED  BY <1>3, <1>4, <1>7, <2>1, <2>2 DEF StillToDo, Speakers, Silent
<1>9. m \notin forgotten => Answered(m)'
  BY <1>1, <1>2, <1>3, AtWork DEF Answered, Silent
<1> QED
  BY <1>1, <1>2, <1>3, <1>7, <1>8, <1>9, AtWork, HandlerGoesOn
     DEF ConversationInv, ConversationTyped, Silent

LEMMA AppendTurnInv ==
    ASSUME ConversationInv, NEW h \in Handlers, NEW ok \in BOOLEAN, AppendTurn(h, ok)
    PROVE  ConversationInv'
<1>1. handler[h].step \in {"ask", "tell"} /\ handler[h].todo # {}
  BY DEF AppendTurn
<1>2. PICK m \in Messages : m = handler[h].message
  BY <1>1, AtWork
<1>3. PICK k : k = NextThread(h)
  OBVIOUS
<1>4. PICK role \in Speakers : role = IF handler[h].step = "ask" THEN "user" ELSE "assistant"
  BY DEF Speakers
<1> DEFINE left == handler[h].todo \ {k}
           step == IF left # {} THEN handler[h].step
                   ELSE IF role = "user" THEN "think" ELSE AnswerStep(handler[h])
           new == [handler[h] EXCEPT !.todo = left, !.step = step]
           turn == [message |-> m, role |-> role]
<1>5. /\ Becomes(h, new) /\ Quiet /\ UNCHANGED reacting /\ Silent
      /\ turns' = IF ok THEN [turns EXCEPT ![k] = Append(turns[k], turn)] ELSE turns
  BY <1>2, <1>3, <1>4 DEF AppendTurn
<1>6. /\ handler[h].todo \subseteq ThreadsOf(m) /\ ThreadsOf(m) \subseteq Threads
      /\ sent[m] # Nothing
  BY <1>1, <1>2, AtWork, ThreadsOfAMessage DEF ConversationInv, Handles
<1>7. k \in handler[h].todo /\ k \in Threads
  BY <1>1, <1>2, <1>3, <1>6, ThreadsOfAMessage DEF NextThread
<1>8. turn \in Turn /\ turn.message = m /\ turn.role = role
  BY <1>4 DEF Turn, Speakers
<1> HIDE DEF turn
<1>9. /\ left \subseteq handler[h].todo /\ k \notin left
      /\ step \in {"ask", "tell", "think", "post", "store"}
      /\ step = "ask" => handler[h].step = "ask" /\ role = "user"
      /\ step = "tell" => handler[h].step = "tell" /\ role = "assistant"
      /\ step = "think" => handler[h].step = "ask" /\ role = "user"
  BY <1>1, <1>4 DEF Speakers, AnswerStep
<1> HIDE DEF left, step
<1>10. PICK next \in Handling :
            /\ Becomes(h, next) /\ next.step = step /\ next.message = m /\ next.todo = left
            /\ next.history = handler[h].history
  <2>1. /\ new \in Handling /\ new.step = step /\ new.message = m /\ new.todo = left
        /\ new.history = handler[h].history
    BY <1>1, <1>2, <1>9, AtWork DEF Handling, Steps
  <2> QED  BY <1>5, <2>1
<1>11. /\ turns' \in [Threads -> Seq(Turn)]
       /\ \A j \in Threads : turns'[j] = turns[j] \/ (j = k /\ turns'[j] = Append(turns[j], turn))
  <2>1. turns[k] \in Seq(Turn) /\ turns \in [Threads -> Seq(Turn)]
    BY <1>1, <1>7, AtWork
  <2>2. Append(turns[k], turn) \in Seq(Turn)
    BY <1>8, <2>1
  <2> QED  BY <1>5, <1>7, <2>1, <2>2
<1>12. ASSUME NEW o, NEW r \in Speakers, NEW j \in Threads, o # m \/ r # role \/ j # k
       PROVE  /\ NotTold(turns[j], o, r) => NotTold(turns'[j], o, r)
              /\ ToldOnce(turns[j], o, r) => ToldOnce(turns'[j], o, r)
  <2>1. CASE turns'[j] = turns[j]
    BY <2>1
  <2>2. CASE j = k /\ turns'[j] = Append(turns[j], turn)
    <3>1. ~IsTurn(turn, o, r)
      BY <1>8, <1>12, <2>2 DEF IsTurn
    <3>2. turns[j] \in Seq(Turn)
      BY <1>1, AtWork
    <3> QED  BY <1>8, <2>2, <3>1, <3>2, OneMoreTurn
  <2> QED  BY <1>11, <2>1, <2>2
<1>13. ASSUME m \notin forgotten
       PROVE  /\ StillToDo(next, m)'
              /\ \A j \in Threads, r \in Speakers :
                    /\ ToldOnce(turns'[j], m, r)
                    /\ j \notin ThreadsOf(m) => NotTold(turns'[j], m, r)
  <2>1. /\ StillToDo(handler[h], m)
        /\ \A j \in Threads, r \in Speakers :
                    /\ ToldOnce(turns[j], m, r)
                    /\ j \notin ThreadsOf(m) => NotTold(turns[j], m, r)
    BY <1>1, <1>2, <1>13, AtWork
  <2>2. NotTold(turns[k], m, role)
    BY <1>1, <1>4, <1>7, <2>1 DEF StillToDo
  <2>3. ASSUME NEW j \in Threads, NEW r \in Speakers
        PROVE  /\ ToldOnce(turns'[j], m, r)
               /\ j \notin ThreadsOf(m) => NotTold(turns'[j], m, r)
    <3>1. CASE j = k /\ r = role
      <4>1. turns[k] \in Seq(Turn)
        BY <1>1, <1>7, AtWork
      <4>2. ToldOnce(Append(turns[k], turn), m, role)
        BY <1>8, <2>2, <4>1, OneMoreTurn
      <4>3. ToldOnce(turns'[k], m, role)
        BY <1>7, <1>11, <2>1, <4>2
      <4> QED  BY <1>6, <1>7, <3>1, <4>3
    <3>2. CASE j # k \/ r # role
      BY <1>12, <2>1, <3>2
    <3> QED  BY <3>1, <3>2
  <2>4. posted'[m] = 0 /\ apologies'[m] = 0
    BY <1>1, <1>5, <2>1 DEF StillToDo, Silent
  <2>5. step \in {"ask", "think"} => \A j \in Threads : NotTold(turns'[j], m, "assistant")
    BY <1>1, <1>9, <1>12, <2>1 DEF StillToDo, Speakers
  <2>6. step = "ask" => \A j \in left : NotTold(turns'[j], m, "user")
    BY <1>6, <1>9, <1>12, <2>1 DEF StillToDo, Speakers
  <2>7. step = "tell" => \A j \in left : NotTold(turns'[j], m, "assistant")
    BY <1>6, <1>9, <1>12, <2>1 DEF StillToDo, Speakers
  <2>8. \A n \in 1 .. Len(next.history) : next.history[n].message # m
    BY <1>10, <2>1 DEF StillToDo
  <2>9. StillToDo(next, m)'
    BY <1>9, <1>10, <2>4, <2>5, <2>6, <2>7, <2>8 DEF StillToDo
  <2> QED  BY <2>3, <2>9
<1>14. /\ UNCHANGED <<posted, apologies, unstamped>>
       /\ posted \in [Messages -> Nat] /\ apologies \in [Messages -> Nat]
       /\ m \notin forgotten => Answered(m)'
  BY <1>1, <1>2, <1>5, AtWork DEF Silent, Answered
<1>15. step # "idle" /\ left \subseteq ThreadsOf(m)
  BY <1>6, <1>9
<1> QED
  BY <1>1, <1>2, <1>5, <1>10, <1>11, <1>12, <1>13, <1>14, <1>15, HandlerGoesOn

(* A handler that writes nothing in Slack and no turn. *)
LEMMA SilentStep ==
    ASSUME ConversationInv, NEW h \in Handlers, NEW m, m = handler[h].message,
           NEW next \in Handling, Becomes(h, next), Quiet, UNCHANGED <<turns, reacting, posted, apologies>>,
           unstamped' = unstamped \/ unstamped' = unstamped \cup {m},
           handler[h].step # "idle", next.step # "idle", next.message = m,
           next.step \in {"ask", "tell"} => next.todo \subseteq ThreadsOf(m),
           m \notin forgotten => StillToDo(next, m)'
    PROVE  ConversationInv'
<1>1. m \notin forgotten => Answered(m)'
  BY AtWork DEF Answered
<1>2. \A o \in Messages, k \in Threads, role \in Speakers :
            /\ NotTold(turns[k], o, role) => NotTold(turns'[k], o, role)
            /\ ToldOnce(turns[k], o, role) => ToldOnce(turns'[k], o, role)
  OBVIOUS
<1>3. ASSUME m \notin forgotten, NEW k \in Threads, NEW role \in Speakers
      PROVE  ToldOnce(turns'[k], m, role) /\ (k \notin ThreadsOf(m) => NotTold(turns'[k], m, role))
  BY <1>3, AtWork
<1>4. /\ turns' \in [Threads -> Seq(Turn)] /\ posted' \in [Messages -> Nat]
      /\ apologies' \in [Messages -> Nat]
  BY AtWork
<1>5. \A o \in Messages : o # m =>
            posted'[o] = posted[o] /\ apologies'[o] = apologies[o] /\ (o \in unstamped' <=> o \in unstamped)
  OBVIOUS
<1> QED  BY <1>1, <1>2, <1>3, <1>4, <1>5, HandlerGoesOn

LEMMA ThinkInv ==
    ASSUME ConversationInv, NEW h \in Handlers, NEW answered \in BOOLEAN, NEW card \in BOOLEAN,
           Think(h, answered, card)
    PROVE  ConversationInv'
<1>1. handler[h].step = "think" /\ UNCHANGED <<turns, reacting>> /\ Silent /\ Quiet
  BY DEF Think
<1>2. PICK m \in Messages : m = handler[h].message
  BY <1>1, AtWork
<1>3. ThreadsOf(m) \subseteq Threads
  BY <1>1, <1>2, AtWork, ThreadsOfAMessage
<1>4. PICK next \in Handling :
            /\ Becomes(h, next) /\ next.message = m /\ next.history = handler[h].history
            /\ \/ next.step = "tell" /\ next.todo = ThreadsOf(m)
               \/ next.step \in {"post", "store"}
  <2>1. PICK after : after = [handler[h] EXCEPT !.card = card]
    OBVIOUS
  <2>2. after \in Handling /\ after.message = m /\ after.history = handler[h].history
    BY <1>1, <1>2, <2>1, AtWork DEF Handling
  <2>3. CASE answered
    <3> DEFINE next == [after EXCEPT !.step = "tell", !.todo = ThreadsOf(m)]
    <3>1. Becomes(h, next)
      BY <1>2, <2>1, <2>3 DEF Think
    <3>2. /\ next \in Handling /\ next.message = m /\ next.history = handler[h].history
          /\ next.step = "tell" /\ next.todo = ThreadsOf(m)
      BY <1>3, <2>2 DEF Handling, Steps
    <3> QED  BY <3>1, <3>2
  <2>4. CASE ~answered
    <3> DEFINE next == [after EXCEPT !.step = AnswerStep(after)]
    <3>1. Becomes(h, next)
      BY <2>1, <2>4 DEF Think
    <3>2. PICK step \in {"post", "store"} : step = AnswerStep(after)
      BY DEF AnswerStep
    <3>3. /\ next \in Handling /\ next.message = m /\ next.history = handler[h].history
          /\ next.step = step
      BY <2>2, <3>2 DEF Handling, Steps
    <3> QED  BY <3>1, <3>3
  <2> QED  BY <2>3, <2>4
<1>5. ASSUME m \notin forgotten  PROVE StillToDo(next, m)'
  <2>1. StillToDo(handler[h], m)
    BY <1>1, <1>2, <1>5, AtWork
  <2> QED  BY <1>1, <1>3, <1>4, <2>1 DEF StillToDo, Silent
<1> QED  BY <1>1, <1>2, <1>4, <1>5, SilentStep DEF Silent

GoesTo(h, step) == Becomes(h, [handler[h] EXCEPT !.step = step])

(* A handler that takes a step. *)
LEMMA TakesStep ==
    ASSUME ConversationInv, NEW h \in Handlers, handler[h].step # "idle", NEW step \in Steps,
           GoesTo(h, step)
    PROVE  \E next \in Handling :
            /\ Becomes(h, next) /\ next.message = handler[h].message
            /\ next.history = handler[h].history /\ next.todo = handler[h].todo /\ next.step = step
<1> DEFINE new == [handler[h] EXCEPT !.step = step]
<1>1. /\ new \in Handling /\ new.message = handler[h].message
      /\ new.history = handler[h].history /\ new.todo = handler[h].todo /\ new.step = step
  BY AtWork DEF Handling
<1>2. Becomes(h, new)
  BY DEF GoesTo
<1> HIDE DEF new
<1> QED  BY <1>1, <1>2

LEMMA StorePendingInv ==
    ASSUME ConversationInv, NEW h \in Handlers, StorePending(h)
    PROVE  ConversationInv'
<1>1. /\ handler[h].step = "store" /\ UNCHANGED <<turns, reacting>> /\ Silent /\ Quiet
      /\ GoesTo(h, "post")
  BY DEF StorePending, GoesTo
<1>2. PICK m \in Messages : m = handler[h].message
  BY <1>1, AtWork
<1>3. PICK next \in Handling :
            /\ Becomes(h, next) /\ next.message = m /\ next.history = handler[h].history
            /\ next.step = "post"
  BY <1>1, <1>2, TakesStep DEF Steps
<1>4. ASSUME m \notin forgotten  PROVE StillToDo(next, m)'
  <2>1. StillToDo(handler[h], m)
    BY <1>1, <1>2, <1>4, AtWork
  <2> QED  BY <1>1, <1>3, <2>1 DEF StillToDo, Silent
<1> QED  BY <1>1, <1>2, <1>3, <1>4, SilentStep DEF Silent

LEMMA AttachMessageTsInv ==
    ASSUME ConversationInv, NEW h \in Handlers, AttachMessageTs(h)
    PROVE  ConversationInv'
<1>1. /\ handler[h].step = "stamp" /\ UNCHANGED <<turns, reacting>> /\ Silent /\ Quiet
      /\ GoesTo(h, "clear")
  BY DEF AttachMessageTs, GoesTo
<1>2. PICK m \in Messages : m = handler[h].message
  BY <1>1, AtWork
<1>3. PICK next \in Handling :
            /\ Becomes(h, next) /\ next.message = m /\ next.history = handler[h].history
            /\ next.step = "clear"
  BY <1>1, <1>2, TakesStep DEF Steps
<1>4. ASSUME m \notin forgotten  PROVE StillToDo(next, m)'
  <2>1. StillToDo(handler[h], m)
    BY <1>1, <1>2, <1>4, AtWork
  <2> QED  BY <1>1, <1>3, <2>1 DEF StillToDo, Silent
<1> QED  BY <1>1, <1>2, <1>3, <1>4, SilentStep DEF Silent

(* Nothing was answered yet, or a card that could not be stamped. *)
LEMMA ThrowsInv ==
    ASSUME ConversationInv, NEW h \in Handlers, Throws(h)
    PROVE  ConversationInv'
<1>1. /\ handler[h].step \in {"read", "think", "store", "stamp"}
      /\ UNCHANGED <<turns, posted, apologies, reacting>> /\ Quiet
      /\ GoesTo(h, "sorry")
  BY DEF Throws, GoesTo
<1>2. PICK m \in Messages : m = handler[h].message
  BY <1>1, AtWork
<1>3. PICK next \in Handling :
            /\ Becomes(h, next) /\ next.message = m /\ next.history = handler[h].history
            /\ next.step = "sorry"
  BY <1>1, <1>2, TakesStep DEF Steps
<1>4. unstamped' = IF handler[h].step = "stamp" THEN unstamped \cup {m} ELSE unstamped
  BY <1>2 DEF Throws
<1>5. ASSUME m \notin forgotten  PROVE StillToDo(next, m)'
  <2>1. StillToDo(handler[h], m)
    BY <1>1, <1>2, <1>5, AtWork
  <2>2. apologies[m] = 0 /\ (posted[m] = 0 \/ handler[h].step = "stamp")
    BY <1>1, <2>1 DEF StillToDo
  <2>3. \A n \in 1 .. Len(next.history) : next.history[n].message # m
    BY <1>3, <2>1 DEF StillToDo
  <2> QED  BY <1>1, <1>3, <1>4, <2>2, <2>3 DEF StillToDo
<1> QED  BY <1>1, <1>2, <1>3, <1>4, <1>5, SilentStep

(* A handler that writes in Slack, and no turn. *)
LEMMA SpokenStep ==
    ASSUME ConversationInv, NEW h \in Handlers, NEW m \in Messages, m = handler[h].message,
           NEW step \in {"stamp", "clear"}, GoesTo(h, step),
           handler[h].step # "idle", Quiet, UNCHANGED <<turns, reacting, unstamped>>,
           posted' \in [Messages -> Nat], apologies' \in [Messages -> Nat],
           \A o \in Messages : o # m => posted'[o] = posted[o] /\ apologies'[o] = apologies[o],
           m \notin forgotten => Answered(m)' /\ (step = "stamp" => apologies'[m] = 0)
    PROVE  ConversationInv'
<1>1. PICK next \in Handling :
            /\ Becomes(h, next) /\ next.message = m /\ next.history = handler[h].history
            /\ next.step = step
  BY TakesStep DEF Steps
<1>4. ASSUME m \notin forgotten  PROVE StillToDo(next, m)'
  <2>1. StillToDo(handler[h], m)
    BY <1>4, AtWork
  <2>2. \A n \in 1 .. Len(next.history) : next.history[n].message # m
    BY <1>1, <2>1 DEF StillToDo
  <2> QED  BY <1>1, <1>4, <2>2 DEF StillToDo
<1>5. turns' \in [Threads -> Seq(Turn)]
  BY AtWork
<1>6. ASSUME m \notin forgotten, NEW k \in Threads, NEW role \in Speakers
      PROVE  ToldOnce(turns'[k], m, role) /\ (k \notin ThreadsOf(m) => NotTold(turns'[k], m, role))
  BY <1>6, AtWork
<1>7. \A o \in Messages, k \in Threads, role \in Speakers :
            /\ NotTold(turns[k], o, role) => NotTold(turns'[k], o, role)
            /\ ToldOnce(turns[k], o, role) => ToldOnce(turns'[k], o, role)
  OBVIOUS
<1>8. /\ next.step # "idle" /\ next.step \notin {"ask", "tell"}
      /\ UNCHANGED reacting
  BY <1>1
<1>9. m \notin forgotten =>
        /\ Answered(m)' /\ StillToDo(next, m)'
        /\ \A k \in Threads, role \in Speakers :
            ToldOnce(turns'[k], m, role) /\ (k \notin ThreadsOf(m) => NotTold(turns'[k], m, role))
  BY <1>4, <1>6
<1>10. \A o \in Messages : o # m =>
        /\ posted'[o] = posted[o] /\ apologies'[o] = apologies[o]
        /\ o \in unstamped' <=> o \in unstamped
        /\ \A k \in Threads, role \in Speakers :
            /\ NotTold(turns[k], o, role) => NotTold(turns'[k], o, role)
            /\ ToldOnce(turns[k], o, role) => ToldOnce(turns'[k], o, role)
  BY <1>7
<1> QED  BY <1>1, <1>5, <1>8, <1>9, <1>10, HandlerGoesOn

LEMMA PostInv ==
    ASSUME ConversationInv, NEW h \in Handlers, NEW delivered \in BOOLEAN, Post(h, delivered)
    PROVE  ConversationInv'
<1>1. handler[h].step = "post" /\ UNCHANGED <<turns, apologies, unstamped, reacting>> /\ Quiet
  BY DEF Post
<1>2. PICK m \in Messages : m = handler[h].message
  BY <1>1, AtWork
<1>3. posted' = IF delivered THEN [posted EXCEPT ![m] = posted[m] + 1] ELSE posted
  BY <1>2 DEF Post
<1>4. PICK step \in {"stamp", "clear"} : GoesTo(h, step)
  BY DEF Post, GoesTo
<1>5. ASSUME m \notin forgotten  PROVE Answered(m)' /\ apologies'[m] = 0
  <2>1. StillToDo(handler[h], m)
    BY <1>1, <1>2, <1>5, AtWork
  <2>2. posted[m] = 0 /\ apologies[m] = 0 /\ posted \in [Messages -> Nat]
    BY <1>1, <2>1, AtWork DEF StillToDo
  <2>3. posted'[m] <= 1
    BY <1>3, <2>2
  <2> QED  BY <1>1, <2>2, <2>3 DEF Answered
<1>6. /\ posted' \in [Messages -> Nat] /\ apologies' \in [Messages -> Nat]
      /\ \A o \in Messages : o # m => posted'[o] = posted[o] /\ apologies'[o] = apologies[o]
  BY <1>1, <1>3, AtWork
<1> QED  BY <1>1, <1>2, <1>4, <1>5, <1>6, SpokenStep

LEMMA SaySorryInv ==
    ASSUME ConversationInv, NEW h \in Handlers, NEW delivered \in BOOLEAN, SaySorry(h, delivered)
    PROVE  ConversationInv'
<1>1. /\ handler[h].step = "sorry" /\ UNCHANGED <<turns, posted, unstamped, reacting>> /\ Quiet
      /\ GoesTo(h, "clear")
  BY DEF SaySorry, GoesTo
<1>2. PICK m \in Messages : m = handler[h].message
  BY <1>1, AtWork
<1>3. apologies' = IF delivered THEN [apologies EXCEPT ![m] = apologies[m] + 1] ELSE apologies
  BY <1>2 DEF SaySorry
<1>4. ASSUME m \notin forgotten  PROVE Answered(m)'
  <2>1. StillToDo(handler[h], m) /\ Answered(m)
    BY <1>1, <1>2, <1>4, AtWork
  <2>2. apologies[m] = 0 /\ (posted[m] = 0 \/ m \in unstamped) /\ apologies \in [Messages -> Nat]
    BY <1>1, <2>1, AtWork DEF StillToDo
  <2>3. apologies'[m] <= 1
    BY <1>3, <2>2
  <2> QED  BY <1>1, <2>1, <2>2, <2>3 DEF Answered
<1>5. /\ posted' \in [Messages -> Nat] /\ apologies' \in [Messages -> Nat]
      /\ \A o \in Messages : o # m => posted'[o] = posted[o] /\ apologies'[o] = apologies[o]
  BY <1>1, <1>3, AtWork
<1> QED  BY <1>1, <1>2, <1>4, <1>5, SpokenStep

AreFreed(gone) == handler' = [h \in Handlers |-> IF h \in gone THEN Free ELSE handler[h]]

(* Handlers that are free again leave nothing behind but a reaction, which the
   last one of a message takes with it. *)
LEMMA FreedInv ==
    ASSUME ConversationInv, NEW gone \in SUBSET Handlers, AreFreed(gone),
           UNCHANGED <<sent, deliveries, turns, posted, apologies, unstamped>>,
           forgotten \subseteq forgotten',
           \A m \in Messages \ forgotten' :
                (\A h \in gone : handler[h].message # m) => (m \in reacting' <=> m \in reacting),
           \A m \in Messages \ forgotten' :
                (\E h \in gone : handler[h].message = m) => m \notin reacting'
    PROVE  ConversationInv'
<1>1. /\ handler \in [Handlers -> Handling] /\ handler' \in [Handlers -> Handling]
      /\ \A h \in Handlers : handler'[h] = IF h \in gone THEN Free ELSE handler[h]
  BY FreeIsHandling DEF AreFreed, ConversationInv, ConversationTyped
<1>2. ConversationTyped'
  BY <1>1 DEF ConversationInv, ConversationTyped
<1>3. \A m \in Messages : ThreadsOf(m)' = ThreadsOf(m)
  BY DEF ThreadsOf, MemoryThread, BranchThreads
<1>4. ASSUME NEW h \in Handlers  PROVE Handles(h)'
  <2>1. CASE h \in gone
    BY <1>1, <2>1, FreeIsHandling DEF Handles
  <2>2. CASE h \notin gone
    <3>1. Handles(h) /\ handler'[h] = handler[h]
      BY <1>1, <2>2 DEF ConversationInv
    <3> QED  BY <1>3, <3>1 DEF Handles
  <2> QED  BY <2>1, <2>2
<1>5. ASSUME NEW m \in Messages \ forgotten'  PROVE OneTurn(m)'
  <2>1. OneTurn(m)
    BY <1>5 DEF ConversationInv
  <2>2. \A g \in Handlers : handler'[g].message = m => g \notin gone /\ handler'[g] = handler[g]
    BY <1>1, FreeIsHandling, ConversationAssumption
  <2>3. CASE \A h \in gone : handler[h].message # m
    <3>1. \A g \in Handlers : handler[g].message = m \/ handler'[g].message = m =>
                handler'[g] = handler[g] /\ handler[g].todo \subseteq Threads
      BY <1>1, <2>2, <2>3 DEF Handling
    <3> QED  BY <1>5, <2>1, <2>3, <3>1, OneTurnUntouched
  <2>4. CASE \E h \in gone : handler[h].message = m
    <3>1. \A g \in Handlers : handler'[g].message # m
      BY <1>1, <2>1, <2>2, <2>4 DEF OneTurn
    <3>2. m \notin reacting'
      BY <1>5, <2>4
    <3>3. Answered(m)'
      BY <2>1 DEF OneTurn, Answered
    <3> QED  BY <1>3, <2>1, <3>1, <3>2, <3>3 DEF OneTurn
  <2> QED  BY <2>3, <2>4
<1> QED  BY <1>2, <1>4, <1>5 DEF ConversationInv

LEMMA ClearReactionInv ==
    ASSUME ConversationInv, NEW h \in Handlers, ClearReaction(h)
    PROVE  ConversationInv'
<1>1. /\ handler' = [handler EXCEPT ![h] = Free] /\ reacting' = reacting \ {handler[h].message}
      /\ UNCHANGED <<sent, deliveries, turns, posted, apologies, unstamped, forgotten>>
  BY DEF ClearReaction, Becomes, Quiet, Silent
<1>2. AreFreed({h})
  BY <1>1 DEF AreFreed, ConversationInv, ConversationTyped
<1> QED  BY <1>1, <1>2, FreedInv

LEMMA InstanceDiesInv ==
    ASSUME ConversationInv, NEW i \in Instances, InstanceDies(i)
    PROVE  ConversationInv'
<1> DEFINE gone == {g \in Handlers : handler[g].instance = i}
<1>1. /\ handler' = [h \in Handlers |-> IF handler[h].instance = i THEN Free ELSE handler[h]]
      /\ forgotten' = forgotten \cup Elements(seen[i]) \cup {handler[h].message : h \in gone}
      /\ UNCHANGED <<sent, deliveries, turns, posted, apologies, unstamped, reacting>>
  BY DEF InstanceDies
<1>2. AreFreed(gone)
  BY <1>1 DEF AreFreed
<1>3. gone \in SUBSET Handlers /\ forgotten \subseteq forgotten'
      /\ \A h \in gone : handler[h].message \in forgotten'
  BY <1>1
<1> HIDE DEF gone
<1> QED  BY <1>1, <1>2, <1>3, FreedInv

LEMMA NextConversationInv ==
    ConversationInv /\ [ConversationNext]_conversationVars => ConversationInv'
<1> SUFFICES ASSUME ConversationInv, [ConversationNext]_conversationVars PROVE ConversationInv'
    OBVIOUS
<1>1. CASE \E m \in Messages, k \in Threads : Send(m, k)
  BY <1>1, SendInv
<1>2. CASE \E h \in Handlers, i \in Instances, m \in Messages : Deliver(h, i, m)
  BY <1>2, DeliverInv
<1>3. CASE \E h \in Handlers, ok \in BOOLEAN :
                ReadHistory(h, ok) \/ AppendTurn(h, ok) \/ Post(h, ok) \/ SaySorry(h, ok)
  BY <1>3, ReadHistoryInv, AppendTurnInv, PostInv, SaySorryInv
<1>4. CASE \E h \in Handlers, answered, card \in BOOLEAN : Think(h, answered, card)
  BY <1>4, ThinkInv
<1>7. CASE \E h \in Handlers : StorePending(h) \/ AttachMessageTs(h) \/ Throws(h)
  BY <1>7, StorePendingInv, AttachMessageTsInv, ThrowsInv
<1>5. CASE (\E h \in Handlers : ClearReaction(h)) \/ (\E i \in Instances : InstanceDies(i))
  BY <1>5, ClearReactionInv, InstanceDiesInv
<1>6. CASE UNCHANGED conversationVars
  <2>1. AreFreed({})
    BY <1>6 DEF AreFreed, conversationVars, ConversationInv, ConversationTyped
  <2> QED  BY <1>6, <2>1, FreedInv DEF conversationVars
<1> QED  BY <1>1, <1>2, <1>3, <1>4, <1>5, <1>6, <1>7 DEF ConversationNext

(* The handlers of messages and the tables they write stay related as
   ConversationInv says, however often and wherever Slack delivers. *)
THEOREM ConversationInvariant == ConversationSpec => []ConversationInv
<1>1. ConversationInit => ConversationInv
  BY InitConversationInv
<1>2. ConversationInv /\ [ConversationNext]_conversationVars => ConversationInv'
  BY NextConversationInv
<1> QED  BY <1>1, <1>2, PTL DEF ConversationSpec

(* A message is one turn of the conversation (rememberEventId and handleEvent
   of slack-events.service.ts, appendTurn and getThread of messages.service.ts):
   recorded once a side, never shown in its own history, and answered once or
   given one apology; both only when the card could not be stamped. *)
THEOREM MessagesAreOneTurn == ConversationSpec => []OneTurnPerMessage
<1>1. ConversationInv => OneTurnPerMessage
  <2> SUFFICES ASSUME ConversationInv, NEW m \in Messages \ forgotten
               PROVE  /\ posted[m] <= 1 /\ apologies[m] <= 1
                      /\ posted[m] > 0 /\ apologies[m] > 0 => m \in unstamped
                      /\ \A k \in Threads, role \in {"user", "assistant"} :
                            Cardinality({n \in DOMAIN turns[k] :
                                            turns[k][n] = [message |-> m, role |-> role]})
                              <= (IF sent[m] # Nothing /\ k \in ThreadsOf(m) THEN 1 ELSE 0)
                      /\ \A h \in Handlers : handler[h].message = m =>
                            \A n \in DOMAIN handler[h].history : handler[h].history[n].message # m
                      /\ m \in reacting => \E h \in Handlers : handler[h].message = m
      BY DEF OneTurnPerMessage
  <2>1. OneTurn(m)
    BY DEF ConversationInv
  <2>2. ASSUME NEW k \in Threads, NEW role \in Speakers
        PROVE  Cardinality({n \in DOMAIN turns[k] : turns[k][n] = [message |-> m, role |-> role]})
                 <= (IF sent[m] # Nothing /\ k \in ThreadsOf(m) THEN 1 ELSE 0)
    <3> DEFINE told == {n \in DOMAIN turns[k] : turns[k][n] = [message |-> m, role |-> role]}
    <3>1. turns[k] \in Seq(Turn) /\ DOMAIN turns[k] = 1 .. Len(turns[k])
      BY DEF ConversationInv, ConversationTyped
    <3>2. \A n \in told : n \in 1 .. Len(turns[k]) /\ IsTurn(turns[k][n], m, role)
      BY <3>1 DEF IsTurn
    <3>3. ToldOnce(turns[k], m, role)
          /\ (sent[m] = Nothing \/ k \notin ThreadsOf(m) => NotTold(turns[k], m, role))
      BY <2>1 DEF OneTurn
    <3>4. CASE told = {}
      <4>1. Cardinality(told) = 0
        BY <3>4, FS_EmptySet
      <4> QED  BY <4>1
    <3>5. CASE told # {}
      <4>1. PICK n : n \in told
        BY <3>5
      <4>2. told = {n}
        BY <3>2, <3>3, <4>1 DEF ToldOnce
      <4>3. Cardinality(told) = 1
        BY <4>2, FS_Singleton
      <4>4. sent[m] # Nothing /\ k \in ThreadsOf(m)
        BY <3>2, <3>3, <4>1 DEF NotTold
      <4> QED  BY <4>3, <4>4
    <3> QED  BY <3>4, <3>5
  <2>3. ASSUME NEW h \in Handlers, handler[h].message = m
        PROVE  \A n \in DOMAIN handler[h].history : handler[h].history[n].message # m
    <3>1. handler[h].history \in Seq(Turn) /\ DOMAIN handler[h].history = 1 .. Len(handler[h].history)
      BY DEF ConversationInv, ConversationTyped, Handling
    <3> QED  BY <2>1, <2>3, <3>1 DEF OneTurn, StillToDo
  <2>4. /\ posted[m] <= 1 /\ apologies[m] <= 1
        /\ posted[m] > 0 /\ apologies[m] > 0 => m \in unstamped
    BY <2>1 DEF OneTurn, Answered
  <2>5. m \in reacting => \E h \in Handlers : handler[h].message = m
    BY <2>1 DEF OneTurn
  <2> QED  BY <2>2, <2>3, <2>4, <2>5 DEF Speakers
<1> QED  BY <1>1, ConversationInvariant, PTL

(* How many events, deliveries and faults there are; what a server remembers of
   them is a window over the last MaxSeen. *)
HandlerBounded(w) == Len(w.history) <= HistoryLimit /\ (w.step = "idle" => w.instance = Nothing)

ConversationBounds ==
    /\ \A m \in Messages : deliveries[m] <= MaxDeliveries
    /\ seen \in [Instances -> Seq(Messages)]
    /\ \A i \in Instances : Len(seen[i]) <= MaxSeen
    /\ \A h \in Handlers : HandlerBounded(handler[h])
    /\ reacting \subseteq Messages
    /\ faults \in 0 .. MaxFaults
    /\ unstamped \subseteq Messages
    /\ forgotten \subseteq Messages

LEMMA RememberedBounds ==
    ASSUME NEW s \in Seq(Messages), Len(s) <= MaxSeen, NEW m \in Messages
    PROVE  Remembered(s, m) \in Seq(Messages) /\ Len(Remembered(s, m)) <= MaxSeen
<1>1. MaxSeen \in Nat /\ MaxSeen > 0 /\ Len(s) \in Nat
  BY ConversationAssumption
<1>2. CASE Len(s) = MaxSeen
  <2>1. s # << >>
    BY <1>1, <1>2
  <2>2. Tail(s) \in Seq(Messages) /\ Len(Tail(s)) = Len(s) - 1
    BY <2>1
  <2>3. Append(Tail(s), m) \in Seq(Messages) /\ Len(Append(Tail(s), m)) = Len(s)
    BY <1>1, <2>2
  <2> QED  BY <1>2, <2>3 DEF Remembered
<1>3. CASE Len(s) # MaxSeen
  <2>1. Append(s, m) \in Seq(Messages) /\ Len(Append(s, m)) = Len(s) + 1
    BY <1>1
  <2> QED  BY <1>1, <1>3, <2>1 DEF Remembered
<1> QED  BY <1>2, <1>3

LEMMA LastTurnsBounds ==
    ASSUME NEW s \in Seq(Turn)
    PROVE  Len(LastTurns(s)) <= HistoryLimit
<1> DEFINE first == IF Len(s) > HistoryLimit THEN Len(s) - HistoryLimit + 1 ELSE 1
<1>1. Len(s) \in Nat /\ HistoryLimit \in Nat
  BY ConversationAssumption
<1>2. first \in 1 .. Len(s) + 1 /\ Len(s) - first + 1 <= HistoryLimit
  BY <1>1
<1>3. Len(s) \in first - 1 .. Len(s)
  BY <1>1, <1>2
<1>4. LastTurns(s) = SubSeq(s, first, Len(s))
  BY DEF LastTurns
<1> HIDE DEF first
<1>5. Len(SubSeq(s, first, Len(s))) = Len(s) - first + 1
  BY <1>1, <1>2, <1>3, SubSeqProperties
<1> QED  BY <1>2, <1>4, <1>5

(* A handler goes on, with a history of a limited length. *)
LEMMA BecomesBounds ==
    ASSUME ConversationInv, ConversationBounds, NEW h \in Handlers, NEW next,
           Becomes(h, next), HandlerBounded(next)
    PROVE  \A g \in Handlers : HandlerBounded(handler'[g])
<1>1. handler' = [handler EXCEPT ![h] = next] /\ handler \in [Handlers -> Handling]
  BY DEF Becomes, ConversationInv, ConversationTyped
<1>2. \A g \in Handlers : handler'[g] = IF g = h THEN next ELSE handler[g]
  BY <1>1
<1> QED  BY <1>2 DEF ConversationBounds

LEMMA FreeIsBounded == HandlerBounded(Free)
BY ConversationAssumption DEF HandlerBounded, Free

LEMMA WorksBounds ==
    ASSUME ConversationBounds, NEW ok \in BOOLEAN, Works(ok)
    PROVE  faults' \in 0 .. MaxFaults
BY ConversationAssumption DEF ConversationBounds, Works

LEMMA HandlerBounds ==
    ASSUME ConversationInv, ConversationBounds, NEW h \in Handlers, NEW next, Becomes(h, next),
           HandlerBounded(next), Quiet, reacting' \subseteq reacting,
           unstamped' \subseteq Messages, faults' \in 0 .. MaxFaults
    PROVE  ConversationBounds'
<1>1. \A g \in Handlers : HandlerBounded(handler'[g])
  BY BecomesBounds
<1> QED  BY <1>1 DEF ConversationBounds, Quiet

LeftWith(h, left, step) == Becomes(h, [handler[h] EXCEPT !.todo = left, !.step = step])

LEMMA ConversationBoundsStep ==
    ConversationInv /\ ConversationBounds /\ [ConversationNext]_conversationVars => ConversationBounds'
<1> SUFFICES ASSUME ConversationInv, ConversationBounds, [ConversationNext]_conversationVars
             PROVE  ConversationBounds'
  OBVIOUS
<1>0. /\ handler \in [Handlers -> Handling] /\ deliveries \in [Messages -> Nat]
      /\ turns \in [Threads -> Seq(Turn)] /\ MaxFaults \in Nat /\ HistoryLimit \in Nat
      /\ MaxDeliveries \in Nat
  BY ConversationAssumption DEF ConversationInv, ConversationTyped
<1>1. CASE UNCHANGED conversationVars
  BY <1>1 DEF conversationVars, ConversationBounds
<1>2. ASSUME NEW m \in Messages, NEW k \in Threads, Send(m, k)  PROVE ConversationBounds'
  BY <1>2 DEF Send, ConversationBounds
<1>3. ASSUME NEW h \in Handlers, NEW i \in Instances, NEW m \in Messages, Deliver(h, i, m)
      PROVE  ConversationBounds'
  <2>1. /\ deliveries' = [deliveries EXCEPT ![m] = deliveries[m] + 1]
        /\ deliveries[m] < MaxDeliveries /\ UNCHANGED faults
    BY <1>3 DEF Deliver
  <2>9. UNCHANGED unstamped
    BY <1>3 DEF Deliver
  <2>2. \A n \in Messages : deliveries'[n] <= MaxDeliveries
    BY <1>0, <2>1 DEF ConversationBounds
  <2>3. CASE UNCHANGED <<seen, handler, reacting, forgotten>>
    BY <2>1, <2>2, <2>3, <2>9 DEF ConversationBounds
  <2>4. CASE ~UNCHANGED <<seen, handler, reacting, forgotten>>
    <3> DEFINE new == Remembered(seen[i], m)
               next == [Free EXCEPT !.step = "read", !.message = m, !.instance = i]
    <3>1. /\ seen' = [seen EXCEPT ![i] = new] /\ Becomes(h, next)
          /\ reacting' = reacting \cup {m} /\ forgotten' \subseteq forgotten \cup {m}
      BY <1>3, <2>4 DEF Deliver, Becomes
    <3>2. new \in Seq(Messages) /\ Len(new) <= MaxSeen
      BY RememberedBounds DEF ConversationBounds
    <3>3. next.history = << >> /\ next.step = "read"
      BY DEF Free
    <3>4. HandlerBounded(next)
      BY <1>0, <3>3 DEF HandlerBounded
    <3> HIDE DEF new, next
    <3>5. \A g \in Handlers : HandlerBounded(handler'[g])
      BY <3>1, <3>4, BecomesBounds
    <3>6. seen' \in [Instances -> Seq(Messages)] /\ \A j \in Instances : Len(seen'[j]) <= MaxSeen
      BY <3>1, <3>2 DEF ConversationBounds
    <3> QED  BY <2>1, <2>2, <2>9, <3>1, <3>5, <3>6 DEF ConversationBounds
  <2> QED  BY <2>3, <2>4
<1>4. ASSUME NEW h \in Handlers, NEW ok \in BOOLEAN, ReadHistory(h, ok)  PROVE ConversationBounds'
  <2> DEFINE m == handler[h].message
             read == IF ok THEN LastTurns(turns[MemoryThread(m)]) ELSE << >>
             next == [handler[h] EXCEPT !.step = "ask", !.todo = ThreadsOf(m), !.history = read]
  <2>1. /\ Becomes(h, next) /\ Quiet /\ UNCHANGED <<reacting, unstamped>> /\ Works(ok)
        /\ handler[h].step = "read"
    BY <1>4 DEF ReadHistory, Silent
  <2>2. handler[h] \in Handling /\ m \in Messages /\ sent[m] # Nothing
    BY <2>1, AtWork
  <2>3. turns[MemoryThread(m)] \in Seq(Turn)
    BY <1>0, <2>2 DEF MemoryThread, ConversationInv, ConversationTyped
  <2>4. Len(read) <= HistoryLimit
    BY <1>0, <2>3, LastTurnsBounds
  <2>5. next.history = read /\ next.step = "ask"
    BY <2>2 DEF Handling
  <2>7. HandlerBounded(next)
    <3> HIDE DEF read, next
    <3> QED  BY <2>4, <2>5 DEF HandlerBounded
  <2>6. faults' \in 0 .. MaxFaults
    BY <2>1, WorksBounds
  <2> HIDE DEF read, next
  <2>8. unstamped' \subseteq Messages
    BY <2>1 DEF ConversationBounds
  <2> QED  BY <2>1, <2>6, <2>7, <2>8, HandlerBounds
<1>5. ASSUME NEW h \in Handlers, NEW ok \in BOOLEAN, AppendTurn(h, ok)  PROVE ConversationBounds'
  <2>1. PICK left, step : /\ LeftWith(h, left, step)
                          /\ step \in {"ask", "tell", "think", "post", "store"}
    <3>1. PICK left : left = handler[h].todo \ {NextThread(h)}
      OBVIOUS
    <3>2. PICK role : role = IF handler[h].step = "ask" THEN "user" ELSE "assistant"
      OBVIOUS
    <3>3. PICK step : step = IF left # {} THEN handler[h].step
                             ELSE IF role = "user" THEN "think" ELSE AnswerStep(handler[h])
      OBVIOUS
    <3>4. step \in {"ask", "tell", "think", "post", "store"}
      BY <1>5, <3>3 DEF AppendTurn, AnswerStep
    <3>5. LeftWith(h, left, step)
      BY <1>5, <3>1, <3>2, <3>3 DEF AppendTurn, LeftWith
    <3> QED  BY <3>4, <3>5
  <2>2. Quiet /\ UNCHANGED <<reacting, unstamped>> /\ Works(ok)
    BY <1>5 DEF AppendTurn, Silent
  <2> DEFINE next == [handler[h] EXCEPT !.todo = left, !.step = step]
  <2>3. HandlerBounded(next)
    <3>1. /\ next.history = handler[h].history /\ next.step \in Steps \ {"idle"}
          /\ HandlerBounded(handler[h])
      BY <1>0, <2>1 DEF Handling, ConversationBounds, Steps
    <3> HIDE DEF next
    <3> QED  BY <3>1 DEF HandlerBounded
  <2>4. faults' \in 0 .. MaxFaults
    BY <2>2, WorksBounds
  <2>5. Becomes(h, next)
    BY <2>1 DEF LeftWith
  <2> HIDE DEF next
  <2>6. unstamped' \subseteq Messages
    BY <2>2 DEF ConversationBounds
  <2> QED  BY <2>2, <2>3, <2>4, <2>5, <2>6, HandlerBounds
<1>6. ASSUME NEW h \in Handlers, NEW ok \in BOOLEAN,
             Post(h, ok) \/ SaySorry(h, ok) \/ StorePending(h) \/ AttachMessageTs(h) \/ Throws(h)
      PROVE  ConversationBounds'
  <2>1. PICK step \in Steps \ {"idle"} : Becomes(h, [handler[h] EXCEPT !.step = step])
    BY <1>6 DEF Post, SaySorry, StorePending, AttachMessageTs, Throws, Steps
  <2>2. Quiet /\ UNCHANGED reacting
    BY <1>6 DEF Post, SaySorry, StorePending, AttachMessageTs, Throws
  <2>3. faults' \in 0 .. MaxFaults
    <3>1. CASE Works(ok)
      BY <3>1, WorksBounds
    <3>2. CASE Works(FALSE)
      BY <3>2, WorksBounds
    <3>3. CASE UNCHANGED faults
      BY <3>3 DEF ConversationBounds
    <3> QED  BY <1>6, <3>1, <3>2, <3>3 DEF Post, SaySorry, StorePending, AttachMessageTs, Throws
  <2>4. unstamped' \subseteq Messages
    <3>1. handler[h].step # "idle"
      BY <1>6 DEF Post, SaySorry, StorePending, AttachMessageTs, Throws
    <3>2. handler[h].message \in Messages
      BY <3>1, AtWork
    <3>3. unstamped' \subseteq unstamped \cup {handler[h].message}
      BY <1>6 DEF Post, SaySorry, StorePending, AttachMessageTs, Throws, Silent
    <3> QED  BY <3>2, <3>3 DEF ConversationBounds
  <2> DEFINE next == [handler[h] EXCEPT !.step = step]
  <2>5. HandlerBounded(next)
    <3>1. /\ next.history = handler[h].history /\ next.step \in Steps \ {"idle"}
          /\ HandlerBounded(handler[h])
      BY <1>0, <2>1 DEF Handling, ConversationBounds
    <3> HIDE DEF next
    <3> QED  BY <3>1 DEF HandlerBounded
  <2> HIDE DEF next
  <2>6. Becomes(h, next)
    BY <2>1 DEF next
  <2> QED  BY <2>2, <2>3, <2>4, <2>5, <2>6, HandlerBounds
<1>7. ASSUME NEW h \in Handlers, NEW answered \in BOOLEAN, NEW card \in BOOLEAN,
             Think(h, answered, card)
      PROVE  ConversationBounds'
  <2>1. handler[h] \in Handling /\ HandlerBounded(handler[h])
    BY <1>0 DEF ConversationBounds
  <2>2. PICK after : after = [handler[h] EXCEPT !.card = card]
    OBVIOUS
  <2>3. after \in Handling /\ after.history = handler[h].history
    BY <2>1, <2>2 DEF Handling
  <2>4. Quiet /\ UNCHANGED <<reacting, unstamped, faults>>
    BY <1>7 DEF Think, Silent
  <2>5. PICK next : Becomes(h, next) /\ HandlerBounded(next)
    <3>1. CASE answered
      <4> DEFINE next == [after EXCEPT !.step = "tell", !.todo = ThreadsOf(handler[h].message)]
      <4>1. Becomes(h, next)
        BY <1>7, <2>2, <3>1 DEF Think
      <4>2. next.history = handler[h].history /\ next.step # "idle"
        BY <2>3 DEF Handling
      <4> HIDE DEF next
      <4> QED  BY <2>1, <4>1, <4>2 DEF HandlerBounded
    <3>2. CASE ~answered
      <4>1. PICK step \in {"post", "store"} : step = AnswerStep(after)
        BY DEF AnswerStep
      <4> DEFINE next == [after EXCEPT !.step = step]
      <4>2. Becomes(h, next)
        BY <1>7, <2>2, <3>2, <4>1 DEF Think
      <4>3. next.history = handler[h].history /\ next.step # "idle"
        BY <2>3, <4>1 DEF Handling
      <4> HIDE DEF next
      <4> QED  BY <2>1, <4>2, <4>3 DEF HandlerBounded
    <3> QED  BY <3>1, <3>2
  <2>6. faults' \in 0 .. MaxFaults /\ unstamped' \subseteq Messages
    BY <2>4 DEF ConversationBounds
  <2> QED  BY <2>4, <2>5, <2>6, HandlerBounds
<1>8. ASSUME NEW h \in Handlers, ClearReaction(h)  PROVE ConversationBounds'
  <2>1. /\ Becomes(h, Free) /\ Quiet /\ reacting' \subseteq reacting /\ UNCHANGED <<faults, unstamped>>
    BY <1>8 DEF ClearReaction, Silent
  <2>2. HandlerBounded(Free)
    BY FreeIsBounded
  <2>3. faults' \in 0 .. MaxFaults /\ unstamped' \subseteq Messages
    BY <2>1 DEF ConversationBounds
  <2> QED  BY <2>1, <2>2, <2>3, HandlerBounds
<1>9. ASSUME NEW i \in Instances, InstanceDies(i)  PROVE ConversationBounds'
  <2>1. /\ faults < MaxFaults /\ faults' = faults + 1 /\ seen' = [seen EXCEPT ![i] = << >>]
        /\ \A h \in Handlers : handler'[h] = IF handler[h].instance = i THEN Free ELSE handler[h]
        /\ UNCHANGED <<deliveries, reacting, unstamped>>
    BY <1>9 DEF InstanceDies
  <2>2. faults' \in 0 .. MaxFaults
    BY <1>0, <2>1 DEF ConversationBounds
  <2>3. << >> \in Seq(Messages)
    BY EmptySeq
  <2>4. seen' \in [Instances -> Seq(Messages)] /\ \A j \in Instances : Len(seen'[j]) <= MaxSeen
    BY <2>1, <2>3, ConversationAssumption DEF ConversationBounds
  <2>5. \A h \in Handlers : HandlerBounded(handler'[h])
    BY <2>1, FreeIsBounded DEF ConversationBounds
  <2>6. forgotten' \subseteq Messages
    <3>1. Elements(seen[i]) \subseteq Messages
      BY DEF Elements, ConversationBounds
    <3>2. \A h \in Handlers : handler[h].instance = i => handler[h].message \in Messages
      BY ConversationAssumption DEF ConversationInv, Handles, ConversationBounds, HandlerBounded
    <3> QED  BY <1>9, <3>1, <3>2 DEF InstanceDies, ConversationBounds
  <2> QED  BY <2>1, <2>2, <2>4, <2>5, <2>6 DEF ConversationBounds
<1> QED  BY <1>1, <1>2, <1>3, <1>4, <1>5, <1>6, <1>7, <1>8, <1>9 DEF ConversationNext

LEMMA InitConversationBounds == ConversationInit => ConversationBounds
<1> SUFFICES ASSUME ConversationInit  PROVE ConversationBounds
  OBVIOUS
<1>1. << >> \in Seq(Messages)
  BY EmptySeq
<1>2. \A h \in Handlers : HandlerBounded(handler[h])
  BY FreeIsBounded DEF ConversationInit
<1> QED  BY <1>1, <1>2, ConversationAssumption DEF ConversationInit, ConversationBounds

LEMMA ConversationTypes == ConversationInv /\ ConversationBounds => ConversationTypeOK
<1> SUFFICES ASSUME ConversationInv, ConversationBounds  PROVE ConversationTypeOK
  OBVIOUS
<1>1. deliveries \in [Messages -> 0 .. MaxDeliveries]
  BY ConversationAssumption DEF ConversationInv, ConversationTyped, ConversationBounds
<1>2. \A h \in Handlers : handler[h] \in Handling /\ Len(handler[h].history) <= HistoryLimit
  BY DEF ConversationInv, ConversationTyped, ConversationBounds, HandlerBounded
<1> QED  BY <1>1, <1>2 DEF ConversationTypeOK, ConversationInv, ConversationTyped, ConversationBounds,
            Handling

-----------------------------------------------------------------------------
(* Accounts connected through Pipedream.  A row agrees with the bucket the    *)
(* account is in, or with nothing once it is revoked there, unless its level  *)
(* was edited; so do the rows that requests are about to save (RowsFit).  A   *)
(* revoked account without a row gets none again, since whoever read it when  *)
(* it had one is out of date (GoneForGood).                                   *)

Serve == [phase : {"idle", "find", "save", "revoke", "remove"},
          account : AccountIds \cup {Unknown}, by : Owners \cup {Unknown},
          level : Levels, row : Row \cup {Unknown}, found : BOOLEAN, stale : BOOLEAN]

AboutAccount(w) ==
    /\ w.phase # "idle" => w.account \in AccountIds
    /\ w.phase = "find" => w.by \in Owners
    /\ w.phase = "save" => w.row \in Row

Bucket(row) == resolveExternalUserId(row.userId, row.accessLevel)

RowsFit ==
    /\ \A p \in AccountIds : pipedream[p] = Unknown => integrations[p] = Unknown
    /\ \A p \in AccountIds \ moved :
        integrations[p] # Unknown => pipedream[p] \in {Bucket(integrations[p]), Revoked}
    /\ \A q \in Serving :
        LET w == serving[q]
        IN  /\ w.phase # "idle" => pipedream[w.account] # Unknown
            /\ w.phase = "find" =>
                  pipedream[w.account] \in {resolveExternalUserId(w.by, w.level), Revoked}
            /\ w.phase = "save" /\ w.account \notin moved =>
                  pipedream[w.account] \in {Bucket(w.row), Revoked}

GoneForGood ==
    \A p \in AccountIds \ loose :
        /\ p \in dropped => pipedream[p] = Revoked /\ integrations[p] = Unknown
        /\ \A q \in Serving : serving[q].account = p /\ serving[q].phase = "remove" => pipedream[p] = Revoked
        /\ pipedream[p] = Revoked /\ integrations[p] # Unknown =>
              \E q \in Serving : serving[q].account = p /\ serving[q].phase = "remove"
        /\ pipedream[p] = Revoked /\ integrations[p] = Unknown =>
              \A q \in Serving : serving[q].account = p /\ serving[q].phase \in {"find", "save"}
                                    => serving[q].stale

AppsTyped ==
    /\ AppAccountsTypeOK
    /\ \A q \in Serving : AboutAccount(serving[q])

AppsInv == AppsTyped /\ RowsFit /\ GoneForGood

(* A request goes on; the others at most become out of date. *)
Moves(q, next, p, changed) ==
    /\ serving' \in [Serving -> Serve]
    /\ \A r \in Serving : AboutAccount(serving'[r])
    /\ serving'[q] = next
    /\ \A r \in Serving \ {q} :
        /\ serving'[r].phase = serving[r].phase /\ serving'[r].account = serving[r].account
        /\ serving'[r].by = serving[r].by /\ serving'[r].level = serving[r].level
        /\ serving'[r].row = serving[r].row
        /\ serving[r].stale => serving'[r].stale
        /\ changed /\ serving[r].account = p => serving'[r].stale

LEMMA ServesOnMoves ==
    ASSUME AppsTyped, NEW q \in Serving, NEW next \in Serve, AboutAccount(next),
           NEW p, NEW changed \in BOOLEAN, ServesOn(q, next, p, changed)
    PROVE  Moves(q, next, p, changed)
<1>1. serving \in [Serving -> Serve]
  BY DEF AppsTyped, AppAccountsTypeOK, Serve
<1> DEFINE late(r) == serving[r].stale \/ (changed /\ serving[r].account = p)
<1>2. serving' = [r \in Serving |->
          IF r = q THEN next ELSE [serving[r] EXCEPT !.stale = late(r)]]
  BY DEF ServesOn
<1>3. serving'[q] = next
  BY <1>2
<1>4. ASSUME NEW r \in Serving \ {q}
      PROVE  /\ serving'[r].phase = serving[r].phase /\ serving'[r].account = serving[r].account
             /\ serving'[r].by = serving[r].by /\ serving'[r].level = serving[r].level
             /\ serving'[r].row = serving[r].row /\ serving'[r].stale = late(r)
             /\ serving'[r] \in Serve
  <2>1. serving[r] \in Serve /\ late(r) \in BOOLEAN
    BY <1>1 DEF Serve
  <2>2. serving'[r] = [serving[r] EXCEPT !.stale = late(r)]
    BY <1>2
  <2> HIDE DEF late
  <2> QED  BY <2>1, <2>2 DEF Serve
<1>5. \A r \in Serving : serving'[r] \in Serve
  BY <1>3, <1>4
<1>6. serving' \in [Serving -> Serve]
  <2> HIDE DEF late
  <2> QED  BY <1>2, <1>5
<1>7. \A r \in Serving : AboutAccount(serving'[r])
  BY <1>3, <1>4 DEF AboutAccount, AppsTyped
<1>8. \A r \in Serving \ {q} :
        /\ serving[r].stale => serving'[r].stale
        /\ changed /\ serving[r].account = p => serving'[r].stale
  BY <1>4
<1> HIDE DEF late
<1> QED  BY <1>3, <1>4, <1>6, <1>7, <1>8 DEF Moves

LEMMA UnoccupiedServes == Unoccupied \in Serve /\ Unoccupied.phase = "idle" /\ AboutAccount(Unoccupied)
BY DEF Unoccupied, Serve, Levels, AboutAccount

(* A request that starts, or goes on to save, without anything else changing. *)
LEMMA ServesFurther ==
    ASSUME AppsInv, NEW q \in Serving, NEW next \in Serve, AboutAccount(next), NEW p \in AccountIds,
           ServesOn(q, next, p, FALSE),
           UNCHANGED <<pipedream, integrations, loose, dropped>>,
           moved \subseteq moved', moved' \subseteq AccountIds,
           next.account = p, next.phase \in {"find", "save"}, pipedream[p] # Unknown,
           serving[q].phase # "remove",
           next.phase = "find" => pipedream[p] \in {resolveExternalUserId(next.by, next.level), Revoked},
           next.phase = "save" /\ p \notin moved' => pipedream[p] \in {Bucket(next.row), Revoked},
           pipedream[p] = Revoked /\ integrations[p] = Unknown => next.stale \/ p \in loose
    PROVE  AppsInv'
<1>1. AppsTyped'
  BY ServesOnMoves DEF AppsInv, AppsTyped, AppAccountsTypeOK, Serve, Moves
<1>2. Moves(q, next, p, FALSE)
  BY ServesOnMoves DEF AppsInv
<1>3. RowsFit'
  BY <1>2 DEF AppsInv, RowsFit, Bucket, resolveExternalUserId, AppsTyped, AboutAccount, Moves
<1>4. GoneForGood'
  BY <1>2 DEF AppsInv, GoneForGood, Moves
<1> QED  BY <1>1, <1>3, <1>4 DEF AppsInv

LEMMA ConnectAccountInv ==
    ASSUME AppsInv, NEW m \in Owners, NEW level \in Levels, NEW p \in AccountIds,
           ConnectAccount(m, level, p)
    PROVE  AppsInv'
<1> USE BucketsAssumption
<1>1. /\ pipedream[p] = Unknown
      /\ pipedream' = [pipedream EXCEPT ![p] = resolveExternalUserId(m, level)]
      /\ UNCHANGED <<integrations, serving, moved, loose, dropped>>
  BY DEF ConnectAccount
<1>2. resolveExternalUserId(m, level) \in Owners \cup {Workspace}
  BY DEF resolveExternalUserId
<1>3. integrations[p] = Unknown /\ \A q \in Serving : serving[q].phase # "idle" => serving[q].account # p
  BY <1>1 DEF AppsInv, RowsFit, AppsTyped, AboutAccount
<1>4. AppsTyped'
  BY <1>1, <1>2 DEF AppsInv, AppsTyped, AppAccountsTypeOK, AboutAccount
<1>5. /\ pipedream'[p] \notin {Unknown, Revoked}
      /\ \A r \in AccountIds \ {p} : pipedream'[r] = pipedream[r]
  BY <1>1, <1>2 DEF AppsInv, AppsTyped, AppAccountsTypeOK
<1>6. RowsFit'
  BY <1>1, <1>3, <1>5 DEF AppsInv, RowsFit, Bucket, resolveExternalUserId, AppsTyped, AboutAccount
<1>7. GoneForGood'
  BY <1>1, <1>3, <1>5 DEF AppsInv, GoneForGood
<1> QED  BY <1>4, <1>6, <1>7 DEF AppsInv

LEMMA StartsServing ==
    ASSUME AppsInv, NEW q \in Serving, NEW p \in AccountIds, NEW m \in Owners, NEW level \in Levels,
           NEW active \in BOOLEAN,
           ConfirmConnection(q, m, level, p) \/ UpdateAccount(q, p, level, active)
    PROVE  AppsInv'
<1> USE BucketsAssumption
<1>1. CASE ConfirmConnection(q, m, level, p)
  <2> DEFINE next == [Unoccupied EXCEPT !.phase = "find", !.account = p, !.by = m, !.level = level]
  <2>1. /\ next \in Serve /\ AboutAccount(next) /\ next.account = p /\ next.phase = "find"
        /\ next.by = m /\ next.level = level
    BY UnoccupiedServes DEF Serve, AboutAccount
  <2>2. ServesOn(q, next, p, FALSE) /\ pipedream[p] = resolveExternalUserId(m, level)
    BY <1>1 DEF ConfirmConnection, AccountFound
  <2>3. pipedream[p] \notin {Unknown, Revoked}
    BY <2>2 DEF resolveExternalUserId
  <2> HIDE DEF next
  <2>4. /\ UNCHANGED <<pipedream, integrations, moved, loose, dropped>> /\ serving[q].phase = "idle"
        /\ moved \subseteq AccountIds
    BY <1>1 DEF ConfirmConnection, AppsInv, AppsTyped, AppAccountsTypeOK
  <2> QED  BY <2>1, <2>2, <2>3, <2>4, ServesFurther
<1>2. CASE UpdateAccount(q, p, level, active)
  <2> DEFINE row == [integrations[p] EXCEPT !.accessLevel = level, !.isActive = active]
             next == [Unoccupied EXCEPT !.phase = "save", !.account = p, !.found = TRUE, !.row = row]
  <2>1. /\ integrations[p] \in Row /\ integrations[p] # Unknown /\ serving[q].phase = "idle"
        /\ ServesOn(q, next, p, FALSE)
        /\ moved' = IF level # integrations[p].accessLevel THEN moved \cup {p} ELSE moved
        /\ UNCHANGED <<pipedream, integrations, loose, dropped>>
    BY <1>2 DEF UpdateAccount, AppsInv, AppsTyped, AppAccountsTypeOK
  <2>2. row \in Row /\ row.userId = integrations[p].userId /\ row.accessLevel = level
    BY <2>1 DEF Row
  <2> HIDE DEF row
  <2>3. /\ next \in Serve /\ AboutAccount(next) /\ next.account = p /\ next.phase = "save"
        /\ next.row = row
    BY <2>2, UnoccupiedServes DEF Serve, AboutAccount
  <2> HIDE DEF next
  <2>4. pipedream[p] # Unknown
    BY <2>1 DEF AppsInv, RowsFit
  <2>5. p \notin moved' => pipedream[p] \in {Bucket(row), Revoked}
    BY <2>1, <2>2 DEF AppsInv, RowsFit, Bucket
  <2>6. moved \subseteq moved' /\ moved' \subseteq AccountIds
    BY <2>1 DEF AppsInv, AppsTyped, AppAccountsTypeOK
  <2> QED  BY <2>1, <2>3, <2>4, <2>5, <2>6, ServesFurther
<1> QED  BY <1>1, <1>2

LEMMA FindConnectionInv ==
    ASSUME AppsInv, NEW q \in Serving, NEW healthy \in BOOLEAN, FindConnection(q, healthy)
    PROVE  AppsInv'
<1> USE BucketsAssumption
<1> DEFINE w == serving[q]
           p == w.account
           known == integrations[p] # Unknown
           owner == IF known THEN integrations[p].userId ELSE w.by
           row == [userId |-> owner, accessLevel |-> w.level, isActive |-> healthy]
           next == [w EXCEPT !.phase = "save", !.found = known, !.row = row]
<1>1. w.phase = "find" /\ ServesOn(q, next, p, FALSE) /\ UNCHANGED <<pipedream, integrations, moved, loose, dropped>>
  BY DEF FindConnection
<1>2. /\ w \in Serve /\ p \in AccountIds /\ w.by \in Owners /\ known \in BOOLEAN
      /\ integrations[p] \in Row \cup {Unknown} /\ moved \subseteq AccountIds
  BY <1>1 DEF AppsInv, AppsTyped, AppAccountsTypeOK, AboutAccount, Serve
<1> HIDE DEF known
<1>3. row \in Row /\ row.userId = owner /\ row.accessLevel = w.level
  BY <1>2 DEF Row, Serve, known
<1>4. /\ pipedream[p] # Unknown
      /\ pipedream[p] \in {resolveExternalUserId(w.by, w.level), Revoked}
  BY <1>1 DEF AppsInv, RowsFit
<1>5. p \notin moved => pipedream[p] \in {Bucket(row), Revoked}
  <2>1. CASE ~known
    BY <1>3, <1>4, <2>1 DEF Bucket
  <2>2. CASE known /\ w.level = "team"
    BY <1>3, <1>4, <2>2 DEF Bucket, resolveExternalUserId
  <2>3. CASE known /\ w.level = "private" /\ p \notin moved /\ pipedream[p] # Revoked
    <3>1. pipedream[p] = w.by
      BY <1>4, <2>3 DEF resolveExternalUserId
    <3>2. pipedream[p] = Bucket(integrations[p]) /\ integrations[p] \in Row
      BY <1>2, <2>3 DEF AppsInv, RowsFit, known
    <3>3. integrations[p].userId = w.by
      BY <1>2, <3>1, <3>2 DEF Bucket, resolveExternalUserId
    <3> QED  BY <1>3, <2>3, <3>1, <3>3 DEF Bucket, resolveExternalUserId
  <2> QED  BY <1>2, <2>1, <2>2, <2>3 DEF Serve, Levels
<1> HIDE DEF row
<1>6. /\ next \in Serve /\ AboutAccount(next) /\ next.account = p /\ next.phase = "save"
      /\ next.row = row /\ next.stale = w.stale
  BY <1>2, <1>3 DEF Serve, AboutAccount
<1>7. pipedream[p] = Revoked /\ integrations[p] = Unknown => w.stale \/ p \in loose
  BY <1>1, <1>2 DEF AppsInv, GoneForGood
<1> HIDE DEF next, w
<1> QED  BY <1>1, <1>2, <1>4, <1>5, <1>6, <1>7, ServesFurther DEF w

LEMMA SaveAccountInv ==
    ASSUME AppsInv, NEW q \in Serving, SaveAccount(q)
    PROVE  AppsInv'
<1> USE BucketsAssumption
<1> DEFINE p == serving[q].account
           refused == ~serving[q].found /\ integrations[p] # Unknown
<1>1. /\ serving[q].phase = "save" /\ p \in AccountIds /\ serving[q].row \in Row
      /\ integrations' = IF refused THEN integrations ELSE [integrations EXCEPT ![p] = serving[q].row]
      /\ loose' = IF serving[q].stale THEN loose \cup {p} ELSE loose
      /\ ServesOn(q, Unoccupied, p, ~refused)
      /\ UNCHANGED <<pipedream, moved, dropped>>
  BY DEF SaveAccount, Loosens, AppsInv, AppsTyped, AboutAccount
<1>2. refused \in BOOLEAN
  OBVIOUS
<1> HIDE DEF refused
<1>3. Moves(q, Unoccupied, p, ~refused) /\ Unoccupied.phase = "idle"
  BY <1>1, <1>2, ServesOnMoves, UnoccupiedServes DEF AppsInv
<1>4. /\ \A r \in AccountIds \ {p} : integrations'[r] = integrations[r]
      /\ integrations'[p] = integrations[p] \/ integrations'[p] = serving[q].row
      /\ integrations' \in [AccountIds -> Row \cup {Unknown}]
      /\ loose \subseteq loose' /\ loose' \subseteq AccountIds
      /\ p \notin loose' => ~serving[q].stale
  BY <1>1 DEF AppsInv, AppsTyped, AppAccountsTypeOK
<1>5. AppsTyped'
  BY <1>1, <1>3, <1>4 DEF AppsInv, AppsTyped, AppAccountsTypeOK, Serve, Moves
<1>6. RowsFit'
  <2>1. pipedream[p] # Unknown /\ (p \notin moved => pipedream[p] \in {Bucket(serving[q].row), Revoked})
    BY <1>1 DEF AppsInv, RowsFit
  <2> QED  BY <1>1, <1>3, <1>4, <2>1 DEF AppsInv, RowsFit, Bucket, resolveExternalUserId, Moves
<1>7. GoneForGood'
  <2> SUFFICES ASSUME NEW r \in AccountIds \ loose'  PROVE GoneForGood!(r)'
    BY DEF GoneForGood
  <2>1. r \notin loose /\ GoneForGood!(r)
    BY <1>4 DEF AppsInv, GoneForGood
  <2>2. CASE r # p
    BY <1>1, <1>3, <1>4, <2>1, <2>2 DEF Moves
  <2>3. CASE r = p
    <3>1. ~(pipedream[p] = Revoked /\ integrations[p] = Unknown)
      BY <1>1, <1>4, <2>1, <2>3
    <3>2. p \notin dropped
      BY <2>1, <2>3, <3>1
    <3>3. integrations'[p] = Unknown => integrations[p] = Unknown
      BY <1>1, <1>4
    <3> QED  BY <1>1, <1>3, <2>1, <2>3, <3>1, <3>2, <3>3 DEF Moves
  <2> QED  BY <2>2, <2>3
<1> QED  BY <1>5, <1>6, <1>7 DEF AppsInv

LEMMA DisconnectAccountInv ==
    ASSUME AppsInv, NEW q \in Serving, NEW p \in AccountIds, DisconnectAccount(q, p)
    PROVE  AppsInv'
<1> DEFINE next == [Unoccupied EXCEPT !.phase = "revoke", !.account = p]
<1>1. /\ serving[q].phase = "idle" /\ integrations[p] # Unknown /\ ServesOn(q, next, p, TRUE)
      /\ UNCHANGED <<pipedream, integrations, moved, loose, dropped>>
  BY DEF DisconnectAccount
<1>2. /\ next \in Serve /\ AboutAccount(next) /\ next.account = p /\ next.phase = "revoke"
  BY UnoccupiedServes DEF Serve, AboutAccount
<1> HIDE DEF next
<1>3. AppsTyped'
  BY <1>1, <1>2, ServesOnMoves DEF AppsInv, AppsTyped, AppAccountsTypeOK, Serve, Moves
<1>4. Moves(q, next, p, TRUE)
  BY <1>1, <1>2, ServesOnMoves DEF AppsInv
<1>5. pipedream[p] # Unknown
  BY <1>1 DEF AppsInv, RowsFit
<1>6. RowsFit'
  BY <1>1, <1>2, <1>4, <1>5 DEF AppsInv, RowsFit, Bucket, resolveExternalUserId, Moves
<1>7. GoneForGood'
  BY <1>1, <1>2, <1>4 DEF AppsInv, GoneForGood, Moves
<1> QED  BY <1>3, <1>6, <1>7 DEF AppsInv

LEMMA RevokeAtPipedreamInv ==
    ASSUME AppsInv, NEW q \in Serving, NEW answered \in BOOLEAN, RevokeAtPipedream(q, answered)
    PROVE  AppsInv'
<1> USE BucketsAssumption
<1> DEFINE p == serving[q].account
           next == [serving[q] EXCEPT !.phase = "remove"]
<1>1. /\ serving[q].phase = "revoke" /\ p \in AccountIds /\ serving[q] \in Serve
      /\ ServesOn(q, next, p, TRUE) /\ UNCHANGED <<integrations, moved, dropped>>
      /\ \/ pipedream' = [pipedream EXCEPT ![p] = Revoked] /\ UNCHANGED loose
         \/ UNCHANGED pipedream /\ loose' = loose \cup {p}
  BY DEF RevokeAtPipedream, AppsInv, AppsTyped, AboutAccount, AppAccountsTypeOK, Serve
<1>2. next \in Serve /\ AboutAccount(next) /\ next.account = p /\ next.phase = "remove"
  BY <1>1 DEF Serve, AboutAccount
<1> HIDE DEF next
<1>3. Moves(q, next, p, TRUE)
  BY <1>1, <1>2, ServesOnMoves DEF AppsInv
<1>4. /\ \A r \in AccountIds \ {p} : pipedream'[r] = pipedream[r]
      /\ pipedream'[p] \in {pipedream[p], Revoked} /\ (p \notin loose' => pipedream'[p] = Revoked)
      /\ pipedream' \in [AccountIds -> Owners \cup {Workspace, Unknown, Revoked}]
      /\ loose \subseteq loose' /\ loose' \subseteq AccountIds
  BY <1>1 DEF AppsInv, AppsTyped, AppAccountsTypeOK
<1>5. AppsTyped'
  BY <1>1, <1>3, <1>4 DEF AppsInv, AppsTyped, AppAccountsTypeOK, Serve, Moves
<1>6. RowsFit'
  <2>1. \A r \in AccountIds : pipedream'[r] = pipedream[r] \/ (pipedream'[r] = Revoked /\ pipedream[r] # Unknown)
    BY <1>1, <1>4 DEF AppsInv, RowsFit
  <2> QED  BY <1>1, <1>2, <1>3, <2>1 DEF AppsInv, RowsFit, Bucket, resolveExternalUserId, AppsTyped, AboutAccount, Moves
<1>7. GoneForGood'
  <2> SUFFICES ASSUME NEW r \in AccountIds \ loose'  PROVE GoneForGood!(r)'
    BY DEF GoneForGood
  <2>1. r \notin loose /\ GoneForGood!(r)
    BY <1>4 DEF AppsInv, GoneForGood
  <2>2. CASE r # p
    BY <1>1, <1>2, <1>3, <1>4, <2>1, <2>2 DEF Moves
  <2>3. CASE r = p
    BY <1>1, <1>2, <1>3, <1>4, <2>1, <2>3 DEF Moves
  <2> QED  BY <2>2, <2>3
<1> QED  BY <1>5, <1>6, <1>7 DEF AppsInv

LEMMA RemoveRowInv ==
    ASSUME AppsInv, NEW q \in Serving, RemoveRow(q)
    PROVE  AppsInv'
<1> USE BucketsAssumption
<1> DEFINE p == serving[q].account
<1>1. /\ serving[q].phase = "remove" /\ p \in AccountIds
      /\ integrations' = [integrations EXCEPT ![p] = Unknown] /\ dropped' = dropped \cup {p}
      /\ ServesOn(q, Unoccupied, p, TRUE) /\ UNCHANGED <<pipedream, moved, loose>>
  BY DEF RemoveRow, AppsInv, AppsTyped, AboutAccount
<1>2. Moves(q, Unoccupied, p, TRUE) /\ Unoccupied.phase = "idle"
  BY <1>1, ServesOnMoves, UnoccupiedServes DEF AppsInv
<1>3. /\ \A r \in AccountIds \ {p} : integrations'[r] = integrations[r]
      /\ integrations'[p] = Unknown /\ integrations' \in [AccountIds -> Row \cup {Unknown}]
      /\ dropped' \subseteq AccountIds
  BY <1>1 DEF AppsInv, AppsTyped, AppAccountsTypeOK
<1>4. AppsTyped'
  BY <1>1, <1>2, <1>3 DEF AppsInv, AppsTyped, AppAccountsTypeOK, Serve, Moves
<1>5. RowsFit'
  BY <1>1, <1>2, <1>3 DEF AppsInv, RowsFit, Bucket, resolveExternalUserId, Moves
<1>6. GoneForGood'
  <2> SUFFICES ASSUME NEW r \in AccountIds \ loose'  PROVE GoneForGood!(r)'
    BY DEF GoneForGood
  <2>1. r \notin loose /\ GoneForGood!(r)
    BY <1>1 DEF AppsInv, GoneForGood
  <2>2. CASE r # p
    BY <1>1, <1>2, <1>3, <2>1, <2>2 DEF Moves
  <2>3. CASE r = p
    BY <1>1, <1>2, <1>3, <2>1, <2>3 DEF Moves
  <2> QED  BY <2>2, <2>3
<1> QED  BY <1>4, <1>5, <1>6 DEF AppsInv

LEMMA ServerDiesInv ==
    ASSUME AppsInv, NEW q \in Serving, ServerDies(q)
    PROVE  AppsInv'
<1> USE BucketsAssumption
<1>1. /\ serving[q].phase # "idle" /\ serving[q].account \in AccountIds
      /\ loose' = IF serving[q].phase = "remove" THEN loose \cup {serving[q].account} ELSE loose
      /\ serving' = [serving EXCEPT ![q] = Unoccupied]
      /\ UNCHANGED <<pipedream, integrations, moved, dropped>>
  BY DEF ServerDies, AppsInv, AppsTyped, AboutAccount
<1>2. /\ serving \in [Serving -> Serve] /\ serving' \in [Serving -> Serve]
      /\ serving'[q] = Unoccupied /\ \A r \in Serving \ {q} : serving'[r] = serving[r]
      /\ loose \subseteq loose' /\ loose' \subseteq AccountIds
  BY <1>1, UnoccupiedServes DEF AppsInv, AppsTyped, AppAccountsTypeOK, Serve
<1>3. AppsTyped'
  BY <1>1, <1>2, UnoccupiedServes DEF AppsInv, AppsTyped, AppAccountsTypeOK, Serve
<1>4. RowsFit'
  BY <1>1, <1>2, UnoccupiedServes DEF AppsInv, RowsFit, Bucket, resolveExternalUserId
<1>5. GoneForGood'
  BY <1>1, <1>2, UnoccupiedServes DEF AppsInv, GoneForGood
<1> QED  BY <1>3, <1>4, <1>5 DEF AppsInv

LEMMA AppsStep == AppsInv /\ [AppAccountsNext]_accountsVars => AppsInv'
<1> SUFFICES ASSUME AppsInv, [AppAccountsNext]_accountsVars  PROVE AppsInv'
  OBVIOUS
<1>1. CASE UNCHANGED accountsVars
  BY <1>1 DEF accountsVars, AppsInv, AppsTyped, AppAccountsTypeOK, AboutAccount, RowsFit, Bucket,
     resolveExternalUserId, GoneForGood
<1>2. ASSUME NEW p \in AccountIds, NEW level \in Levels, NEW m \in Owners, ConnectAccount(m, level, p)
      PROVE  AppsInv'
  BY <1>2, ConnectAccountInv
<1>3. ASSUME NEW p \in AccountIds, NEW level \in Levels, NEW m \in Owners, NEW q \in Serving,
             ConfirmConnection(q, m, level, p)
      PROVE  AppsInv'
  BY <1>3, StartsServing
<1>4. ASSUME NEW p \in AccountIds, NEW level \in Levels, NEW q \in Serving, NEW active \in BOOLEAN,
             UpdateAccount(q, p, level, active)
      PROVE  AppsInv'
  <2>1. PICK m \in Owners : TRUE
    <3>1. integrations[p] \in Row
      BY <1>4 DEF UpdateAccount, AppsInv, AppsTyped, AppAccountsTypeOK
    <3> QED  BY <3>1 DEF Row
  <2> QED  BY <1>4, <2>1, StartsServing
<1>5. ASSUME NEW q \in Serving, NEW healthy \in BOOLEAN, FindConnection(q, healthy)  PROVE AppsInv'
  BY <1>5, FindConnectionInv
<1>6. ASSUME NEW q \in Serving, NEW p \in AccountIds, DisconnectAccount(q, p)  PROVE AppsInv'
  BY <1>6, DisconnectAccountInv
<1>7. ASSUME NEW q \in Serving, NEW answered \in BOOLEAN, RevokeAtPipedream(q, answered)  PROVE AppsInv'
  BY <1>7, RevokeAtPipedreamInv
<1>8. ASSUME NEW q \in Serving, SaveAccount(q) \/ RemoveRow(q) \/ ServerDies(q)  PROVE AppsInv'
  BY <1>8, SaveAccountInv, RemoveRowInv, ServerDiesInv
<1> QED  BY <1>1, <1>2, <1>3, <1>4, <1>5, <1>6, <1>7, <1>8 DEF AppAccountsNext

LEMMA InitAppsInv == AppAccountsInit => AppsInv
BY UnoccupiedServes DEF AppAccountsInit, AppsInv, AppsTyped, AppAccountsTypeOK, Serve, RowsFit, GoneForGood

THEOREM AppsInvariant == AppAccountsSpec => []AppsInv
BY InitAppsInv, AppsStep, PTL DEF AppAccountsSpec

LEMMA PrivateByBucket == AppsInv => PrivateStaysPrivate
<1> SUFFICES ASSUME AppsInv, NEW m \in Owners \cup {System}, NEW p \in AccountIds \ moved
             PROVE  PrivateStaysPrivate!(m, p)
  BY DEF PrivateStaysPrivate
<1> USE BucketsAssumption
<1>1. integrations[p] \in Row \cup {Unknown} /\ (integrations[p] # Unknown => pipedream[p] \in {Bucket(integrations[p]), Revoked})
  BY DEF AppsInv, AppsTyped, AppAccountsTypeOK, RowsFit
<1>2. \A n : p \in Usable(n) => pipedream[p] = Workspace \/ (n # System /\ pipedream[p] = n)
  BY DEF Usable, buildMcpServers, resolveExternalUserId
<1>3. CASE integrations[p] = Unknown
  BY <1>3 DEF Connected, Visible
<1>4. CASE integrations[p] # Unknown /\ integrations[p].accessLevel = "team"
  <2>1. p \in Connected(m) => resolveExternalUserId(m, "team") \in buildMcpServers(m)
    BY <1>4 DEF buildMcpServers, Levels
  <2>2. pipedream[p] \in {Workspace, Revoked} /\ resolveExternalUserId(m, "team") = Workspace
    BY <1>1, <1>4 DEF Bucket, resolveExternalUserId
  <2> QED  BY <1>4, <2>1, <2>2 DEF Usable
<1>5. CASE integrations[p] # Unknown /\ integrations[p].accessLevel = "private"
  <2>1. integrations[p].userId \in Owners /\ pipedream[p] \in {integrations[p].userId, Revoked}
    BY <1>1, <1>5 DEF Row, Bucket, resolveExternalUserId
  <2>2. p \in Connected(m) => m # System /\ integrations[p].userId = m
    BY <1>5, <2>1 DEF Connected, Visible
  <2>3. p \in Connected(m) => resolveExternalUserId(m, "private") \in buildMcpServers(m)
    BY <1>5, <2>2 DEF buildMcpServers, Levels
  <2>4. p \in Usable(m) => integrations[p].userId = m
    BY <1>2, <2>1
  <2>5. p \notin Usable(System)
    BY <1>2, <2>1
  <2> QED  BY <2>1, <2>2, <2>3, <2>4, <2>5 DEF Usable, resolveExternalUserId
<1> QED  BY <1>1, <1>3, <1>4, <1>5 DEF Row, Levels

LEMMA GoneOnBothSides == AppsInv => DisconnectedIsGone
BY DEF AppsInv, GoneForGood, DisconnectedIsGone

(* The accounts a run is told of are accounts it can use, and none it can use *)
(* is a private one of somebody else, however connecting, editing and         *)
(* disconnecting overlap (buildMcpServers), as long as no level was edited.   *)
THEOREM PrivateAccounts == AppAccountsSpec => []PrivateStaysPrivate
BY AppsInvariant, PrivateByBucket, PTL

(* A disconnected account is gone on both sides, and one with a row is still  *)
(* at Pipedream, unless the disconnection overlapped a save, was cut short or *)
(* got no answer (disconnect).                                                *)
THEOREM DisconnectionsEnd == AppAccountsSpec => []DisconnectedIsGone
BY AppsInvariant, GoneOnBothSides, PTL

-----------------------------------------------------------------------------
(* Bug reports.  A triage works on a copy, and the save writes the columns in *)
(* which the copy differs from what it has just read: when the row is still   *)
(* what was read, that amounts to writing the copy.  So it is enough that the *)
(* copies agree with themselves.                                              *)

Bug == [status : BugStatuses, resolvedAt : 0..MaxStamps]
Triage == [pc : {"unused", "found", "loaded"}, bug : BugIds \cup {NoBug},
           copy : Bug \cup {NoBug}, loaded : Bug \cup {NoBug}]

Agrees(row) == row.status \in Closed <=> row.resolvedAt # Unstamped

BugsTyped ==
    /\ bugs \in [BugIds -> Bug \cup {NoBug}]
    /\ triage \in [Triages -> Triage]
    /\ stamps \in 0..MaxStamps
    /\ crossed \subseteq BugIds

(* A triage has a copy of a report that is there, of a report that agreed. *)
CopiesAgree ==
    \A q \in Triages : triage[q].pc # "unused" =>
        /\ triage[q].bug \in BugIds /\ bugs[triage[q].bug] \in Bug
        /\ triage[q].copy \in Bug
        /\ triage[q].pc = "loaded" => triage[q].loaded \in Bug
        /\ triage[q].bug \in crossed \/ Agrees(triage[q].copy)

BugsInv ==
    /\ BugsTyped
    /\ CopiesAgree
    /\ \A b \in BugIds \ crossed : bugs[b] \in Bug => Agrees(bugs[b])

LEMMA StampedAgrees ==
    ASSUME NEW row \in Bug, NEW status \in BugStatuses, NEW clock \in 1..MaxStamps
    PROVE  LET copy == [status |-> status, resolvedAt |-> Stamped(row, status, clock)]
           IN  copy \in Bug /\ Agrees(copy)
BY NoBugAssumption DEF Bug, Agrees, Stamped, Unstamped

LEMMA BugsStep == BugsInv /\ [BugsNext]_bugVars => BugsInv'
<1> SUFFICES ASSUME BugsInv, [BugsNext]_bugVars  PROVE BugsInv'
  OBVIOUS
<1> USE NoBugAssumption
<1>0. NoBug \notin Bug
  BY DEF Bug
<1>1. CASE UNCHANGED bugVars
  BY <1>1 DEF bugVars, BugsInv, BugsTyped, CopiesAgree, Agrees
<1>2. ASSUME NEW b \in BugIds, FileBug(b)  PROVE BugsInv'
  <2> DEFINE new == [status |-> "open", resolvedAt |-> Unstamped]
  <2>1. new \in Bug /\ Agrees(new)
    BY DEF Bug, Agrees, BugStatuses, Closed, Unstamped
  <2> HIDE DEF new
  <2>2. bugs' = [bugs EXCEPT ![b] = new] /\ UNCHANGED <<triage, stamps, crossed>> /\ bugs[b] = NoBug
    BY <1>2 DEF FileBug, new
  <2> QED  BY <1>0, <2>1, <2>2 DEF BugsInv, BugsTyped, CopiesAgree
<1>3. ASSUME NEW q \in Triages, NEW b \in BugIds, FindBug(q, b) \/ NoteBug(q, b)  PROVE BugsInv'
  <2>1. /\ bugs[b] \in Bug /\ UNCHANGED <<bugs, crossed>>
        /\ stamps' \in 0..MaxStamps
        /\ b \in crossed \/ Agrees(bugs[b])
    BY <1>3 DEF FindBug, NoteBug, BugsInv, BugsTyped
  <2>2. PICK copy \in Bug :
            /\ triage' = [triage EXCEPT ![q] = [pc |-> "found", bug |-> b, loaded |-> NoBug, copy |-> copy]]
            /\ b \in crossed \/ Agrees(copy)
    <3>1. CASE NoteBug(q, b)
      BY <2>1, <3>1 DEF NoteBug
    <3>2. CASE FindBug(q, b)
      <4>1. PICK status \in BugStatuses :
                /\ stamps < MaxStamps
                /\ triage' = [triage EXCEPT ![q] = [pc |-> "found", bug |-> b, loaded |-> NoBug,
                     copy |-> [status |-> status, resolvedAt |-> Stamped(bugs[b], status, stamps + 1)]]]
        BY <3>2 DEF FindBug
      <4>2. stamps + 1 \in 1..MaxStamps
        BY <4>1 DEF BugsInv, BugsTyped
      <4> QED  BY <2>1, <4>1, <4>2, StampedAgrees
    <3> QED  BY <1>3, <3>1, <3>2
  <2> QED  BY <1>0, <2>1, <2>2 DEF BugsInv, BugsTyped, CopiesAgree, Triage
<1>4. ASSUME NEW q \in Triages, LoadBug(q)  PROVE BugsInv'
  <2>1. /\ UNCHANGED <<bugs, stamps, crossed>> /\ triage[q].pc = "found"
        /\ triage' = [triage EXCEPT ![q] = [@ EXCEPT !.pc = "loaded", !.loaded = bugs[triage[q].bug]]]
    BY <1>4 DEF LoadBug, BugsInv, BugsTyped, Triage
  <2>2. triage[q] \in Triage /\ triage[q].bug \in BugIds /\ bugs[triage[q].bug] \in Bug
    BY <2>1 DEF BugsInv, BugsTyped, CopiesAgree
  <2> QED  BY <2>1, <2>2 DEF BugsInv, BugsTyped, CopiesAgree, Triage
<1>5. ASSUME NEW q \in Triages, SaveBug(q)  PROVE BugsInv'
  <2> DEFINE t == triage[q]
             new == [status |-> IF t.copy.status # t.loaded.status THEN t.copy.status
                                ELSE bugs[t.bug].status,
                     resolvedAt |-> IF t.copy.resolvedAt # t.loaded.resolvedAt THEN t.copy.resolvedAt
                                    ELSE bugs[t.bug].resolvedAt]
  <2>1. /\ t.pc = "loaded" /\ bugs' = [bugs EXCEPT ![t.bug] = new]
        /\ crossed' = IF bugs[t.bug] = t.loaded THEN crossed ELSE crossed \cup {t.bug}
        /\ triage' = [triage EXCEPT ![q] = NoTriage] /\ UNCHANGED stamps
    BY <1>5 DEF SaveBug
  <2>2. /\ t.bug \in BugIds /\ bugs[t.bug] \in Bug /\ t.copy \in Bug /\ t.loaded \in Bug
        /\ t.bug \in crossed \/ Agrees(t.copy)
    BY <2>1 DEF BugsInv, CopiesAgree
  <2>3. new \in Bug
    BY <2>2 DEF Bug
  <2>4. bugs[t.bug] = t.loaded => new = t.copy
    BY <2>2 DEF Bug
  <2>5. NoTriage \in Triage /\ NoTriage.pc = "unused"
    BY DEF NoTriage, Triage
  <2> HIDE DEF new, t
  <2>6. crossed \subseteq crossed' /\ crossed' \subseteq BugIds
    BY <2>1, <2>2 DEF BugsInv, BugsTyped
  <2>7. t.bug \in crossed' \/ Agrees(new)
    BY <2>1, <2>2, <2>4
  <2> QED  BY <2>1, <2>2, <2>3, <2>5, <2>6, <2>7 DEF BugsInv, BugsTyped, CopiesAgree
<1> QED  BY <1>1, <1>2, <1>3, <1>4, <1>5 DEF BugsNext

LEMMA InitBugsInv == BugsInit => BugsInv
BY NoBugAssumption DEF BugsInit, BugsInv, BugsTyped, CopiesAgree, NoTriage, Triage, Bug

LEMMA BugsAgree == BugsInv => ClosedIffStamped
BY DEF BugsInv, BugsTyped, ClosedIffStamped, Agrees

(* Triages that overlap never leave a report closed without a time of         *)
(* resolution, or open with one, unless a save met a row other than the one   *)
(* it had read (updateBugReport).                                             *)
THEOREM ClosedMeansStamped == BugsSpec => []ClosedIffStamped
BY InitBugsInv, BugsAgree, BugsStep, PTL DEF BugsSpec

-----------------------------------------------------------------------------
(* Seeding.  The field a row is known by is never a reference, so a row is    *)
(* stored under the name it was sent with (LabelKept); a row is never another *)
(* one and is never without what it was once (Lasts), so what a call read of  *)
(* it is part of what it was when its rows are linked (CallInv), and stays so *)
(* (StaysLinked).                                                             *)

LEMMA LeastExists ==
    ASSUME NEW S \in SUBSET Nat, S # {}
    PROVE  LET c == CHOOSE k \in S : \A l \in S : k <= l
           IN  c \in S /\ \A l \in S : c <= l
<1>1. PICK k \in S : \A l \in S : ~(<<l, k>> \in OpToRel(<, Nat))
  BY NatLessThanWellFounded, WFMin
<1>2. ASSUME NEW l \in S  PROVE ~(l < k)
  BY <1>1, Zenon DEF OpToRel
<1>3. \A l \in S : k <= l
  BY <1>2
<1> QED  BY <1>3

(* The names of a spec that was accepted are each of one thing. *)
LEMMA FieldsAreNamed ==
    ASSUME NEW spec \in AppSpecs, validateAppSpec(spec), NEW name, HasEntity(spec, name)
    PROVE  LET fields == EntityOf(spec, name).fields
           IN  /\ DOMAIN fields \subseteq Nat
               /\ \A k \in DOMAIN fields : FieldOf(EntityOf(spec, name), fields[k].name) = fields[k]
<1> DEFINE entity == EntityOf(spec, name)
           fields == entity.fields
<1>1. PICK n \in DOMAIN spec.entities : entity = spec.entities[n]
  BY DEF HasEntity, NamesIn, EntityOf
<1>2. ValidEntity(entity)
  BY <1>1 DEF validateAppSpec
<1>3. fields \in Seq(Range(fields))
  BY <1>1, SeedingAssumption
<1> HIDE DEF entity
<1>4. DOMAIN fields \subseteq Nat
  BY <1>3
<1>5. \A k, l \in DOMAIN fields : fields[k].name = fields[l].name => k = l
  BY <1>2 DEF ValidEntity, Distinctly, IsInjective
<1>6. \A k \in DOMAIN fields : FieldOf(entity, fields[k].name) = fields[k]
  BY <1>5 DEF FieldOf
<1> QED  BY <1>4, <1>6 DEF entity

(* The field a row is known by is not a reference. *)
LEMMA LabelsAreWords ==
    ASSUME NEW spec \in AppSpecs, validateAppSpec(spec), NEW name, HasEntity(spec, name),
           TextFields(EntityOf(spec, name)) # {}
    PROVE  LET label == labelFieldOf(EntityOf(spec, name))
           IN  /\ label \in NamesIn(EntityOf(spec, name).fields)
               /\ FieldOf(EntityOf(spec, name), label).type # "reference"
<1> DEFINE entity == EntityOf(spec, name)
           least == CHOOSE k \in TextFields(entity) : \A l \in TextFields(entity) : k <= l
<1>1. /\ DOMAIN entity.fields \subseteq Nat
      /\ \A k \in DOMAIN entity.fields : FieldOf(entity, entity.fields[k].name) = entity.fields[k]
  BY FieldsAreNamed
<1> HIDE DEF entity
<1>2. TextFields(entity) \in SUBSET Nat /\ TextFields(entity) # {}
  BY <1>1 DEF TextFields, entity
<1>3. least \in TextFields(entity)
  BY <1>2, LeastExists
<1>4. labelFieldOf(entity) = entity.fields[least].name
  BY DEF labelFieldOf
<1> HIDE DEF least
<1> QED  BY <1>1, <1>3, <1>4 DEF TextFields, NamesIn, entity

(* The name of a row, in a table of rows, when its data was this. *)
FitsIn(table, row, j, f, data) ==
    /\ table[j].entity = FieldOf(EntityOf(row.under, row.entity), f).refEntity
    /\ LabelOf(row.under, [entity |-> table[j].entity, data |-> data]) = row.said[f]

LinkedIn(table, i) ==
    table[i].call > 0 /\ table[i].had = {table[i].data} =>
        \A f \in DOMAIN table[i].data : IsReference(table[i].under, table[i], f) =>
            /\ table[i].data[f] \in DOMAIN table
            /\ \E data \in table[table[i].data[f]].had : FitsIn(table, table[i], table[i].data[f], f, data)
            /\ \/ table[table[i].data[f]].call = table[i].call
               \/ \A j \in DOMAIN table :
                     table[j].call = table[i].call => ~FitsIn(table, table[i], j, f, table[j].said)

LEMMA LinkedRows == LinkedAsNamed <=> \A i \in DOMAIN rows : LinkedIn(rows, i)
BY DEF LinkedAsNamed, LinkedIn, FitsIn

(* What a row stays, whatever users do. *)
Lasts(a, b) ==
    /\ b.entity = a.entity /\ b.said = a.said /\ b.under = a.under /\ b.call = a.call
    /\ a.had \subseteq b.had
    /\ b.had = {b.data} => a.had = {a.data} /\ a.data = b.data

(* A row stays linked while others are added by other calls, edited or deleted. *)
LEMMA StaysLinked ==
    ASSUME NEW t, NEW u, NEW i \in DOMAIN t, LinkedIn(t, i),
           DOMAIN t \subseteq DOMAIN u, \A j \in DOMAIN t : Lasts(t[j], u[j]),
           t[i].call > 0 => \A j \in DOMAIN u \ DOMAIN t : u[j].call # t[i].call
    PROVE  LinkedIn(u, i)
<1> SUFFICES ASSUME u[i].call > 0, u[i].had = {u[i].data},
                    NEW f \in DOMAIN u[i].data, IsReference(u[i].under, u[i], f)
             PROVE  /\ u[i].data[f] \in DOMAIN u
                    /\ \E data \in u[u[i].data[f]].had : FitsIn(u, u[i], u[i].data[f], f, data)
                    /\ \/ u[u[i].data[f]].call = u[i].call
                       \/ \A j \in DOMAIN u :
                            u[j].call = u[i].call => ~FitsIn(u, u[i], j, f, u[j].said)
  BY DEF LinkedIn
<1>1. /\ u[i].entity = t[i].entity /\ u[i].said = t[i].said /\ u[i].under = t[i].under
      /\ u[i].call = t[i].call /\ u[i].data = t[i].data /\ t[i].had = {t[i].data}
  BY DEF Lasts
<1>2. IsReference(t[i].under, t[i], f)
  BY <1>1 DEF IsReference
<1> DEFINE v == t[i].data[f]
<1>3. /\ v \in DOMAIN t
      /\ \E data \in t[v].had : FitsIn(t, t[i], v, f, data)
      /\ \/ t[v].call = t[i].call
         \/ \A j \in DOMAIN t : t[j].call = t[i].call => ~FitsIn(t, t[i], j, f, t[j].said)
  BY <1>1, <1>2 DEF LinkedIn
<1> HIDE DEF v
<1>4. \A j \in DOMAIN t : \A data : FitsIn(u, u[i], j, f, data) <=> FitsIn(t, t[i], j, f, data)
  BY <1>1 DEF FitsIn, Lasts
<1>5. t[v].had \subseteq u[v].had /\ u[v].call = t[v].call
  BY <1>3 DEF Lasts
<1>6. \E data \in u[v].had : FitsIn(u, u[i], v, f, data)
  BY <1>3, <1>4, <1>5
<1>7. \/ u[v].call = u[i].call
      \/ \A j \in DOMAIN u : u[j].call = u[i].call => ~FitsIn(u, u[i], j, f, u[j].said)
  <2>1. CASE t[v].call = t[i].call
    BY <1>1, <1>5, <2>1
  <2>2. CASE \A j \in DOMAIN t : t[j].call = t[i].call => ~FitsIn(t, t[i], j, f, t[j].said)
    <3>1. ASSUME NEW j \in DOMAIN u, u[j].call = u[i].call  PROVE ~FitsIn(u, u[i], j, f, u[j].said)
      <4>1. j \in DOMAIN t
        BY <1>1, <3>1
      <4>2. u[j].said = t[j].said /\ u[j].call = t[j].call
        BY <4>1 DEF Lasts
      <4> QED  BY <1>1, <1>4, <2>2, <3>1, <4>1, <4>2
    <3> QED  BY <3>1
  <2> QED  BY <1>3, <2>1, <2>2
<1> QED  BY <1>1, <1>3, <1>6, <1>7 DEF v

(* A row is known by its data, under the entity it is of. *)
LEMMA SameLabel ==
    ASSUME NEW spec, NEW a, NEW b, a.entity = b.entity, a.data = b.data
    PROVE  LabelOf(spec, a) = LabelOf(spec, b)
BY DEF LabelOf

(* What is stored of a row is known by the same name as what was sent. *)
LEMMA LabelKept ==
    ASSUME NEW spec \in AppSpecs, validateAppSpec(spec), NEW a, NEW b, HasEntity(spec, a.entity),
           b.entity = a.entity,
           DOMAIN b.data = DOMAIN Clean(EntityOf(spec, a.entity), a.data),
           \A f \in DOMAIN b.data : ~IsReference(spec, a, f) => b.data[f] = a.data[f]
    PROVE  LabelOf(spec, b) = LabelOf(spec, a)
<1> DEFINE entity == EntityOf(spec, a.entity)
           label == labelFieldOf(entity)
<1>1. CASE TextFields(entity) = {}
  BY <1>1 DEF LabelOf
<1>2. CASE TextFields(entity) # {}
  <2>1. label \in NamesIn(entity.fields) /\ FieldOf(entity, label).type # "reference"
    BY <1>2, LabelsAreWords
  <2>2. ~IsReference(spec, a, label)
    BY <2>1 DEF IsReference
  <2>3. label \in DOMAIN b.data <=> label \in DOMAIN a.data /\ a.data[label] # Blank
    BY <2>1 DEF Clean
  <2>4. label \in DOMAIN b.data => b.data[label] = a.data[label]
    BY <2>2
  <2>5. /\ LabelOf(spec, a) = IF label \in DOMAIN a.data THEN a.data[label] ELSE Blank
        /\ LabelOf(spec, b) = IF label \in DOMAIN b.data THEN b.data[label] ELSE Blank
    BY <1>2 DEF LabelOf
  <2> HIDE DEF label
  <2> QED  BY <2>3, <2>4, <2>5
<1> QED  BY <1>1, <1>2

(* What prepareSeedRecords returns, row by row. *)
LEMMA Prepared ==
    ASSUME NEW spec, NEW batch, NEW first, NEW existing,
           NEW ds \in prepareSeedRecords(spec, batch, first, existing), NEW k \in DOMAIN batch
    PROVE  /\ HasEntity(spec, batch[k].entity)
           /\ DOMAIN ds[k] = DOMAIN Clean(EntityOf(spec, batch[k].entity), batch[k].data)
           /\ \A f \in DOMAIN ds[k] :
                 LET target == FieldOf(EntityOf(spec, batch[k].entity), f).refEntity
                 IN  IF IsReference(spec, batch[k], f)
                     THEN ds[k][f] \in Named(spec, target, batch[k].data[f], batch, first, existing)
                     ELSE ds[k][f] = batch[k].data[f]
<1> DEFINE Kept(l) == Clean(EntityOf(spec, batch[l].entity), batch[l].data)
           Candidates(l, f) ==
             IF IsReference(spec, batch[l], f)
             THEN Named(spec, FieldOf(EntityOf(spec, batch[l].entity), f).refEntity, Kept(l)[f],
                        batch, first, existing)
             ELSE {Kept(l)[f]}
           Linked(l) == {d \in [DOMAIN Kept(l) -> UNION {Candidates(l, f) : f \in DOMAIN Kept(l)}] :
                          \A f \in DOMAIN d : d[f] \in Candidates(l, f)}
<1>1. /\ \A l \in DOMAIN batch : SeedAcceptable(spec, batch[l])
      /\ ds[k] \in Linked(k)
  BY DEF prepareSeedRecords
<1>2. DOMAIN ds[k] = DOMAIN Kept(k) /\ \A f \in DOMAIN ds[k] : ds[k][f] \in Candidates(k, f)
  BY <1>1
<1>3. \A f \in DOMAIN Kept(k) : Kept(k)[f] = batch[k].data[f]
  BY DEF Clean
<1>4. HasEntity(spec, batch[k].entity)
  BY <1>1 DEF SeedAcceptable
<1> HIDE DEF Kept
<1> QED  BY <1>2, <1>3, <1>4 DEF Kept

IsRow(row) ==
    row = [entity |-> row.entity, data |-> row.data, there |-> row.there,
           said |-> row.said, under |-> row.under, call |-> row.call, had |-> row.had]

RowRead(row, calls) ==
    /\ IsRow(row)
    /\ row.there \in BOOLEAN /\ row.data \in row.had
    /\ row.call \in 0..calls
    /\ row.had = {row.data} => DOMAIN row.data \subseteq NamesIn(EntityOf(row.under, row.entity).fields)

RowsInv ==
    /\ rows \in Seq(Range(rows)) /\ Len(rows) <= MaxStored
    /\ seedCalls \in Nat /\ seedCalls <= Len(rows) + 1
    /\ \A i \in DOMAIN rows : RowRead(rows[i], seedCalls)
    /\ \A i \in DOMAIN rows : LinkedIn(rows, i)

AppInv ==
    /\ app \in AppSpecs \cup {Blank}
    /\ app # Blank => validateAppSpec(app)
    /\ app = Blank => rows = <<>> /\ seedCalls = 0

(* What a call read of a row. *)
WasRead(e, table) ==
    e.id \in DOMAIN table /\ table[e.id].entity = e.entity /\ e.data \in table[e.id].had

(* A call works on a spec that was accepted, and what it read of a row is what
   the row was once. *)
CallInv ==
    /\ seeding.phase \in {"waiting", "reading", "adding"}
    /\ seeding.phase # "waiting" =>
          app # Blank /\ seeding.spec \in AppSpecs /\ validateAppSpec(seeding.spec) /\ seeding.batch \in SeedBatches
    /\ \A e \in seeding.existing : WasRead(e, rows)
    /\ editing # Blank => editing.id \in DOMAIN rows

SeedingInv == RowsInv /\ AppInv /\ CallInv

(* What was read stays read, while rows last. *)
LEMMA CallLasts ==
    ASSUME CallInv, DOMAIN rows \subseteq DOMAIN rows', \A j \in DOMAIN rows : Lasts(rows[j], rows'[j]),
           seeding' = seeding \/ seeding' = Waiting, app' = app \/ (app' # Blank /\ seeding.phase = "waiting"),
           editing' = editing \/ editing' = Blank
    PROVE  CallInv'
<1>1. ASSUME NEW e, WasRead(e, rows)  PROVE WasRead(e, rows')
  <2>1. e.id \in DOMAIN rows /\ Lasts(rows[e.id], rows'[e.id])
    BY <1>1 DEF WasRead
  <2> QED  BY <1>1, <2>1 DEF WasRead, Lasts
<1>2. \A e \in seeding'.existing : WasRead(e, rows')
  BY <1>1 DEF CallInv, Waiting
<1> QED  BY <1>2 DEF CallInv, Waiting

(* Two sequences, one after the other. *)
LEMMA Appended ==
    ASSUME NEW s, NEW t, s \in Seq(Range(s)), t \in Seq(Range(t))
    PROVE  /\ s \o t \in Seq(Range(s \o t)) /\ Len(s \o t) = Len(s) + Len(t)
           /\ Len(s) \in Nat /\ Len(t) \in Nat
           /\ DOMAIN s = 1..Len(s) /\ DOMAIN t = 1..Len(t) /\ DOMAIN (s \o t) = 1..(Len(s) + Len(t))
           /\ \A k \in 1..Len(s) : (s \o t)[k] = s[k]
           /\ \A k \in 1..Len(t) : (s \o t)[Len(s) + k] = t[k]
<1> DEFINE T == Range(s) \cup Range(t)
           u == s \o t
<1>1. s \in Seq(T) /\ t \in Seq(T)
  <2>1. s \in [1..Len(s) -> Range(s)] /\ t \in [1..Len(t) -> Range(t)] /\ Len(s) \in Nat /\ Len(t) \in Nat
    OBVIOUS
  <2>2. s \in [1..Len(s) -> T] /\ t \in [1..Len(t) -> T]
    BY <2>1
  <2> HIDE DEF T
  <2> QED  BY <2>1, <2>2, SeqDef
<1> HIDE DEF T
<1>2. /\ u \in Seq(T) /\ Len(u) = Len(s) + Len(t)
      /\ Len(s) \in Nat /\ Len(t) \in Nat
      /\ DOMAIN s = 1..Len(s) /\ DOMAIN t = 1..Len(t) /\ DOMAIN u = 1..(Len(s) + Len(t))
      /\ \A k \in 1..Len(s) : u[k] = s[k]
      /\ \A k \in 1..Len(t) : u[Len(s) + k] = t[k]
  BY <1>1
<1> HIDE DEF u
<1>3. u \in [1..Len(u) -> Range(u)] /\ Len(u) \in Nat
  BY <1>2 DEF Range
<1>4. u \in Seq(Range(u))
  BY <1>3, SeqDef
<1> QED  BY <1>2, <1>4 DEF u

LEMMA StoreInv ==
    ASSUME SeedingInv, NEW spec \in AppSpecs, validateAppSpec(spec),
           NEW batch \in SeedBatches, batch # <<>> \/ seedCalls = 0,
           NEW existing, \A e \in existing : WasRead(e, rows),
           NEW ds \in prepareSeedRecords(spec, batch, Len(rows), existing), Store(spec, batch, ds)
    PROVE  RowsInv' /\ DOMAIN rows \subseteq DOMAIN rows' /\ \A i \in DOMAIN rows : Lasts(rows[i], rows'[i])
<1> DEFINE new == Stored(spec, batch, ds)
           first == Len(rows)
           latest == seedCalls + 1
           u == rows \o new
<1>1. /\ rows \in Seq(Range(rows)) /\ seedCalls \in Nat /\ seedCalls <= Len(rows) + 1
      /\ \A i \in DOMAIN rows : RowRead(rows[i], seedCalls)
      /\ \A i \in DOMAIN rows : LinkedIn(rows, i)
  BY DEF SeedingInv, RowsInv
<1>2. batch \in Seq(Range(batch)) /\ DOMAIN batch = 1..Len(batch) /\ Len(batch) \in Nat
  BY SeedingAssumption
<1>3. /\ DOMAIN new = DOMAIN batch
      /\ \A k \in DOMAIN batch :
            /\ new[k].entity = batch[k].entity /\ new[k].data = ds[k] /\ new[k].there = TRUE
            /\ new[k].said = batch[k].data /\ new[k].under = spec /\ new[k].call = latest
            /\ new[k].had = {ds[k]} /\ IsRow(new[k])
  <2>1. DOMAIN new = DOMAIN batch
    BY DEF Stored
  <2>2. ASSUME NEW k \in DOMAIN batch
        PROVE  /\ new[k].entity = batch[k].entity /\ new[k].data = ds[k] /\ new[k].there = TRUE
               /\ new[k].said = batch[k].data /\ new[k].under = spec /\ new[k].call = latest
               /\ new[k].had = {ds[k]} /\ IsRow(new[k])
    <3>1. new[k] = [entity |-> batch[k].entity, data |-> ds[k], there |-> TRUE,
                    said |-> batch[k].data, under |-> spec, call |-> latest, had |-> {ds[k]}]
      BY DEF Stored, NewRow
    <3> QED  BY <3>1 DEF IsRow
  <2> QED  BY <2>1, <2>2
<1>4. new \in Seq(Range(new)) /\ Len(new) = Len(batch)
  <2> HIDE DEF new
  <2>1. new \in [1..Len(batch) -> Range(new)]
    <3>1. new = [k \in DOMAIN new |-> new[k]]
      BY DEF new, Stored
    <3> QED  BY <1>2, <1>3, <3>1 DEF Range
  <2>2. new \in Seq(Range(new))
    BY <1>2, <2>1, SeqDef
  <2> QED  BY <1>2, <2>1, <2>2
<1> HIDE DEF new
<1>5. /\ u \in Seq(Range(u)) /\ Len(u) = first + Len(batch)
      /\ first \in Nat
      /\ DOMAIN rows = 1..first /\ DOMAIN u = 1..(first + Len(batch))
      /\ \A k \in 1..first : u[k] = rows[k]
      /\ \A k \in 1..Len(batch) : u[first + k] = new[k]
  <2>1. rows \in Seq(Range(rows)) /\ new \in Seq(Range(new))
    BY <1>1, <1>4
  <2>2. /\ u \in Seq(Range(u)) /\ Len(u) = first + Len(new)
        /\ first \in Nat
        /\ DOMAIN rows = 1..first /\ DOMAIN u = 1..(first + Len(new))
        /\ \A k \in 1..first : u[k] = rows[k]
        /\ \A k \in 1..Len(new) : u[first + k] = new[k]
    BY <2>1, Appended
  <2> HIDE DEF u, first
  <2> QED  BY <1>4, <2>2
<1>6. rows' = u /\ seedCalls' = latest /\ first + Len(batch) <= MaxStored
  BY DEF Store, new
<1> HIDE DEF u, first
<1>7. \A j \in DOMAIN u : j \in DOMAIN rows \/ \E k \in DOMAIN batch : j = first + k
  <2> SUFFICES ASSUME NEW j \in DOMAIN u, j \notin DOMAIN rows  PROVE \E k \in DOMAIN batch : j = first + k
    OBVIOUS
  <2>1. j - first \in DOMAIN batch /\ j = first + (j - first)
    BY <1>2, <1>5
  <2> QED  BY <2>1
<1>8. \A k \in DOMAIN batch :
            /\ first + k \in DOMAIN u /\ u[first + k] = new[k]
            /\ LabelOf(spec, [entity |-> batch[k].entity, data |-> ds[k]]) = LabelOf(spec, batch[k])
            /\ LabelOf(spec, [entity |-> batch[k].entity, data |-> batch[k].data]) = LabelOf(spec, batch[k])
  <2> SUFFICES ASSUME NEW k \in DOMAIN batch
               PROVE  /\ first + k \in DOMAIN u /\ u[first + k] = new[k]
                      /\ LabelOf(spec, [entity |-> batch[k].entity, data |-> ds[k]]) = LabelOf(spec, batch[k])
                      /\ LabelOf(spec, [entity |-> batch[k].entity, data |-> batch[k].data])
                            = LabelOf(spec, batch[k])
    OBVIOUS
  <2>1. first + k \in DOMAIN u /\ u[first + k] = new[k]
    BY <1>2, <1>5
  <2>2. /\ HasEntity(spec, batch[k].entity)
        /\ DOMAIN ds[k] = DOMAIN Clean(EntityOf(spec, batch[k].entity), batch[k].data)
        /\ \A f \in DOMAIN ds[k] : ~IsReference(spec, batch[k], f) => ds[k][f] = batch[k].data[f]
    BY Prepared DEF first
  <2>3. PICK b : b = [entity |-> batch[k].entity, data |-> ds[k]]
    OBVIOUS
  <2>4. b.entity = batch[k].entity /\ b.data = ds[k]
    BY <2>3
  <2>5. LabelOf(spec, b) = LabelOf(spec, batch[k])
    BY <2>2, <2>4, LabelKept
  <2>6. PICK a : a = [entity |-> batch[k].entity, data |-> batch[k].data]
    OBVIOUS
  <2>7. LabelOf(spec, a) = LabelOf(spec, batch[k])
    BY <2>6, SameLabel
  <2> QED  BY <2>1, <2>3, <2>5, <2>6, <2>7
<1>9. Len(u) <= MaxStored /\ latest \in Nat /\ latest <= Len(u) + 1
  <2>1. Len(batch) = 0 => batch = <<>>
    BY <1>2
  <2> QED  BY <1>1, <1>2, <1>5, <1>6, <2>1 DEF first
<1>10. \A i \in DOMAIN u : RowRead(u[i], latest)
  <2> SUFFICES ASSUME NEW i \in DOMAIN u  PROVE RowRead(u[i], latest)
    OBVIOUS
  <2>1. CASE i \in DOMAIN rows
    <3>1. u[i] = rows[i] /\ RowRead(rows[i], seedCalls)
      BY <1>1, <1>5, <2>1
    <3>2. \A n : n \in 0..seedCalls => n \in 0..latest
      BY <1>1
    <3> HIDE DEF latest
    <3> QED  BY <3>1, <3>2 DEF RowRead
  <2>2. CASE i \notin DOMAIN rows
    <3>1. PICK k \in DOMAIN batch : i = first + k
      BY <1>7, <2>2
    <3>2. u[i] = new[k]
      BY <1>8, <3>1
    <3>3. /\ u[i].entity = batch[k].entity /\ u[i].data = ds[k] /\ u[i].there = TRUE
          /\ u[i].under = spec /\ u[i].call = latest /\ u[i].had = {ds[k]} /\ IsRow(u[i])
      BY <1>3, <3>2
    <3>4. DOMAIN ds[k] = DOMAIN Clean(EntityOf(spec, batch[k].entity), batch[k].data)
      BY Prepared DEF first
    <3>5. DOMAIN ds[k] \subseteq NamesIn(EntityOf(spec, batch[k].entity).fields)
      BY <3>4 DEF Clean
    <3>6. latest \in 0..latest
      BY <1>9
    <3> QED  BY <3>3, <3>5, <3>6 DEF RowRead
  <2> QED  BY <2>1, <2>2
<1>11. \A i \in DOMAIN rows : LinkedIn(u, i)
  <2> SUFFICES ASSUME NEW i \in DOMAIN rows  PROVE LinkedIn(u, i)
    OBVIOUS
  <2>1. DOMAIN rows \subseteq DOMAIN u /\ \A j \in DOMAIN rows : u[j] = rows[j]
    BY <1>2, <1>5
  <2>5. \A j \in DOMAIN rows : Lasts(rows[j], u[j])
    BY <2>1 DEF Lasts
  <2>2. rows[i].call \in 0..seedCalls
    BY <1>1 DEF RowRead
  <2>3. ASSUME NEW j \in DOMAIN u \ DOMAIN rows  PROVE u[j].call = latest
    <3>1. PICK k \in DOMAIN batch : j = first + k
      BY <1>7
    <3>2. u[j] = new[k]
      BY <1>8, <3>1
    <3>3. new[k].call = latest
      BY <1>3
    <3> QED  BY <3>2, <3>3
  <2>4. \A j \in DOMAIN u \ DOMAIN rows : u[j].call # rows[i].call
    BY <1>1, <2>2, <2>3
  <2> QED  BY <1>1, <2>1, <2>4, <2>5, StaysLinked
<1>12. \A k \in DOMAIN batch : LinkedIn(u, first + k)
  <2> SUFFICES ASSUME NEW k \in DOMAIN batch, NEW f \in DOMAIN ds[k], IsReference(spec, batch[k], f)
               PROVE  /\ ds[k][f] \in DOMAIN u
                      /\ \E data \in u[ds[k][f]].had : FitsIn(u, new[k], ds[k][f], f, data)
                      /\ \/ u[ds[k][f]].call = latest
                         \/ \A j \in DOMAIN u : u[j].call = latest => ~FitsIn(u, new[k], j, f, u[j].said)
    <3>1. \A l \in DOMAIN batch : /\ u[first + l] = new[l] /\ new[l].data = ds[l] /\ new[l].under = spec
                                  /\ new[l].call = latest
                                  /\ new[l].entity = batch[l].entity
      BY <1>3, <1>8
    <3>2. \A l \in DOMAIN batch : \A g : IsReference(spec, new[l], g) <=> IsReference(spec, batch[l], g)
      BY <3>1 DEF IsReference
    <3> QED  BY <3>1, <3>2 DEF LinkedIn
  <2> DEFINE target == FieldOf(EntityOf(spec, batch[k].entity), f).refEntity
             name == batch[k].data[f]
             fresh == {l \in DOMAIN batch : batch[l].entity = target /\ LabelOf(spec, batch[l]) = name}
             old == {e \in existing : e.entity = target /\ LabelOf(spec, e) = name}
             least == CHOOSE l \in fresh : \A m \in fresh : l <= m
  <2>1. ds[k][f] \in Named(spec, target, name, batch, first, existing)
    BY Prepared DEF first
  <2>2. Named(spec, target, name, batch, first, existing)
          = IF fresh # {} THEN {first + least} ELSE {e.id : e \in old}
    BY DEF Named
  <2>3. \A j, data : FitsIn(u, new[k], j, f, data) <=>
            u[j].entity = target /\ LabelOf(spec, [entity |-> u[j].entity, data |-> data]) = name
    BY <1>3 DEF FitsIn
  <2>4. \A l \in DOMAIN batch : /\ FitsIn(u, new[k], first + l, f, ds[l]) <=> l \in fresh
                                /\ FitsIn(u, new[k], first + l, f, new[l].said) <=> l \in fresh
    <3> SUFFICES ASSUME NEW l \in DOMAIN batch
                 PROVE  /\ FitsIn(u, new[k], first + l, f, ds[l]) <=> l \in fresh
                        /\ FitsIn(u, new[k], first + l, f, new[l].said) <=> l \in fresh
      OBVIOUS
    <3>1. u[first + l].entity = batch[l].entity /\ new[l].said = batch[l].data
      BY <1>3, <1>8
    <3>2. /\ LabelOf(spec, [entity |-> u[first + l].entity, data |-> ds[l]]) = LabelOf(spec, batch[l])
          /\ LabelOf(spec, [entity |-> u[first + l].entity, data |-> new[l].said]) = LabelOf(spec, batch[l])
      BY <1>8, <3>1
    <3>3. l \in fresh <=> batch[l].entity = target /\ LabelOf(spec, batch[l]) = name
      OBVIOUS
    <3> HIDE DEF fresh, target, name
    <3>4. FitsIn(u, new[k], first + l, f, ds[l]) <=> l \in fresh
      BY <2>3, <3>1, <3>2, <3>3
    <3>5. FitsIn(u, new[k], first + l, f, new[l].said) <=> l \in fresh
      BY <2>3, <3>1, <3>2, <3>3
    <3> QED  BY <3>4, <3>5
  <2>5. fresh \in SUBSET Nat /\ fresh \subseteq DOMAIN batch
    BY <1>2
  <2>6. \A e \in old : e \in existing /\ e.entity = target /\ LabelOf(spec, e) = name
    OBVIOUS
  <2> HIDE DEF fresh, old, target, name
  <2>7. CASE fresh # {}
    <3>1. least \in fresh
      BY <2>5, <2>7, LeastExists
    <3> HIDE DEF least
    <3>2. ds[k][f] = first + least
      BY <2>1, <2>2, <2>7
    <3>3. /\ u[first + least] = new[least] /\ first + least \in DOMAIN u
          /\ new[least].call = latest /\ new[least].had = {ds[least]}
      BY <1>3, <1>8, <2>5, <3>1
    <3>4. FitsIn(u, new[k], first + least, f, ds[least])
      BY <2>4, <2>5, <3>1
    <3> QED  BY <3>2, <3>3, <3>4
  <2>8. CASE fresh = {}
    <3>1. PICK e \in old : ds[k][f] = e.id
      BY <2>1, <2>2, <2>8
    <3>2. /\ e.id \in DOMAIN rows /\ rows[e.id].entity = e.entity /\ e.data \in rows[e.id].had
          /\ u[e.id] = rows[e.id] /\ e.id \in DOMAIN u
      BY <1>2, <1>5, <2>6, <3>1 DEF WasRead
    <3>3. FitsIn(u, new[k], e.id, f, e.data)
      <4>1. PICK a : a = [entity |-> u[e.id].entity, data |-> e.data]
        OBVIOUS
      <4>2. LabelOf(spec, a) = LabelOf(spec, e)
        BY <3>2, <4>1, SameLabel
      <4> QED  BY <2>3, <2>6, <3>1, <3>2, <4>1, <4>2
    <3>4. ASSUME NEW j \in DOMAIN u, u[j].call = latest  PROVE ~FitsIn(u, new[k], j, f, u[j].said)
      <4>1. j \notin DOMAIN rows
        <5>1. j \in DOMAIN rows => rows[j].call \in 0..seedCalls /\ u[j] = rows[j]
          BY <1>1, <1>5 DEF RowRead
        <5> QED  BY <1>1, <3>4, <5>1
      <4>2. PICK l \in DOMAIN batch : j = first + l
        BY <1>7, <4>1
      <4> QED  BY <1>8, <2>4, <2>8, <4>2
    <3> QED  BY <3>1, <3>2, <3>3, <3>4
  <2> QED  BY <2>7, <2>8
<1>13. \A i \in DOMAIN u : LinkedIn(u, i)
  BY <1>7, <1>11, <1>12
<1>14. DOMAIN rows \subseteq DOMAIN u /\ \A i \in DOMAIN rows : Lasts(rows[i], u[i])
  <2>1. \A i \in DOMAIN rows : i \in DOMAIN u /\ u[i] = rows[i]
    BY <1>2, <1>5
  <2> QED  BY <2>1 DEF Lasts
<1> HIDE DEF latest
<1> QED  BY <1>5, <1>6, <1>9, <1>10, <1>13, <1>14 DEF RowsInv

LEMMA TypeRecordInv ==
    ASSUME SeedingInv, NEW row, TypeRecord(row)
    PROVE  SeedingInv'
<1> DEFINE typed == NewRow(row.entity, Entered(row), row.data, app, 0)
           u == Append(rows, typed)
           T == Range(rows) \cup {typed}
<1>1. /\ rows \in Seq(Range(rows)) /\ seedCalls \in Nat /\ seedCalls <= Len(rows) + 1
      /\ \A i \in DOMAIN rows : RowRead(rows[i], seedCalls)
      /\ \A i \in DOMAIN rows : LinkedIn(rows, i)
  BY DEF SeedingInv, RowsInv
<1>2. /\ rows' = u /\ app # Blank /\ Len(rows) < MaxStored
      /\ UNCHANGED <<app, seeding, editing, seedCalls>>
  BY DEF TypeRecord, Enterable
<1>3. typed.call = 0 /\ RowRead(typed, seedCalls)
  <2>1. 0 \in 0..seedCalls
    BY <1>1
  <2>2. DOMAIN Entered(row) \subseteq NamesIn(EntityOf(app, row.entity).fields)
    BY DEF Entered, Clean
  <2> QED  BY <2>1, <2>2 DEF RowRead, NewRow, IsRow
<1> HIDE DEF typed
<1>4. rows \in Seq(T) /\ typed \in T
  <2>1. rows \in [1..Len(rows) -> Range(rows)] /\ Len(rows) \in Nat
    BY <1>1
  <2>2. rows \in [1..Len(rows) -> T]
    BY <2>1
  <2> HIDE DEF T
  <2>3. rows \in Seq(T)
    BY <2>1, <2>2, SeqDef
  <2> QED  BY <2>3 DEF T
<1> HIDE DEF T
<1>5. /\ u \in Seq(T) /\ Len(u) = Len(rows) + 1 /\ Len(rows) \in Nat
      /\ DOMAIN u = 1..(Len(rows) + 1) /\ DOMAIN rows = 1..Len(rows)
      /\ \A k \in DOMAIN rows : u[k] = rows[k]
      /\ u[Len(rows) + 1] = typed
  BY <1>4
<1> HIDE DEF u
<1>6. u \in Seq(Range(u))
  <2>1. u \in [1..Len(u) -> Range(u)] /\ Len(u) \in Nat
    BY <1>5 DEF Range
  <2> QED  BY <2>1, SeqDef
<1>7. \A i \in DOMAIN u : i \in DOMAIN rows \/ u[i] = typed
  BY <1>5
<1>8. \A i \in DOMAIN u : RowRead(u[i], seedCalls)
  BY <1>1, <1>3, <1>5, <1>7
<1>9. \A i \in DOMAIN u : LinkedIn(u, i)
  <2>1. \A i \in DOMAIN u : u[i] = typed => LinkedIn(u, i)
    BY <1>3 DEF LinkedIn
  <2>2. ASSUME NEW i \in DOMAIN rows  PROVE LinkedIn(u, i)
    <3>1. DOMAIN rows \subseteq DOMAIN u /\ \A j \in DOMAIN rows : Lasts(rows[j], u[j])
      BY <1>5 DEF Lasts
    <3>2. \A j \in DOMAIN u \ DOMAIN rows : u[j].call = 0
      BY <1>3, <1>7
    <3>3. rows[i].call > 0 => rows[i].call # 0
      OBVIOUS
    <3> QED  BY <1>1, <3>1, <3>2, <3>3, StaysLinked
  <2> QED  BY <1>7, <2>1, <2>2
<1>10. Len(u) <= MaxStored /\ seedCalls <= Len(u) + 1
  BY <1>1, <1>2, <1>5, SeedingAssumption
<1>11. RowsInv'
  BY <1>1, <1>2, <1>6, <1>8, <1>9, <1>10 DEF RowsInv
<1>12. AppInv'
  BY <1>2 DEF SeedingInv, AppInv
<1>13. CallInv'
  <2>1. DOMAIN rows \subseteq DOMAIN u /\ \A j \in DOMAIN rows : Lasts(rows[j], u[j])
    BY <1>5 DEF Lasts
  <2>2. DOMAIN rows \subseteq DOMAIN rows' /\ \A j \in DOMAIN rows : Lasts(rows[j], rows'[j])
    BY <1>2, <2>1
  <2> QED  BY <1>2, <2>2, CallLasts DEF SeedingInv
<1> QED  BY <1>11, <1>12, <1>13 DEF SeedingInv

LEMMA OfLength ==
    ASSUME NEW n \in Nat, NEW S, NEW s \in [1..n -> S]
    PROVE  s \in Seq(S) /\ Len(s) = n
<1>1. s \in Seq(S)
  BY SeqDef
<1>2. DOMAIN s = 1..n /\ DOMAIN s = 1..Len(s) /\ Len(s) \in Nat
  BY <1>1
<1> QED  BY <1>1, <1>2

(* One row is replaced by what it lasts as. *)
LEMMA RowReplaced ==
    ASSUME SeedingInv, NEW i \in DOMAIN rows, NEW row, rows' = [rows EXCEPT ![i] = row],
           Lasts(rows[i], row), RowRead(row, seedCalls), UNCHANGED <<app, seeding, seedCalls>>,
           editing' = editing \/ editing' = Blank
    PROVE  SeedingInv'
<1>1. /\ rows \in Seq(Range(rows)) /\ seedCalls \in Nat /\ seedCalls <= Len(rows) + 1
      /\ Len(rows) <= MaxStored
      /\ \A j \in DOMAIN rows : RowRead(rows[j], seedCalls)
      /\ \A j \in DOMAIN rows : LinkedIn(rows, j)
  BY DEF SeedingInv, RowsInv
<1>2. /\ DOMAIN rows' = DOMAIN rows /\ DOMAIN rows = 1..Len(rows) /\ Len(rows) \in Nat
      /\ \A j \in DOMAIN rows : rows'[j] = IF j = i THEN row ELSE rows[j]
      /\ rows' \in [DOMAIN rows -> Range(rows')]
  BY <1>1 DEF Range
<1>3. rows' \in Seq(Range(rows')) /\ Len(rows') = Len(rows)
  <2>1. rows' \in [1..Len(rows) -> Range(rows')] /\ Len(rows) \in Nat
    BY <1>2
  <2> QED  BY <2>1, OfLength
<1>4. \A j \in DOMAIN rows' : RowRead(rows'[j], seedCalls)
  BY <1>1, <1>2
<1>5. \A j \in DOMAIN rows : Lasts(rows[j], rows'[j])
  <2>1. \A j \in DOMAIN rows : Lasts(rows[j], rows[j])
    BY DEF Lasts
  <2> QED  BY <1>2, <2>1
<1>6. \A j \in DOMAIN rows' : LinkedIn(rows', j)
  <2> SUFFICES ASSUME NEW j \in DOMAIN rows  PROVE LinkedIn(rows', j)
    BY <1>2
  <2>1. \A k \in DOMAIN rows' \ DOMAIN rows : rows'[k].call # rows[j].call
    BY <1>2
  <2>2. DOMAIN rows \subseteq DOMAIN rows' /\ LinkedIn(rows, j)
    BY <1>1, <1>2
  <2> QED  BY <1>5, <2>1, <2>2, StaysLinked
<1>7. RowsInv'
  BY <1>1, <1>3, <1>4, <1>6 DEF RowsInv
<1>8. AppInv'
  <2>1. app # Blank
    BY <1>2 DEF SeedingInv, AppInv
  <2> QED  BY <2>1 DEF SeedingInv, AppInv
<1>9. CallInv'
  BY <1>2, <1>5, CallLasts DEF SeedingInv
<1> QED  BY <1>7, <1>8, <1>9 DEF SeedingInv

LEMMA SaveEditInv ==
    ASSUME SeedingInv, SaveEdit
    PROVE  SeedingInv'
<1>1. PICK i \in DOMAIN rows : i = editing.id
  BY DEF SaveEdit, SeedingInv, CallInv
<1>2. PICK data : data = editing.data
  OBVIOUS
<1>3. RowRead(rows[i], seedCalls)
  BY DEF SeedingInv, RowsInv
<1>4. PICK row : row = [rows[i] EXCEPT !.data = data, !.there = TRUE, !.had = rows[i].had \cup {data}]
  OBVIOUS
<1>5. /\ row = [entity |-> rows[i].entity, data |-> data, there |-> TRUE, said |-> rows[i].said,
                under |-> rows[i].under, call |-> rows[i].call, had |-> rows[i].had \cup {data}]
  BY <1>3, <1>4 DEF RowRead, IsRow
<1>6. rows' = [rows EXCEPT ![i] = row] /\ editing' = Blank /\ UNCHANGED <<app, seeding, seedCalls>>
  <2>1. /\ rows' = [rows EXCEPT ![editing.id] =
                        [rows[editing.id] EXCEPT !.data = editing.data, !.there = TRUE,
                                                 !.had = rows[editing.id].had \cup {editing.data}]]
        /\ editing' = Blank /\ UNCHANGED <<app, seeding, seedCalls>>
    BY DEF SaveEdit
  <2> QED  BY <1>1, <1>2, <1>4, <2>1
<1>7. row.had = {row.data} => rows[i].had = {rows[i].data} /\ rows[i].data = row.data
  BY <1>3, <1>5 DEF RowRead
<1>8. Lasts(rows[i], row)
  BY <1>5, <1>7 DEF Lasts
<1>9. RowRead(row, seedCalls)
  BY <1>3, <1>5, <1>7 DEF RowRead, IsRow
<1> QED  BY <1>6, <1>8, <1>9, RowReplaced

LEMMA RemoveRecordInv ==
    ASSUME SeedingInv, NEW i \in DOMAIN rows, RemoveRecord(i)
    PROVE  SeedingInv'
<1>1. RowRead(rows[i], seedCalls)
  BY DEF SeedingInv, RowsInv
<1>2. PICK row : row = [rows[i] EXCEPT !.there = FALSE]
  OBVIOUS
<1>3. /\ row = [entity |-> rows[i].entity, data |-> rows[i].data, there |-> FALSE, said |-> rows[i].said,
                under |-> rows[i].under, call |-> rows[i].call, had |-> rows[i].had]
  BY <1>1, <1>2 DEF RowRead, IsRow
<1>4. rows' = [rows EXCEPT ![i] = row] /\ UNCHANGED <<app, seeding, editing, seedCalls>>
  BY <1>2 DEF RemoveRecord
<1>5. Lasts(rows[i], row)
  BY <1>3 DEF Lasts
<1>6. RowRead(row, seedCalls)
  BY <1>1, <1>3 DEF RowRead, IsRow
<1> QED  BY <1>4, <1>5, <1>6, RowReplaced

LEMMA SeedingStep == SeedingInv /\ [SeedingNext]_seedingVars => SeedingInv'
<1> SUFFICES ASSUME SeedingInv, [SeedingNext]_seedingVars  PROVE SeedingInv'
  OBVIOUS
<1>0. RowsInv /\ AppInv /\ CallInv
  BY DEF SeedingInv
<1>1. CASE UNCHANGED seedingVars
  BY <1>0, <1>1 DEF seedingVars, SeedingInv, RowsInv, AppInv, CallInv
<1>2. ASSUME NEW spec \in AppSpecs, ReplaceSpec(spec)  PROVE SeedingInv'
  BY <1>0, <1>2, SeedingAssumption DEF ReplaceSpec, SeedingInv, RowsInv, AppInv, CallInv
<1>3. ASSUME NEW spec \in AppSpecs, NEW batch \in SeedBatches, CreateFromSpec(spec, batch)  PROVE SeedingInv'
  <2>1. /\ app = Blank /\ validateAppSpec(spec) /\ rows = <<>> /\ seedCalls = 0
        /\ app' = spec /\ UNCHANGED <<seeding, editing>> /\ seeding.phase = "waiting"
    BY <1>0, <1>3 DEF CreateFromSpec, AppInv, CallInv
  <2>2. PICK ds \in prepareSeedRecords(spec, batch, Len(rows), {}) : Store(spec, batch, ds)
    BY <1>3, <2>1 DEF CreateFromSpec
  <2>3. RowsInv' /\ DOMAIN rows \subseteq DOMAIN rows' /\ \A i \in DOMAIN rows : Lasts(rows[i], rows'[i])
    BY <2>1, <2>2, StoreInv
  <2>4. AppInv'
    BY <2>1, SeedingAssumption DEF AppInv
  <2>6. app' # Blank
    BY <2>1, SeedingAssumption
  <2>5. CallInv'
    BY <1>0, <2>1, <2>3, <2>6, CallLasts
  <2> QED  BY <2>3, <2>4, <2>5 DEF SeedingInv
<1>4. ASSUME NEW batch \in SeedBatches, AddRecords(batch)  PROVE SeedingInv'
  <2>1. /\ app # Blank /\ UNCHANGED <<app, rows, editing, seedCalls>>
        /\ seeding' = [phase |-> "reading", spec |-> app, batch |-> batch, existing |-> {}]
    BY <1>4 DEF AddRecords
  <2>2. CallInv'
    BY <1>0, <2>1 DEF CallInv, AppInv
  <2> QED  BY <1>0, <2>1, <2>2 DEF SeedingInv, RowsInv, AppInv
<1>9. CASE ReadTargets
  <2> DEFINE there == {j \in DOMAIN rows : rows[j].there /\ rows[j].entity \in RefTargets(seeding.spec)}
             existing == {[id |-> i, entity |-> rows[i].entity, data |-> rows[i].data] : i \in there}
  <2>1. ASSUME NEW e \in existing  PROVE WasRead(e, rows)
    <3>1. PICK i \in DOMAIN rows : e = [id |-> i, entity |-> rows[i].entity, data |-> rows[i].data]
      OBVIOUS
    <3>2. rows[i].data \in rows[i].had
      BY <1>0 DEF RowsInv, RowRead
    <3> QED  BY <3>1, <3>2 DEF WasRead
  <2> HIDE DEF existing
  <2>2. /\ seeding.phase = "reading" /\ UNCHANGED <<app, rows, editing, seedCalls>>
        /\ seeding' = [seeding EXCEPT !.phase = "adding", !.existing = existing]
    BY <1>9 DEF ReadTargets, existing
  <2>3. /\ seeding'.phase = "adding" /\ seeding'.existing = existing
        /\ seeding'.spec = seeding.spec /\ seeding'.batch = seeding.batch
    BY <1>0, <2>2 DEF CallInv
  <2>4. CallInv'
    BY <1>0, <2>1, <2>2, <2>3 DEF CallInv
  <2> QED  BY <1>0, <2>2, <2>4 DEF SeedingInv, RowsInv, AppInv
<1>5. CASE InsertSeeds
  <2>1. /\ seeding.phase = "adding" /\ seeding.batch # <<>> /\ seeding' = Waiting
        /\ UNCHANGED <<app, editing>> /\ app # Blank
        /\ seeding.spec \in AppSpecs /\ validateAppSpec(seeding.spec) /\ seeding.batch \in SeedBatches
    BY <1>0, <1>5 DEF InsertSeeds, CallInv
  <2>2. PICK ds \in prepareSeedRecords(seeding.spec, seeding.batch, Len(rows), seeding.existing) :
            Store(seeding.spec, seeding.batch, ds)
    BY <1>5 DEF InsertSeeds
  <2>3. \A e \in seeding.existing : WasRead(e, rows)
    BY <1>0 DEF CallInv
  <2>4. RowsInv' /\ DOMAIN rows \subseteq DOMAIN rows' /\ \A i \in DOMAIN rows : Lasts(rows[i], rows'[i])
    BY <2>1, <2>2, <2>3, StoreInv
  <2>5. AppInv'
    BY <1>0, <2>1 DEF AppInv
  <2>6. CallInv'
    BY <1>0, <2>1, <2>4, CallLasts
  <2> QED  BY <2>4, <2>5, <2>6 DEF SeedingInv
<1>6. CASE RefuseSeeds
  <2>1. seeding' = Waiting /\ UNCHANGED <<app, rows, editing, seedCalls>>
    BY <1>6 DEF RefuseSeeds
  <2> QED  BY <1>0, <2>1 DEF SeedingInv, RowsInv, AppInv, CallInv, Waiting
<1>7. ASSUME NEW row \in Typed, TypeRecord(row)  PROVE SeedingInv'
  BY <1>7, TypeRecordInv
<1>8. ASSUME NEW i \in DOMAIN rows, RemoveRecord(i)  PROVE SeedingInv'
  BY <1>8, RemoveRecordInv
<1>10. ASSUME NEW i \in DOMAIN rows, NEW row \in Typed, EditRow(i, row)  PROVE SeedingInv'
  <2>1. /\ editing' = [id |-> i, data |-> Entered(row)] /\ UNCHANGED <<app, rows, seeding, seedCalls>>
    BY <1>10 DEF EditRow
  <2> QED  BY <1>0, <2>1 DEF SeedingInv, RowsInv, AppInv, CallInv
<1>11. CASE SaveEdit
  BY <1>11, SaveEditInv
<1> QED
  BY <1>1, <1>2, <1>3, <1>4, <1>5, <1>6, <1>7, <1>8, <1>9, <1>10, <1>11 DEF SeedingNext

LEMMA InitSeedingInv == SeedingInit => SeedingInv
<1> SUFFICES ASSUME SeedingInit  PROVE SeedingInv
  OBVIOUS
<1>1. app = Blank /\ rows = <<>> /\ seeding = Waiting /\ editing = Blank /\ seedCalls = 0
  BY DEF SeedingInit
<1>2. <<>> \in Seq(Range(rows)) /\ Len(rows) = 0 /\ DOMAIN rows = {}
  BY <1>1
<1> QED  BY <1>1, <1>2, SeedingAssumption DEF SeedingInv, RowsInv, AppInv, CallInv, Waiting

LEMMA SeedingTypes == SeedingInv => SeedingTypeOK
<1> SUFFICES ASSUME SeedingInv  PROVE SeedingTypeOK
  OBVIOUS
<1>1. RowsInv /\ AppInv /\ CallInv
  BY DEF SeedingInv
<1>2. seedCalls \in 0 .. MaxStored + 1
  <2>1. Len(rows) \in Nat
    BY <1>1 DEF RowsInv
  <2> QED  BY <1>1, <2>1, SeedingAssumption DEF RowsInv
<1> QED  BY <1>1, <1>2 DEF SeedingTypeOK, RowsInv, RowRead, AppInv, CallInv, WasRead

(* What a seeded row points at, as long as nobody has edited the row itself,  *)
(* is a row of the entity it refers to that bore the name the model wrote,    *)
(* one of its own call when there is one, whatever users and other calls add, *)
(* rename and delete meanwhile (prepareSeedRecords, updateRecord).            *)
THEOREM LinksFollowNames == SeedingSpec => []LinkedAsNamed
<1>1. SeedingInv => LinkedAsNamed
  BY LinkedRows DEF SeedingInv, RowsInv
<1> QED  BY <1>1, InitSeedingInv, SeedingStep, PTL DEF SeedingSpec

-----------------------------------------------------------------------------
(* The panel.  An ordering of the workspaces lists each once, so a page is a  *)
(* stretch of it (PagesOfAnOrder), and what is counted by size or by day is   *)
(* counted once (SizesAddUp, UsageIsPlotted).  A view whose queries nothing   *)
(* was written between shows the tables as they are (PageInv, OverviewInv);   *)
(* the chart shows every credit spent before it was asked for, whatever is    *)
(* written (GrowthInv).                                                       *)

Queries(kind) ==
    CASE kind = "page"     -> {"driver", "count"}
      [] kind = "overview" -> {"count", "active", "sizes"}
      [] kind = "growth"   -> {"signups", "usage"}
      [] OTHER             -> {}

MeteredRun == [tenant : Tenants, at : Nat]

PanelTables ==
    /\ moment \in Nat /\ moment <= MaxMoment
    /\ SignedUp \subseteq Tenants
    /\ people \in [Tenants -> 0..MaxPeople]
    /\ metered \in Seq(MeteredRun) /\ Len(metered) <= MaxRuns
    /\ \A k \in DOMAIN metered : metered[k].tenant \in SignedUp /\ metered[k].at <= moment

(* A request, and which of its queries have been answered. *)
IsView ==
    /\ view = [f \in DOMAIN NoView |-> view[f]]
    /\ view.kind \in {"none", "page", "overview", "growth"}
    /\ view.pc \in {"none", "asked", "answered"} /\ view.sort \in Sorts
    /\ view.offset \in Nat /\ view.to \in Nat /\ view.to <= moment
    /\ view.total \in Nat /\ view.active \in Nat
    /\ view.ids \in Seq(SignedUp)
    /\ view.pc = "none" => view = NoView
    /\ view.pc = "answered" => view.awaited = {}
    /\ view.awaited \subseteq Queries(view.kind)
    /\ stale \in BOOLEAN

Has(kind, query) == view.kind = kind /\ query \notin view.awaited

RowsShown ==
    [k \in DOMAIN view.ids |-> [members |-> people[view.ids[k]], last |-> LastRun(view.ids[k])]]

(* What a page has of the tables; as long as nothing was written, it has it of
   the tables as they are. *)
PageInv ==
    /\ Has("page", "driver") => /\ IsInjective(view.ids) /\ Len(view.ids) <= PageSize
                                /\ ~stale => \E p \in Orders(view.sort) :
                                               view.ids = PageOf(p, view.offset)
    /\ Has("page", "count") /\ ~stale => view.total = Cardinality(SignedUp)
    /\ Shows("page") /\ ~stale => view.shown = RowsShown

OverviewInv ==
    ~stale => /\ Has("overview", "count") => view.total = Cardinality(SignedUp)
              /\ Has("overview", "active") => view.active <= Cardinality(SignedUp)
              /\ Has("overview", "sizes") => SumFunction(view.sizes) = Cardinality(SignedUp)

SpentBefore == {k \in Since(WindowFrom) : metered[k].at < view.to}
GrowthInv == Has("growth", "usage") => SumFunction(view.burned) >= Cardinality(SpentBefore)

PanelInv == PanelTables /\ IsView /\ PageInv /\ OverviewInv /\ GrowthInv

LEMMA LeastOfTwo ==
    ASSUME NEW a \in Int, NEW b \in Int
    PROVE  Min({a, b}) = IF a <= b THEN a ELSE b
<1> DEFINE m == IF a <= b THEN a ELSE b
<1>1. m \in {a, b} /\ \A y \in {a, b} : m <= y
  OBVIOUS
<1>2. \A x \in {a, b} : (\A y \in {a, b} : x <= y) => x = m
  OBVIOUS
<1> HIDE DEF m
<1>3. Min({a, b}) = m
  BY <1>1, <1>2 DEF Min
<1> QED  BY <1>3 DEF m

(* The tenants are finitely many, and so are those that signed up. *)
LEMMA SignedUpIsFinite ==
    ASSUME SignedUp \subseteq Tenants
    PROVE  IsFiniteSet(SignedUp) /\ Cardinality(SignedUp) \in Nat
BY PanelAssumption, FS_Subset, FS_CardinalityType

(* An ordering lists every workspace once; a page of it is a stretch of it. *)
LEMMA PagesOfAnOrder ==
    ASSUME SignedUp \subseteq Tenants, NEW sort, NEW p \in Orders(sort), NEW offset \in Nat
    PROVE  LET n == Cardinality(SignedUp)
               ids == PageOf(p, offset)
           IN  /\ n \in Nat /\ p \in [1..n -> SignedUp]
               /\ ids \in Seq(SignedUp)
               /\ Len(ids) = IF offset + PageSize <= n THEN PageSize
                             ELSE IF offset <= n THEN n - offset ELSE 0
               /\ \A k \in 1..Len(ids) : ids[k] = p[offset + k] /\ offset + k \in 1..n
               /\ IsInjective(ids)
               /\ \A t \in SignedUp : \E j \in 1..n : p[j] = t
<1> DEFINE n == Cardinality(SignedUp)
           ids == PageOf(p, offset)
           last == IF offset + PageSize <= n THEN offset + PageSize ELSE n
<1>1. n \in Nat /\ IsFiniteSet(SignedUp)
  BY SignedUpIsFinite
<1>2. p \in [1..n -> SignedUp] /\ \A i, j \in 1..n : i # j => p[i] # p[j]
  BY DEF Orders, SetToSeqs
<1>3. p \in Seq(SignedUp) /\ Len(p) = n
  BY <1>1, <1>2, SeqDef
<1> HIDE DEF n
<1>4. PageSize \in Nat
  BY PanelAssumption
<1>5. Min({offset + PageSize, Len(p)}) = last
  BY <1>1, <1>3, <1>4, LeastOfTwo
<1>6. ids = SubSeq(p, offset + 1, last)
  BY <1>5 DEF PageOf
<1>7. last \in Nat /\ last <= n
  BY <1>1, <1>4
<1>8. /\ ids \in Seq(SignedUp)
      /\ Len(ids) = IF offset + 1 <= last THEN last - offset ELSE 0
      /\ \A k \in 1..Len(ids) : ids[k] = p[offset + k]
  <2> HIDE DEF last, ids
  <2> QED  BY <1>1, <1>3, <1>6, <1>7
<1>9. Len(ids) = IF offset + PageSize <= n THEN PageSize ELSE IF offset <= n THEN n - offset ELSE 0
  <2> HIDE DEF ids
  <2> QED  BY <1>1, <1>4, <1>8, PanelAssumption
<1>10. \A k \in 1..Len(ids) : offset + k \in 1..n
  <2> HIDE DEF ids
  <2> QED  BY <1>1, <1>4, <1>9
<1>11. IsInjective(ids)
  <2> HIDE DEF ids
  <2>1. DOMAIN ids = 1..Len(ids)
    BY <1>8
  <2>2. \A a, b \in 1..Len(ids) : ids[a] = ids[b] => a = b
    BY <1>2, <1>8, <1>10
  <2> QED  BY <2>1, <2>2 DEF IsInjective
<1>12. \A t \in SignedUp : \E j \in 1..n : p[j] = t
  <2>1. p \in Injection(1..n, SignedUp)
    BY <1>2 DEF Injection, IsInjective
  <2>2. IsFiniteSet(1..n) /\ Cardinality(1..n) = n
    BY <1>1, FS_Interval
  <2>3. p \in Surjection(1..n, SignedUp)
    BY <1>1, <2>1, <2>2, FS_Injection DEF n
  <2> QED  BY <2>3 DEF Surjection
<1> QED  BY <1>1, <1>2, <1>8, <1>9, <1>10, <1>11, <1>12 DEF n

(* HourOf of a moment before or after the epoch. *)
LEMMA HoursGrow ==
    ASSUME NEW a \in Int, NEW b \in Int, a <= b
    PROVE  HourOf(a) \in Int /\ HourOf(b) \in Int /\ HourOf(a) <= HourOf(b)
<1> DEFINE x == HourOf(a)
           y == HourOf(b)
<1>0. DayHours \in Nat \ {0}
  BY PanelAssumption
<1>1. x \in Int /\ y \in Int /\ DayHours * x <= a /\ b < DayHours * y + DayHours
  BY <1>0 DEF HourOf
<1> HIDE DEF x, y
<1>2. DayHours * x < DayHours * (y + 1)
  BY <1>0, <1>1
<1>3. ASSUME y + 1 <= x  PROVE FALSE
  <2>1. PICK k \in Nat : x = (y + 1) + k
    BY <1>1, <1>3, x - (y + 1) \in Nat, x = (y + 1) + (x - (y + 1))
  <2>2. DayHours * x = DayHours * (y + 1) + DayHours * k /\ DayHours * k \in Nat
    BY <1>0, <1>1, <2>1
  <2> QED  BY <1>0, <1>1, <1>2, <2>2
<1>4. x <= y
  BY <1>1, <1>3
<1> QED  BY <1>1, <1>4 DEF x, y

(* Every workspace is of one size. *)
LEMMA SizesAddUp ==
    ASSUME PanelTables
    PROVE  SumFunction(TeamSizes) = Cardinality(SignedUp)
<1> DEFINE part == [t \in SignedUp |-> BucketOf(people[t])]
           of == [b \in TeamBuckets |-> {t \in SignedUp : part[t] = b}]
           G == TeamSizes
<1>1. IsFiniteSet(SignedUp)
  BY SignedUpIsFinite DEF PanelTables
<1>2. IsFiniteSet(TeamBuckets)
  <2>1. 1 \in Int /\ 4 \in Int
    OBVIOUS
  <2> QED  BY <2>1, FS_Interval DEF TeamBuckets
<1>3. ASSUME NEW t \in SignedUp  PROVE part[t] \in TeamBuckets
  <2>1. people[t] \in Nat
    BY PanelAssumption DEF PanelTables
  <2>2. TeamBounds[1] \in Nat /\ TeamBounds[2] \in Nat /\ TeamBounds[3] \in Nat
    <3>1. TeamBounds \in Seq(Nat) /\ 1 \in 1..Len(TeamBounds) /\ 2 \in 1..Len(TeamBounds)
          /\ 3 \in 1..Len(TeamBounds)
      BY PanelAssumption
    <3> QED  BY <3>1
  <2> QED  BY <2>1, <2>2 DEF BucketOf, TeamBuckets
<1>4. \A b \in TeamBuckets : of[b] = {t \in SignedUp : part[t] = b}
  OBVIOUS
<1>5. \A b \in TeamBuckets : G[b] = Cardinality(of[b])
  <2> SUFFICES ASSUME NEW b \in TeamBuckets  PROVE G[b] = Cardinality(of[b])
    OBVIOUS
  <2>1. of[b] = {t \in SignedUp : BucketOf(people[t]) = b}
    OBVIOUS
  <2> QED  BY <2>1 DEF TeamSizes
<1>6. SumFunction(TeamSizes) = SumFunctionOnSet(G, TeamBuckets)
  BY DEF TeamSizes, SumFunction
<1> HIDE DEF part, of, G
<1>7. SumFunctionOnSet(G, TeamBuckets) = Cardinality(SignedUp)
  BY <1>1, <1>2, <1>3, <1>4, <1>5, CountOfSorted
<1> QED  BY <1>6, <1>7

(* Who was active signed up. *)
LEMMA ActiveAreSignedUp ==
    ASSUME PanelTables, NEW es \in SUBSET DOMAIN metered
    PROVE  /\ Cardinality({metered[k].tenant : k \in es}) \in Nat
           /\ Cardinality({metered[k].tenant : k \in es}) <= Cardinality(SignedUp)
<1>1. {metered[k].tenant : k \in es} \in SUBSET SignedUp
  BY DEF PanelTables
<1>2. IsFiniteSet(SignedUp)
  BY SignedUpIsFinite DEF PanelTables
<1> QED  BY <1>1, <1>2, FS_Subset, FS_CardinalityType

LEMMA UsageIsPlotted ==
    ASSUME PanelTables, IsView,
           NEW bars, bars = [d \in GrowthDays |->
                               Cardinality({k \in Since(WindowFrom) : HourOf(metered[k].at) = d})]
    PROVE  SumFunction(bars) >= Cardinality(SpentBefore)
<1> DEFINE S == {k \in Since(WindowFrom) : HourOf(metered[k].at) \in GrowthDays}
           part == [k \in S |-> HourOf(metered[k].at)]
           of == [d \in GrowthDays |-> {k \in S : part[k] = d}]
<1>0. /\ DOMAIN metered = 1..Len(metered) /\ Len(metered) \in Nat
      /\ \A k \in DOMAIN metered : metered[k].at \in Nat
  <2>1. metered \in Seq(MeteredRun)
    BY DEF PanelTables
  <2>2. ASSUME NEW k \in DOMAIN metered  PROVE metered[k].at \in Nat
    <3>1. metered[k] \in MeteredRun
      BY <2>1
    <3> QED  BY <3>1 DEF MeteredRun
  <2> QED  BY <2>1, <2>2
<1>1. WindowFrom \in Int /\ view.to \in Nat /\ WindowFrom <= view.to
  BY PanelAssumption DEF WindowFrom, IsView
<1>2. IsFiniteSet(DOMAIN metered)
  BY <1>0, FS_Interval
<1>3. S \in SUBSET DOMAIN metered /\ Since(WindowFrom) \in SUBSET DOMAIN metered
  BY DEF Since
<1>4. IsFiniteSet(S)
  <2> HIDE DEF S
  <2> QED  BY <1>2, <1>3, FS_Subset
<1>5. IsFiniteSet(GrowthDays)
  <2>1. HourOf(WindowFrom) \in Int /\ HourOf(view.to) \in Int
    BY <1>1, HoursGrow
  <2> QED  BY <2>1, FS_Interval DEF GrowthDays
<1>6. \A k \in S : part[k] \in GrowthDays
  OBVIOUS
<1>7. \A d \in GrowthDays : of[d] = {k \in S : part[k] = d}
  OBVIOUS
<1>8. ASSUME NEW d \in GrowthDays  PROVE bars[d] = Cardinality(of[d])
  <2>1. of[d] = {k \in Since(WindowFrom) : HourOf(metered[k].at) = d}
    OBVIOUS
  <2> QED  BY <2>1
<1>9. SumFunction(bars) = SumFunctionOnSet(bars, GrowthDays)
  BY DEF SumFunction
<1>10. SumFunctionOnSet(bars, GrowthDays) = Cardinality(S)
  <2> DEFINE G == bars
             days == GrowthDays
  <2>1. \A d \in days : G[d] = Cardinality(of[d])
    BY <1>8
  <2>2. IsFiniteSet(days) /\ (\A k \in S : part[k] \in days)
        /\ \A d \in days : of[d] = {k \in S : part[k] = d}
    BY <1>5, <1>6, <1>7
  <2> HIDE DEF S, part, of, G, days
  <2>3. SumFunctionOnSet(G, days) = Cardinality(S)
    BY <1>4, <2>1, <2>2, CountOfSorted
  <2> QED  BY <2>3 DEF G, days
<1>11. SpentBefore \subseteq S
  <2> SUFFICES ASSUME NEW k \in SpentBefore  PROVE HourOf(metered[k].at) \in GrowthDays
    BY DEF SpentBefore
  <2>1. metered[k].at \in Int /\ WindowFrom <= metered[k].at /\ metered[k].at <= view.to
    BY <1>0, <1>1 DEF SpentBefore, Since
  <2> QED  BY <1>1, <2>1, HoursGrow DEF GrowthDays
<1>12. Cardinality(SpentBefore) <= Cardinality(S) /\ Cardinality(SpentBefore) \in Nat /\ Cardinality(S) \in Nat
  <2> HIDE DEF S
  <2> QED  BY <1>4, <1>11, FS_Subset, FS_CardinalityType
<1> QED  BY <1>9, <1>10, <1>12

LEMMA PanelInvSuffices == PanelInv => PanelTellsTheTruth
<1> SUFFICES ASSUME PanelInv  PROVE PageIsOfThePlatform /\ HeadlinesFit
  BY DEF PanelTellsTheTruth
<1>0. PanelTables /\ IsView /\ PageInv /\ OverviewInv /\ GrowthInv
  BY DEF PanelInv
<1>1. PageIsOfThePlatform
  <2> SUFFICES ASSUME Shows("page")
               PROVE  /\ IsInjective(view.ids) /\ Len(view.ids) <= PageSize
                      /\ ~stale =>
                           /\ Len(view.ids) < PageSize => LastRank >= view.total
                           /\ \A i, j \in DOMAIN view.shown : i < j =>
                                /\ view.sort = "members" => view.shown[i].members >= view.shown[j].members
                                /\ view.sort = "activity" => view.shown[i].last >= view.shown[j].last
                           /\ view.offset = 0 =>
                                \A t \in SignedUp \ ToSet(view.ids), k \in DOMAIN view.ids :
                                   /\ view.sort = "members" => people[t] <= view.shown[k].members
                                   /\ view.sort = "activity" => LastRun(t) <= view.shown[k].last
    BY DEF PageIsOfThePlatform
  <2>1. Has("page", "driver") /\ Has("page", "count")
    BY <1>0 DEF Shows, Has, IsView
  <2>2. IsInjective(view.ids) /\ Len(view.ids) <= PageSize
    BY <1>0, <2>1 DEF PageInv
  <2> SUFFICES ASSUME ~stale
               PROVE  /\ Len(view.ids) < PageSize => LastRank >= view.total
                      /\ \A i, j \in DOMAIN view.shown : i < j =>
                           /\ view.sort = "members" => view.shown[i].members >= view.shown[j].members
                           /\ view.sort = "activity" => view.shown[i].last >= view.shown[j].last
                      /\ view.offset = 0 =>
                           \A t \in SignedUp \ ToSet(view.ids), k \in DOMAIN view.ids :
                              /\ view.sort = "members" => people[t] <= view.shown[k].members
                              /\ view.sort = "activity" => LastRun(t) <= view.shown[k].last
    BY <2>2
  <2> DEFINE n == Cardinality(SignedUp)
             ids == view.ids
  <2>3. view.total = n /\ view.shown = RowsShown
    BY <1>0, <2>1 DEF PageInv
  <2>4. PICK p \in Orders(view.sort) : view.ids = PageOf(p, view.offset)
    BY <1>0, <2>1 DEF PageInv
  <2>5. SignedUp \subseteq Tenants /\ view.offset \in Nat /\ PageSize \in Nat
    BY <1>0, PanelAssumption DEF PanelTables, IsView
  <2>6. /\ n \in Nat /\ p \in [1..n -> SignedUp] /\ ids \in Seq(SignedUp)
        /\ Len(ids) = IF view.offset + PageSize <= n THEN PageSize
                      ELSE IF view.offset <= n THEN n - view.offset ELSE 0
        /\ \A k \in 1..Len(ids) : ids[k] = p[view.offset + k] /\ view.offset + k \in 1..n
        /\ \A t \in SignedUp : \E j \in 1..n : p[j] = t
    <3> DEFINE off == view.offset
               page == PageOf(p, off)
    <3>1. off \in Nat
      BY <2>5
    <3> HIDE DEF off
    <3>2. /\ n \in Nat /\ p \in [1..n -> SignedUp] /\ page \in Seq(SignedUp)
          /\ Len(page) = IF off + PageSize <= n THEN PageSize
                         ELSE IF off <= n THEN n - off ELSE 0
          /\ \A k \in 1..Len(page) : page[k] = p[off + k] /\ off + k \in 1..n
          /\ \A t \in SignedUp : \E j \in 1..n : p[j] = t
      BY <2>4, <2>5, <3>1, PagesOfAnOrder
    <3>3. page = ids
      BY <2>4 DEF off
    <3> HIDE DEF page, n
    <3> QED  BY <3>2, <3>3 DEF off
  <2>7. DOMAIN p = 1..n /\ DOMAIN ids = 1..Len(ids) /\ Len(ids) \in Nat
    BY <2>6
  <2>8. \A x, y \in 1..n : x < y => SortKey(view.sort, p[x]) >= SortKey(view.sort, p[y])
    BY <2>4, <2>7 DEF Orders
  <2>9. /\ DOMAIN view.shown = 1..Len(ids)
        /\ \A k \in 1..Len(ids) : /\ view.shown[k].members = people[ids[k]]
                                  /\ view.shown[k].last = LastRun(ids[k])
    BY <2>3, <2>7 DEF RowsShown
  <2>10. /\ view.sort = "members" => \A t \in SignedUp : SortKey(view.sort, t) = people[t]
         /\ view.sort = "activity" => \A t \in SignedUp : SortKey(view.sort, t) = LastRun(t)
    BY DEF SortKey
  <2>11. Len(view.ids) < PageSize => LastRank >= view.total
    BY <2>3, <2>5, <2>6 DEF LastRank
  <2>12. ASSUME NEW x \in DOMAIN view.shown, NEW y \in DOMAIN view.shown, x < y
         PROVE  /\ view.sort = "members" => view.shown[x].members >= view.shown[y].members
                /\ view.sort = "activity" => view.shown[x].last >= view.shown[y].last
    <3>1. x \in 1..Len(ids) /\ y \in 1..Len(ids)
      BY <2>9, <2>12
    <3>2. SortKey(view.sort, ids[x]) >= SortKey(view.sort, ids[y])
      <4>1. /\ ids[x] = p[view.offset + x] /\ view.offset + x \in 1..n
            /\ ids[y] = p[view.offset + y] /\ view.offset + y \in 1..n
        BY <2>6, <3>1
      <4>2. view.offset + x < view.offset + y
        BY <2>5, <2>7, <2>12, <3>1
      <4> QED  BY <2>8, <4>1, <4>2
    <3>3. ids[x] \in SignedUp /\ ids[y] \in SignedUp
      BY <2>6, <3>1
    <3> QED  BY <2>9, <2>10, <3>1, <3>2, <3>3
  <2>13. ASSUME view.offset = 0, NEW t \in SignedUp \ ToSet(view.ids), NEW k \in DOMAIN view.ids
         PROVE  /\ view.sort = "members" => people[t] <= view.shown[k].members
                /\ view.sort = "activity" => LastRun(t) <= view.shown[k].last
    <3>1. PICK j \in 1..n : p[j] = t
      BY <2>6
    <3>2. k \in 1..Len(ids) /\ ids[k] = p[k] /\ k \in 1..n /\ ids[k] \in SignedUp
      BY <2>6, <2>7, <2>13
    <3>3. ~(j <= Len(ids))
      <4> SUFFICES ASSUME j <= Len(ids)  PROVE FALSE
        OBVIOUS
      <4>1. j \in 1..Len(ids)
        BY <2>7, <3>1
      <4>2. ids[j] = t
        BY <2>6, <2>13, <3>1, <4>1
      <4> QED  BY <2>7, <2>13, <4>1, <4>2 DEF ToSet
    <3>4. k < j
      BY <2>7, <3>1, <3>2, <3>3
    <3>5. SortKey(view.sort, ids[k]) >= SortKey(view.sort, t)
      BY <2>8, <3>1, <3>2, <3>4
    <3> QED  BY <2>9, <2>10, <3>2, <3>5
  <2> QED  BY <2>11, <2>12, <2>13
<1>2. HeadlinesFit
  <2>1. ASSUME Shows("overview")
        PROVE  /\ IdleTeams >= 0
               /\ ~stale => /\ IdleTeams + view.active = view.total
                            /\ SumFunction(view.sizes) = view.total
    <3>1. Has("overview", "count") /\ Has("overview", "active") /\ Has("overview", "sizes")
      BY <1>0, <2>1 DEF Shows, Has, IsView
    <3>2. view.total \in Nat /\ view.active \in Nat
      BY <1>0 DEF IsView
    <3>3. ~stale => /\ view.total = Cardinality(SignedUp) /\ view.active <= Cardinality(SignedUp)
                    /\ SumFunction(view.sizes) = Cardinality(SignedUp)
      BY <1>0, <3>1 DEF OverviewInv
    <3> QED  BY <3>2, <3>3 DEF IdleTeams
  <2>2. ASSUME Shows("growth")
        PROVE  SumFunction(view.burned) >= Cardinality({k \in Since(WindowFrom) : metered[k].at < view.to})
    BY <1>0, <2>2 DEF Shows, Has, IsView, GrowthInv, SpentBefore
  <2> QED  BY <2>1, <2>2 DEF HeadlinesFit
<1> QED  BY <1>1, <1>2

-----------------------------------------------------------------------------
(* The queries do not depend on the answers already had. *)
LEMMA TablesStay ==
    ASSUME UNCHANGED <<born, people, metered>>, view'.to = view.to
    PROVE  /\ \A sort : Orders(sort)' = Orders(sort)
           /\ \A t : LastRun(t)' = LastRun(t)
           /\ SignedUp' = SignedUp /\ TeamSizes' = TeamSizes
           /\ SpentBefore' = SpentBefore
<1>1. \A t : LastRun(t)' = LastRun(t)
  BY DEF LastRun, RunsOf
<1>2. \A sort, t : SortKey(sort, t)' = SortKey(sort, t)
  BY <1>1 DEF SortKey
<1>3. SignedUp' = SignedUp
  BY DEF SignedUp
<1>4. \A sort : Orders(sort)' = Orders(sort)
  BY <1>2, <1>3 DEF Orders
<1>5. TeamSizes' = TeamSizes
  BY <1>3 DEF TeamSizes
<1>6. SpentBefore' = SpentBefore
  BY DEF SpentBefore, Since, WindowFrom
<1> QED  BY <1>1, <1>3, <1>4, <1>5, <1>6

(* A write: no customer leaves, and what was spent in the window stays so. *)
LEMMA WriteKeepsView ==
    ASSUME PanelInv, PanelTables', UNCHANGED <<moment, view>>, Ages,
           SignedUp \subseteq SignedUp', SpentBefore' = SpentBefore
    PROVE  PanelInv'
<1>0. PanelTables /\ IsView /\ PageInv /\ OverviewInv /\ GrowthInv
  BY DEF PanelInv
<1>1. IsView'
  <2>1. stale' \in BOOLEAN
    BY <1>0 DEF Ages, IsView
  <2>2. view.ids \in Seq(SignedUp')
    BY <1>0 DEF IsView
  <2> QED  BY <1>0, <2>1, <2>2 DEF IsView
<1>2. view.kind # "none" => stale'
  <2>1. NoView.kind = "none"
    BY DEF NoView
  <2> QED  BY <1>0, <2>1 DEF IsView, Ages
<1>3. PageInv'
  BY <1>0, <1>2 DEF PageInv, Has, Shows
<1>4. OverviewInv'
  BY <1>0, <1>2 DEF OverviewInv, Has
<1>5. GrowthInv'
  BY <1>0 DEF GrowthInv, Has
<1> QED  BY <1>1, <1>3, <1>4, <1>5 DEF PanelInv

LEMMA SignUpInv == PanelInv /\ SignUp => PanelInv'
<1> SUFFICES ASSUME PanelInv, SignUp  PROVE PanelInv'
  OBVIOUS
<1>0. PanelTables
  BY DEF PanelInv
<1>1. PICK t \in Tenants \ SignedUp :
        born' = [u \in SignedUp \cup {t} |-> IF u = t THEN moment ELSE born[u]]
  BY DEF SignUp
<1>2. UNCHANGED <<moment, people, metered, view>> /\ Ages
  BY DEF SignUp
<1>3. SignedUp' = SignedUp \cup {t}
  BY <1>1 DEF SignedUp
<1>4. PanelTables'
  BY <1>0, <1>1, <1>2, <1>3 DEF PanelTables
<1>5. SpentBefore' = SpentBefore
  BY <1>2 DEF SpentBefore, Since, WindowFrom
<1> QED  BY <1>2, <1>3, <1>4, <1>5, WriteKeepsView

LEMMA JoinInv == PanelInv /\ Join => PanelInv'
<1> SUFFICES ASSUME PanelInv, Join  PROVE PanelInv'
  OBVIOUS
<1>0. PanelTables
  BY DEF PanelInv
<1>1. PICK t \in SignedUp : people[t] < MaxPeople /\ people' = [people EXCEPT ![t] = @ + 1]
  BY DEF Join
<1>2. UNCHANGED <<moment, born, metered, view>> /\ Ages
  BY DEF Join
<1>3. SignedUp' = SignedUp
  BY <1>2 DEF SignedUp
<1>4. people' \in [Tenants -> 0..MaxPeople]
  BY <1>0, <1>1, PanelAssumption DEF PanelTables
<1>5. PanelTables'
  BY <1>0, <1>2, <1>3, <1>4 DEF PanelTables
<1>6. SpentBefore' = SpentBefore
  BY <1>2 DEF SpentBefore, Since, WindowFrom
<1> QED  BY <1>2, <1>3, <1>5, <1>6, WriteKeepsView

LEMMA RunOnceInv == PanelInv /\ RunOnce => PanelInv'
<1> SUFFICES ASSUME PanelInv, RunOnce  PROVE PanelInv'
  OBVIOUS
<1>0. PanelTables /\ IsView
  BY DEF PanelInv
<1>1. PICK t \in SignedUp : metered' = Append(metered, [tenant |-> t, at |-> moment])
  BY DEF RunOnce
<1>2. UNCHANGED <<moment, born, people, view>> /\ Ages /\ Len(metered) < MaxRuns
  BY DEF RunOnce
<1>3. SignedUp' = SignedUp
  BY <1>2 DEF SignedUp
<1> DEFINE new == [tenant |-> t, at |-> moment]
<1>4. new \in MeteredRun
  BY <1>0, <1>1 DEF PanelTables, MeteredRun
<1>5. /\ metered \in Seq(MeteredRun) /\ Len(metered) \in Nat /\ DOMAIN metered = 1..Len(metered)
  BY <1>0 DEF PanelTables
<1>6. /\ metered' \in Seq(MeteredRun) /\ Len(metered') = Len(metered) + 1
      /\ DOMAIN metered' = 1..(Len(metered) + 1)
      /\ \A k \in 1..Len(metered) : metered'[k] = metered[k]
      /\ metered'[Len(metered) + 1] = new
  <2> HIDE DEF new
  <2> QED  BY <1>1, <1>4, <1>5 DEF new
<1>7. new.tenant = t /\ new.at = moment
  OBVIOUS
<1>8. PanelTables'
  <2>1. \A k \in DOMAIN metered' : metered'[k].tenant \in SignedUp /\ metered'[k].at <= moment
    <3> SUFFICES ASSUME NEW k \in 1..(Len(metered) + 1)
                 PROVE  metered'[k].tenant \in SignedUp /\ metered'[k].at <= moment
      BY <1>6
    <3> HIDE DEF new
    <3>1. CASE k = Len(metered) + 1
      BY <1>0, <1>1, <1>6, <1>7, <3>1 DEF PanelTables
    <3>2. CASE k # Len(metered) + 1
      <4>1. k \in 1..Len(metered)
        BY <1>5, <3>2
      <4> QED  BY <1>0, <1>5, <1>6, <4>1 DEF PanelTables
    <3> QED  BY <3>1, <3>2
  <2>2. Len(metered') <= MaxRuns
    BY <1>2, <1>5, <1>6, PanelAssumption
  <2> QED  BY <1>0, <1>2, <1>3, <1>6, <2>1, <2>2 DEF PanelTables
<1>9. SpentBefore' = SpentBefore
  <2> DEFINE from == WindowFrom
             to == view.to
  <2>0. WindowFrom' = WindowFrom /\ view'.to = to
    BY <1>2 DEF WindowFrom
  <2>1. to <= moment /\ to \in Nat /\ moment \in Nat
    BY <1>0 DEF IsView, PanelTables
  <2>2. SpentBefore = {k \in 1..Len(metered) : metered[k].at >= from /\ metered[k].at < to}
    BY <1>5 DEF SpentBefore, Since
  <2>3. SpentBefore' = {k \in 1..(Len(metered) + 1) : metered'[k].at >= from /\ metered'[k].at < to}
    BY <1>6, <2>0 DEF SpentBefore, Since
  <2>4. ~(metered'[Len(metered) + 1].at < to)
    BY <1>6, <1>7, <2>1
  <2> HIDE DEF from, to, new
  <2>5. ASSUME NEW k \in SpentBefore  PROVE k \in SpentBefore'
    BY <1>5, <1>6, <2>2, <2>3, <2>5
  <2>6. ASSUME NEW k \in SpentBefore'  PROVE k \in SpentBefore
    <3>1. k # Len(metered) + 1
      BY <2>3, <2>4, <2>6
    <3>2. k \in 1..Len(metered)
      BY <1>5, <2>3, <2>6, <3>1
    <3> QED  BY <1>6, <2>2, <2>3, <2>6, <3>2
  <2> QED  BY <2>5, <2>6
<1> QED  BY <1>2, <1>3, <1>8, <1>9, WriteKeepsView

LEMMA TablesKept ==
    ASSUME PanelTables, UNCHANGED <<moment, born, people, metered>>
    PROVE  PanelTables'
<1>1. SignedUp' = SignedUp
  BY DEF SignedUp
<1> QED  BY <1>1 DEF PanelTables

LEMMA MomentPassesInv == PanelInv /\ MomentPasses => PanelInv'
<1> SUFFICES ASSUME PanelInv, MomentPasses  PROVE PanelInv'
  OBVIOUS
<1>0. PanelTables /\ IsView /\ PageInv /\ OverviewInv /\ GrowthInv
  BY DEF PanelInv
<1>1. UNCHANGED <<born, people, metered, view, stale>> /\ moment' = moment + 1 /\ moment < MaxMoment
  BY DEF MomentPasses
<1>2. /\ \A sort : Orders(sort)' = Orders(sort)
      /\ \A t : LastRun(t)' = LastRun(t)
      /\ SignedUp' = SignedUp /\ SpentBefore' = SpentBefore
  BY <1>1, TablesStay
<1>3. \A k \in DOMAIN metered : metered[k].at \in Nat
  <2> SUFFICES ASSUME NEW k \in DOMAIN metered  PROVE metered[k].at \in Nat
    OBVIOUS
  <2>1. metered[k] \in MeteredRun
    BY <1>0 DEF PanelTables
  <2> QED  BY <2>1 DEF MeteredRun
<1>4. PanelTables'
  BY <1>0, <1>1, <1>2, <1>3, PanelAssumption DEF PanelTables
<1>5. IsView'
  <2>1. view'.to <= moment'
    BY <1>0, <1>1 DEF IsView, PanelTables
  <2> QED  BY <1>0, <1>1, <1>2, <2>1 DEF IsView
<1>6. RowsShown' = RowsShown
  BY <1>1, <1>2 DEF RowsShown
<1>7. PageInv'
  BY <1>0, <1>1, <1>2, <1>6 DEF PageInv, Has, Shows, PageOf
<1>8. OverviewInv' /\ GrowthInv'
  BY <1>0, <1>1, <1>2 DEF OverviewInv, GrowthInv, Has
<1> QED  BY <1>4, <1>5, <1>7, <1>8 DEF PanelInv

(* A request: nothing is answered yet. *)
LEMMA BeginsInv ==
    ASSUME PanelInv, NEW kind \in {"page", "overview", "growth"}, NEW sort \in Sorts,
           NEW offset \in Nat, Begins(kind, sort, offset, Queries(kind))
    PROVE  PanelInv'
<1>0. PanelTables /\ IsView
  BY DEF PanelInv
<1>1. UNCHANGED <<moment, born, people, metered, stale>>
  BY DEF Begins
<1>2. /\ view'.kind = kind /\ view'.pc = "asked" /\ view'.sort = sort /\ view'.offset = offset
      /\ view'.to = moment /\ view'.awaited = Queries(kind) /\ view'.ids = <<>>
      /\ view'.total = 0 /\ view'.active = 0
      /\ view' = [f \in DOMAIN NoView |-> view'[f]]
  BY DEF Begins, NoView
<1>3. PanelTables'
  BY <1>0, <1>1, TablesKept
<1>4. IsView'
  <2>0. <<>> \in Seq(SignedUp)
    BY EmptySeq
  <2>1. <<>> \in Seq(SignedUp) /\ SignedUp' = SignedUp /\ moment \in Nat /\ moment <= moment
    BY <1>0, <1>1, <2>0 DEF PanelTables, SignedUp
  <2>2. view'.ids \in Seq(SignedUp)'
    BY <1>2, <2>1
  <2>3. /\ view'.kind \in {"none", "page", "overview", "growth"}
        /\ view'.pc \in {"none", "asked", "answered"} /\ view'.pc # "none" /\ view'.pc # "answered"
        /\ view'.offset \in Nat /\ view'.to \in Nat /\ view'.to <= moment'
        /\ view'.total \in Nat /\ view'.active \in Nat
    BY <1>1, <1>2, <2>1
  <2>4. view'.awaited \subseteq Queries(view'.kind)
    BY <1>2
  <2> QED  BY <1>0, <1>1, <1>2, <2>2, <2>3, <2>4 DEF IsView
<1>5. PageInv' /\ OverviewInv' /\ GrowthInv'
  BY <1>2 DEF PageInv, OverviewInv, GrowthInv, Has, Shows, Queries
<1> QED  BY <1>3, <1>4, <1>5 DEF PanelInv

LEMMA DriveInv == PanelInv /\ Drive => PanelInv'
<1> SUFFICES ASSUME PanelInv, Drive  PROVE PanelInv'
  OBVIOUS
<1>0. PanelTables /\ IsView /\ PageInv
  BY DEF PanelInv
<1>1. PICK p \in Orders(view.sort) : view' = [Got("driver") EXCEPT !.ids = PageOf(p, view.offset)]
  BY DEF Drive
<1> DEFINE ids == PageOf(p, view.offset)
<1>2. /\ view.kind = "page" /\ view.pc = "asked" /\ "driver" \in view.awaited
      /\ UNCHANGED <<moment, born, people, metered, stale>>
  BY DEF Drive, Queried, OnlyViews
<1>3. /\ view'.kind = "page" /\ view'.pc = "asked" /\ view'.sort = view.sort
      /\ view'.offset = view.offset /\ view'.to = view.to
      /\ view'.awaited = view.awaited \ {"driver"} /\ view'.ids = ids
      /\ view'.total = view.total /\ view'.active = view.active
      /\ view' = [f \in DOMAIN NoView |-> view'[f]]
  <2> HIDE DEF ids
  <2> QED  BY <1>0, <1>1, <1>2 DEF IsView, NoView, Got, ids
<1>4. ids \in Seq(SignedUp) /\ IsInjective(ids) /\ Len(ids) <= PageSize
  <2> DEFINE off == view.offset
             n == Cardinality(SignedUp)
             page == PageOf(p, off)
  <2>1. off \in Nat /\ SignedUp \subseteq Tenants /\ PageSize \in Nat
    BY <1>0, PanelAssumption DEF IsView, PanelTables
  <2> HIDE DEF off
  <2>2. /\ page \in Seq(SignedUp) /\ IsInjective(page) /\ n \in Nat
        /\ Len(page) = IF off + PageSize <= n THEN PageSize ELSE IF off <= n THEN n - off ELSE 0
    BY <2>1, <1>1, PagesOfAnOrder
  <2>3. Len(page) <= PageSize
    <3> HIDE DEF page, n
    <3> QED  BY <2>1, <2>2
  <2> QED  BY <2>2, <2>3 DEF off
<1>5. /\ \A sort : Orders(sort)' = Orders(sort)
      /\ SignedUp' = SignedUp
  BY <1>2, <1>3, TablesStay
<1>6. PanelTables'
  BY <1>0, <1>2, TablesKept
<1>7. IsView'
  <2> HIDE DEF ids
  <2> QED  BY <1>0, <1>2, <1>3, <1>4, <1>5 DEF IsView
<1>8. Shows("page")' = FALSE /\ Has("page", "count")' = Has("page", "count")
  BY <1>2, <1>3 DEF Shows, Has
<1>9. PageInv'
  <2>1. PICK sort : sort = view.sort
    OBVIOUS
  <2>2. PICK off : off = view.offset
    OBVIOUS
  <2>3. p \in Orders(sort)' /\ ids = PageOf(p, off)
    BY <1>1, <1>5, <2>1, <2>2
  <2> HIDE DEF ids
  <2>4. (\E q \in Orders(view.sort) : view.ids = PageOf(q, view.offset))'
    BY <1>3, <2>1, <2>2, <2>3 DEF PageOf
  <2>5. view'.total = view.total /\ stale' = stale /\ SignedUp' = SignedUp
    BY <1>2, <1>3, <1>5
  <2> QED  BY <1>0, <1>3, <1>4, <1>8, <2>4, <2>5 DEF PageInv
<1>10. OverviewInv' /\ GrowthInv'
  BY <1>3 DEF OverviewInv, GrowthInv, Has
<1> QED  BY <1>6, <1>7, <1>9, <1>10 DEF PanelInv

(* The count of a page and of the headlines, one query. *)
LEMMA CountInv ==
    ASSUME PanelInv, view.pc = "asked", OnlyViews,
           view' = [Got("count") EXCEPT !.total = Cardinality(SignedUp)]
    PROVE  PanelInv'
<1>0. PanelTables /\ IsView /\ PageInv /\ OverviewInv /\ GrowthInv
  BY DEF PanelInv
<1>2. UNCHANGED <<moment, born, people, metered, stale>>
  BY DEF OnlyViews
<1>3. /\ view'.kind = view.kind /\ view'.pc = "asked" /\ view'.sort = view.sort
      /\ view'.offset = view.offset /\ view'.to = view.to
      /\ view'.awaited = view.awaited \ {"count"} /\ view'.ids = view.ids
      /\ view'.total = Cardinality(SignedUp) /\ view'.active = view.active
      /\ view'.sizes = view.sizes /\ view'.burned = view.burned
      /\ view' = [f \in DOMAIN NoView |-> view'[f]]
  BY <1>0 DEF IsView, NoView, Got
<1>4. Cardinality(SignedUp) \in Nat
  BY <1>0, SignedUpIsFinite DEF PanelTables
<1>5. /\ \A sort : Orders(sort)' = Orders(sort)
      /\ SignedUp' = SignedUp /\ SpentBefore' = SpentBefore
  BY <1>2, <1>3, TablesStay
<1>6. PanelTables'
  BY <1>0, <1>2, TablesKept
<1>7. IsView'
  BY <1>0, <1>2, <1>3, <1>4, <1>5 DEF IsView
<1>8. PageInv'
  BY <1>0, <1>2, <1>3, <1>5 DEF PageInv, Has, Shows, PageOf
<1>9. OverviewInv' /\ GrowthInv'
  BY <1>0, <1>2, <1>3, <1>5 DEF OverviewInv, GrowthInv, Has
<1> QED  BY <1>6, <1>7, <1>8, <1>9 DEF PanelInv

LEMMA FillPageInv == PanelInv /\ FillPage => PanelInv'
<1> SUFFICES ASSUME PanelInv, FillPage  PROVE PanelInv'
  OBVIOUS
<1>0. PanelTables /\ IsView /\ PageInv
  BY DEF PanelInv
<1>1. /\ view.kind = "page" /\ view.awaited = {}
      /\ view' = [view EXCEPT !.pc = "answered", !.shown = RowsShown]
      /\ UNCHANGED <<moment, born, people, metered, stale>>
  BY DEF FillPage, OnlyViews, RowsShown
<1>2. /\ view'.kind = "page" /\ view'.pc = "answered" /\ view'.sort = view.sort
      /\ view'.offset = view.offset /\ view'.to = view.to
      /\ view'.awaited = {} /\ view'.ids = view.ids
      /\ view'.total = view.total /\ view'.active = view.active
      /\ view'.shown = RowsShown
      /\ view' = [f \in DOMAIN NoView |-> view'[f]]
  BY <1>0, <1>1 DEF IsView, NoView
<1>3. /\ \A sort : Orders(sort)' = Orders(sort)
      /\ \A t : LastRun(t)' = LastRun(t)
      /\ SignedUp' = SignedUp
  BY <1>1, <1>2, TablesStay
<1>4. RowsShown' = RowsShown
  BY <1>1, <1>2, <1>3 DEF RowsShown
<1>5. PanelTables'
  BY <1>0, <1>1, TablesKept
<1>6. IsView'
  BY <1>0, <1>1, <1>2, <1>3 DEF IsView
<1>7. PageInv'
  BY <1>0, <1>1, <1>2, <1>3, <1>4 DEF PageInv, Has, Shows, PageOf
<1>8. OverviewInv' /\ GrowthInv'
  BY <1>2 DEF OverviewInv, GrowthInv, Has
<1> QED  BY <1>5, <1>6, <1>7, <1>8 DEF PanelInv

LEMMA HeadlineInv == PanelInv /\ Headline => PanelInv'
<1> SUFFICES ASSUME PanelInv, Headline  PROVE PanelInv'
  OBVIOUS
<1>0. PanelTables /\ IsView /\ OverviewInv
  BY DEF PanelInv
<1>1. view.kind = "overview" /\ view.pc = "asked" /\ UNCHANGED <<moment, born, people, metered, stale>>
  BY DEF Headline, Queried, OnlyViews
<1>2. PanelTables'
  BY <1>0, <1>1, TablesKept
<1>3. CASE view' = [Got("count") EXCEPT !.total = Cardinality(SignedUp)]
  BY <1>1, <1>3, CountInv DEF OnlyViews
<1>4. ASSUME NEW es \in SUBSET DOMAIN metered,
             view' = [Got("active") EXCEPT !.active = Cardinality({metered[k].tenant : k \in es})]
      PROVE  PanelInv'
  <2> DEFINE active == Cardinality({metered[k].tenant : k \in es})
  <2>1. active \in Nat /\ active <= Cardinality(SignedUp)
    BY <1>0, ActiveAreSignedUp
  <2>2. view' = [Got("active") EXCEPT !.active = active]
    BY <1>4
  <2> HIDE DEF active
  <2>3. /\ view'.kind = "overview" /\ view'.pc = "asked" /\ view'.sort = view.sort
        /\ view'.offset = view.offset /\ view'.to = view.to
        /\ view'.awaited = view.awaited \ {"active"} /\ view'.ids = view.ids
        /\ view'.total = view.total /\ view'.active = active /\ view'.sizes = view.sizes
        /\ view' = [f \in DOMAIN NoView |-> view'[f]]
    BY <1>0, <1>1, <2>2 DEF IsView, NoView, Got
  <2>4. SignedUp' = SignedUp
    BY <1>1 DEF SignedUp
  <2>5. IsView'
    BY <1>0, <1>1, <2>1, <2>3, <2>4 DEF IsView
  <2>6. PageInv' /\ GrowthInv'
    BY <2>3 DEF PageInv, GrowthInv, Has, Shows
  <2>7. OverviewInv'
    BY <1>0, <1>1, <2>1, <2>3, <2>4 DEF OverviewInv, Has
  <2> QED  BY <1>2, <2>5, <2>6, <2>7 DEF PanelInv
<1>5. CASE view' = [Got("sizes") EXCEPT !.sizes = TeamSizes]
  <2>1. SumFunction(TeamSizes) = Cardinality(SignedUp)
    BY <1>0, SizesAddUp
  <2>3. /\ view'.kind = "overview" /\ view'.pc = "asked" /\ view'.sort = view.sort
        /\ view'.offset = view.offset /\ view'.to = view.to
        /\ view'.awaited = view.awaited \ {"sizes"} /\ view'.ids = view.ids
        /\ view'.total = view.total /\ view'.active = view.active /\ view'.sizes = TeamSizes
        /\ view' = [f \in DOMAIN NoView |-> view'[f]]
    BY <1>0, <1>1, <1>5 DEF IsView, NoView, Got
  <2>4. SignedUp' = SignedUp
    BY <1>1 DEF SignedUp
  <2>5. IsView'
    BY <1>0, <1>1, <2>3, <2>4 DEF IsView
  <2>6. PageInv' /\ GrowthInv'
    BY <2>3 DEF PageInv, GrowthInv, Has, Shows
  <2>7. OverviewInv'
    BY <1>0, <1>1, <2>1, <2>3, <2>4 DEF OverviewInv, Has
  <2> QED  BY <1>2, <2>5, <2>6, <2>7 DEF PanelInv
<1>6. Since(WindowFrom) \in SUBSET DOMAIN metered
  BY DEF Since
<1> QED  BY <1>3, <1>4, <1>5, <1>6 DEF Headline

LEMMA PlotInv == PanelInv /\ Plot => PanelInv'
<1> SUFFICES ASSUME PanelInv, Plot  PROVE PanelInv'
  OBVIOUS
<1>0. PanelTables /\ IsView /\ GrowthInv
  BY DEF PanelInv
<1>1. view.kind = "growth" /\ view.pc = "asked" /\ UNCHANGED <<moment, born, people, metered, stale>>
  BY DEF Plot, Queried, OnlyViews
<1>2. PanelTables'
  BY <1>0, <1>1, TablesKept
<1>3. ASSUME NEW bars, view' = [Got("signups") EXCEPT !.joined = bars]
      PROVE  PanelInv'
  <2>3. /\ view'.kind = "growth" /\ view'.pc = "asked" /\ view'.sort = view.sort
        /\ view'.offset = view.offset /\ view'.to = view.to
        /\ view'.awaited = view.awaited \ {"signups"} /\ view'.ids = view.ids
        /\ view'.total = view.total /\ view'.active = view.active /\ view'.burned = view.burned
        /\ view' = [f \in DOMAIN NoView |-> view'[f]]
    BY <1>0, <1>1, <1>3 DEF IsView, NoView, Got
  <2>4. SignedUp' = SignedUp /\ SpentBefore' = SpentBefore
    BY <1>1, <2>3, TablesStay
  <2>5. IsView'
    BY <1>0, <1>1, <2>3, <2>4 DEF IsView
  <2>6. PageInv' /\ OverviewInv'
    BY <2>3 DEF PageInv, OverviewInv, Has, Shows
  <2>7. GrowthInv'
    BY <1>0, <1>1, <2>3, <2>4 DEF GrowthInv, Has
  <2> QED  BY <1>2, <2>5, <2>6, <2>7 DEF PanelInv
<1>4. ASSUME NEW bars, SumFunction(bars) >= Cardinality(SpentBefore),
             view' = [Got("usage") EXCEPT !.burned = bars]
      PROVE  PanelInv'
  <2>3. /\ view'.kind = "growth" /\ view'.pc = "asked" /\ view'.sort = view.sort
        /\ view'.offset = view.offset /\ view'.to = view.to
        /\ view'.awaited = view.awaited \ {"usage"} /\ view'.ids = view.ids
        /\ view'.total = view.total /\ view'.active = view.active /\ view'.burned = bars
        /\ view' = [f \in DOMAIN NoView |-> view'[f]]
    BY <1>0, <1>1, <1>4 DEF IsView, NoView, Got
  <2>4. SignedUp' = SignedUp /\ SpentBefore' = SpentBefore
    BY <1>1, <2>3, TablesStay
  <2>5. IsView'
    BY <1>0, <1>1, <2>3, <2>4 DEF IsView
  <2>6. PageInv' /\ OverviewInv'
    BY <2>3 DEF PageInv, OverviewInv, Has, Shows
  <2>7. GrowthInv'
    BY <1>4, <2>3, <2>4 DEF GrowthInv, Has
  <2> QED  BY <1>2, <2>5, <2>6, <2>7 DEF PanelInv
<1> DEFINE usage == [d \in GrowthDays |->
                       Cardinality({k \in Since(WindowFrom) : HourOf(metered[k].at) = d})]
<1>5. SumFunction(usage) >= Cardinality(SpentBefore)
  BY <1>0, UsageIsPlotted
<1>6. \/ \E bars : view' = [Got("signups") EXCEPT !.joined = bars]
      \/ view' = [Got("usage") EXCEPT !.burned = usage]
  BY DEF Plot
<1> HIDE DEF usage
<1> QED  BY <1>3, <1>4, <1>5, <1>6

(* No request at all. *)
LEMMA NothingAsked ==
    ASSUME NEW S
    PROVE  /\ NoView = [f \in DOMAIN NoView |-> NoView[f]]
           /\ NoView.kind = "none" /\ NoView.pc = "none" /\ NoView.sort \in Sorts
           /\ NoView.offset = 0 /\ NoView.to = 0 /\ NoView.total = 0 /\ NoView.active = 0
           /\ NoView.ids \in Seq(S) /\ NoView.awaited = {}
<1>1. NoView.ids = <<>> /\ <<>> \in Seq(S)
  BY EmptySeq DEF NoView
<1> QED  BY <1>1 DEF NoView, Sorts

LEMMA NextPanelInv == PanelInv /\ [PanelNext]_panelVars => PanelInv'
<1> SUFFICES ASSUME PanelInv, [PanelNext]_panelVars  PROVE PanelInv'
  OBVIOUS
<1>0. PanelTables /\ IsView /\ PageInv /\ OverviewInv /\ GrowthInv
  BY DEF PanelInv
<1>1. CASE SignUp \/ Join \/ RunOnce \/ MomentPasses
  BY <1>1, SignUpInv, JoinInv, RunOnceInv, MomentPassesInv
<1>2. CASE AskPage
  <2>1. PICK sort \in Sorts, offset \in {0, PageSize} : Begins("page", sort, offset, {"driver", "count"})
    BY <1>2 DEF AskPage
  <2>2. offset \in Nat /\ Queries("page") = {"driver", "count"}
    BY PanelAssumption DEF Queries
  <2> QED  BY <2>1, <2>2, BeginsInv
<1>3. CASE AskOverview
  <2>1. Queries("overview") = {"count", "active", "sizes"} /\ "created" \in Sorts
    BY DEF Queries, Sorts
  <2> QED  BY <1>3, <2>1, BeginsInv DEF AskOverview
<1>4. CASE AskGrowth
  <2>1. Queries("growth") = {"signups", "usage"} /\ "created" \in Sorts
    BY DEF Queries, Sorts
  <2> QED  BY <1>4, <2>1, BeginsInv DEF AskGrowth
<1>5. CASE Drive \/ FillPage \/ Headline \/ Plot
  BY <1>5, DriveInv, FillPageInv, HeadlineInv, PlotInv
<1>6. CASE CountAll
  BY <1>6, CountInv DEF CountAll, Queried
<1>7. CASE AnswerView
  <2>1. /\ view.kind \in {"overview", "growth"} /\ view.awaited = {}
        /\ view' = [view EXCEPT !.pc = "answered"]
        /\ UNCHANGED <<moment, born, people, metered, stale>>
    BY <1>7 DEF AnswerView, OnlyViews
  <2>2. /\ view'.kind = view.kind /\ view'.pc = "answered" /\ view'.sort = view.sort
        /\ view'.offset = view.offset /\ view'.to = view.to
        /\ view'.awaited = {} /\ view'.ids = view.ids
        /\ view'.total = view.total /\ view'.active = view.active
        /\ view'.burned = view.burned /\ view'.sizes = view.sizes
        /\ view' = [f \in DOMAIN NoView |-> view'[f]]
    BY <1>0, <2>1 DEF IsView, NoView
  <2>3. SignedUp' = SignedUp /\ SpentBefore' = SpentBefore
    BY <2>1, <2>2, TablesStay
  <2>4. PanelTables'
    BY <1>0, <2>1, TablesKept
  <2>5. IsView'
    BY <1>0, <2>1, <2>2, <2>3 DEF IsView
  <2>6. PageInv'
    BY <2>1, <2>2 DEF PageInv, Has, Shows
  <2>7. OverviewInv' /\ GrowthInv'
    BY <1>0, <2>1, <2>2, <2>3 DEF OverviewInv, GrowthInv, Has
  <2> QED  BY <2>4, <2>5, <2>6, <2>7 DEF PanelInv
<1>8. CASE CloseView
  <2>1. view' = NoView /\ stale' = FALSE /\ UNCHANGED <<moment, born, people, metered>>
    BY <1>8 DEF CloseView
  <2>2. PanelTables'
    BY <1>0, <2>1, TablesKept
  <2>3. IsView'
    <3>1. /\ SignedUp' = SignedUp /\ moment' \in Nat
          /\ view' = NoView /\ stale' \in BOOLEAN
      BY <1>0, <2>1 DEF PanelTables, SignedUp
    <3>2. 0 \in Nat /\ 0 <= moment'
      BY <3>1
    <3> QED  BY <3>1, <3>2, NothingAsked DEF IsView
  <2>4. view'.kind = "none"
    BY <2>1 DEF NoView
  <2> QED  BY <2>2, <2>3, <2>4 DEF PanelInv, PageInv, OverviewInv, GrowthInv, Has, Shows
<1>9. CASE UNCHANGED panelVars
  <2>1. UNCHANGED <<moment, born, people, metered, view, stale>>
    BY <1>9 DEF panelVars
  <2>2. /\ \A sort : Orders(sort)' = Orders(sort)
        /\ \A t : LastRun(t)' = LastRun(t)
        /\ SignedUp' = SignedUp /\ SpentBefore' = SpentBefore
    BY <2>1, TablesStay
  <2>3. RowsShown' = RowsShown
    BY <2>1, <2>2 DEF RowsShown
  <2>4. PanelTables' /\ IsView'
    BY <1>0, <2>1, <2>2, TablesKept DEF IsView
  <2>5. PageInv'
    BY <1>0, <2>1, <2>2, <2>3 DEF PageInv, Has, Shows, PageOf
  <2>6. OverviewInv' /\ GrowthInv'
    BY <1>0, <2>1, <2>2 DEF OverviewInv, GrowthInv, Has
  <2> QED  BY <2>4, <2>5, <2>6 DEF PanelInv
<1> QED  BY <1>1, <1>2, <1>3, <1>4, <1>5, <1>6, <1>7, <1>8, <1>9 DEF PanelNext

LEMMA InitPanelInv == PanelInit => PanelInv
<1> SUFFICES ASSUME PanelInit  PROVE PanelInv
  OBVIOUS
<1>1. /\ moment = 0 /\ SignedUp = {} /\ people = [t \in Tenants |-> 0] /\ metered = <<>>
      /\ view = NoView /\ stale = FALSE
  BY DEF PanelInit, SignedUp
<1>2. metered \in Seq(MeteredRun) /\ DOMAIN metered = {} /\ Len(metered) = 0
  BY <1>1
<1>3. PanelTables
  BY <1>1, <1>2, PanelAssumption DEF PanelTables
<1>4. IsView
  <2>1. 0 \in Nat /\ 0 <= moment
    BY <1>1
  <2>2. stale \in BOOLEAN
    BY <1>1, Zenon
  <2> QED  BY <1>1, <2>1, <2>2, NothingAsked DEF IsView
<1>5. view.kind = "none"
  BY <1>1 DEF NoView
<1> QED  BY <1>3, <1>4, <1>5 DEF PanelInv, PageInv, OverviewInv, GrowthInv, Has, Shows

(* A page of the customer table is a page of the platform, and the headline
   numbers and the growth chart fit each other, whatever customers write while
   the queries of a view are answered. *)
THEOREM PanelIsTrue == PanelSpec => []PanelTellsTheTruth
BY InitPanelInv, NextPanelInv, PanelInvSuffices, PTL DEF PanelSpec

LEMMA PanelTypes == PanelInv => PanelTypeOK
<1> SUFFICES ASSUME PanelInv  PROVE PanelTypeOK
  OBVIOUS
<1>1. PanelTables /\ IsView
  BY DEF PanelInv
<1>2. ToSet(view.ids) \subseteq SignedUp
  BY <1>1 DEF IsView, ToSet
<1>3. moment \in 0..MaxMoment
  BY <1>1, PanelAssumption DEF PanelTables
<1> QED  BY <1>1, <1>2, <1>3 DEF PanelTypeOK, PanelTables, IsView

-----------------------------------------------------------------------------
(* The sum.  What is not followed does not move, so the invariants of all      *)
(* components hold at once, whichever a behaviour follows.                     *)

(* An account that was connected, to Meta or through Pipedream, can be used by *)
(* those it was connected for, for as long as it was: the property of the      *)
(* platform's run.                                                             *)
THEOREM ConnectionsStand == PlatformSpec => []ConnectionsHold
<1> DEFINE Inv == ConnectionsInv /\ AppsInv
<1>1. PlatformInit => Inv
  BY InitConnectionsInv, InitAppsInv DEF PlatformInit
<1>2. Inv /\ [PlatformNext]_<<focus, accountVars, spaceVars, connectionVars, conversationVars,
                              accountsVars, seedingVars, panelVars, bugVars>> => Inv'
  <2>1. [PlatformNext]_<<focus, accountVars, spaceVars, connectionVars, conversationVars,
                         accountsVars, seedingVars, panelVars, bugVars>>
          => [ConnectionsNext]_connectionVars /\ [AppAccountsNext]_accountsVars
    BY DEF PlatformNext
  <2> QED  BY <2>1, NextConnectionsInv, AppsStep
<1>3. Inv => ConnectionsHold
  <2>1. ConnectionsInv => ConnectionSurvives
    BY ConnectionIsUsable
  <2>2. AppsInv => PrivateStaysPrivate /\ DisconnectedIsGone
    BY PrivateByBucket, GoneOnBothSides
  <2> QED  BY <2>1, <2>2 DEF ConnectionsHold
<1> QED  BY <1>1, <1>2, <1>3, PTL DEF PlatformSpec

(* What the super-admins read of the platform is what is in its tables, and    *)
(* what they write of a bug report agrees with itself (listWorkspaces,         *)
(* overview, growth, updateBugReport).                                         *)
THEOREM OwnersReadTheTruth == PlatformSpec => []SuperAdminTellsTheTruth
<1> DEFINE Inv == PanelInv /\ BugsInv
<1>1. PlatformInit => Inv
  BY InitPanelInv, InitBugsInv DEF PlatformInit
<1>2. Inv /\ [PlatformNext]_<<focus, accountVars, spaceVars, connectionVars, conversationVars,
                              accountsVars, seedingVars, panelVars, bugVars>> => Inv'
  <2>1. [PlatformNext]_<<focus, accountVars, spaceVars, connectionVars, conversationVars,
                         accountsVars, seedingVars, panelVars, bugVars>>
          => [PanelNext]_panelVars /\ [BugsNext]_bugVars
    BY DEF PlatformNext
  <2> QED  BY <2>1, NextPanelInv, BugsStep
<1>3. Inv => SuperAdminTellsTheTruth
  BY PanelInvSuffices, BugsAgree DEF SuperAdminTellsTheTruth
<1> QED  BY <1>1, <1>2, <1>3, PTL DEF PlatformSpec

(* What users and the assistant wrote into a Space is there, and the rows of   *)
(* the assistant point where it meant them to: the property of the platform's  *)
(* run on both sides.                                                          *)
THEOREM SpacesHoldWork == PlatformSpec => []SpacesKeepWork
<1> DEFINE Inv == SpacesInv /\ SeedingInv
<1>1. PlatformInit => Inv
  BY InitSpacesInv, InitSeedingInv DEF PlatformInit
<1>2. Inv /\ [PlatformNext]_<<focus, accountVars, spaceVars, connectionVars, conversationVars,
                              accountsVars, seedingVars, panelVars, bugVars>> => Inv'
  <2>1. [PlatformNext]_<<focus, accountVars, spaceVars, connectionVars, conversationVars,
                         accountsVars, seedingVars, panelVars, bugVars>>
          => [SpacesNext]_spaceVars /\ [SeedingNext]_seedingVars
    BY DEF PlatformNext
  <2> QED  BY <2>1, NextSpacesInv, SeedingStep
<1>3. Inv => SpacesKeepWork
  <2>1. SeedingInv => LinkedAsNamed
    BY LinkedRows DEF SeedingInv, RowsInv
  <2>2. SpacesInv => WorkIsKept
    BY DEF SpacesInv
  <2> QED  BY <2>1, <2>2 DEF SpacesKeepWork
<1> QED  BY <1>1, <1>2, <1>3, PTL DEF PlatformSpec

(* Every table, request, session, token, handler and page has the form the code *)
(* gives it, and the counts stay in their bounds, in all parts of the platform. *)
THEOREM PlatformTypes == PlatformSpec => []PlatformTypeOK
<1> DEFINE Inv == /\ AccountsInv /\ SpacesInv /\ ConnectionsInv /\ ConversationInv /\ AppsInv
                  /\ SeedingInv /\ PanelInv /\ BugsInv
                  /\ SpacesBounds /\ ConnectionsBounds /\ ConversationBounds
           Follows == focus \in {"accounts", "spaces", "connections", "conversation", "apps",
                                "seeding", "panel", "bugs"}
<1>1. PlatformInit => Inv /\ Follows
  BY InitAccountsInv, InitSpacesInv, InitConnectionsInv, InitConversationInv, InitAppsInv,
     InitSeedingInv, InitPanelInv, InitBugsInv, InitSpacesBounds, InitConnectionsBounds,
     InitConversationBounds DEF PlatformInit
<1>2. Inv /\ Follows /\ [PlatformNext]_<<focus, accountVars, spaceVars, connectionVars,
                              conversationVars, accountsVars, seedingVars, panelVars, bugVars>>
          => Inv' /\ Follows'
  <2>1. [PlatformNext]_<<focus, accountVars, spaceVars, connectionVars, conversationVars,
                         accountsVars, seedingVars, panelVars, bugVars>>
          => /\ UNCHANGED focus
             /\ [AccountsNext]_accountVars /\ [SpacesNext]_spaceVars
             /\ [ConnectionsNext]_connectionVars /\ [ConversationNext]_conversationVars
             /\ [AppAccountsNext]_accountsVars /\ [SeedingNext]_seedingVars
             /\ [PanelNext]_panelVars /\ [BugsNext]_bugVars
    BY DEF PlatformNext
  <2> QED  BY <2>1, NextAccountsInv, NextSpacesInv, NextConnectionsInv, NextConversationInv,
              AppsStep, SeedingStep, NextPanelInv, BugsStep, SpacesBoundsStep,
              ConnectionsBoundsStep, ConversationBoundsStep
<1>3. Inv /\ Follows => PlatformTypeOK
  <2>1. AppsInv => AppAccountsTypeOK
    BY DEF AppsInv, AppsTyped
  <2>2. BugsInv => BugsTypeOK
    BY DEF BugsInv, BugsTyped, BugsTypeOK, Bug, Triage
  <2>3. AccountsInv => AccountsTypeOK
    BY DEF AccountsInv
  <2> QED  BY <2>1, <2>2, <2>3, SpacesTypes, ConnectionsTypes, ConversationTypes, SeedingTypes,
              PanelTypes DEF PlatformTypeOK
<1> QED  BY <1>1, <1>2, <1>3, PTL DEF PlatformSpec

=============================================================================
