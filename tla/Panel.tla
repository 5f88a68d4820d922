------------------------------- MODULE Panel -------------------------------
(***************************************************************************)
(* The platform owner's panel over all workspaces                          *)
(* (src/super-admin/super-admin.service.ts): the customer table, paged and *)
(* sorted by figures of other tables, the headline numbers and the growth  *)
(* chart.  Each view is several queries; those of one batch reach the      *)
(* database in any order, and customers go on signing up, inviting people  *)
(* and running the assistant in between.                                   *)
(*                                                                         *)
(* A view only reads, so one at a time is every view.                      *)
(***************************************************************************)
EXTENDS Integers, SequencesExt

CONSTANTS
    Tenants,      \* workspaces that may sign up
    NameRank,     \* per workspace, where its name sorts
    TeamBounds,   \* the sizes that divide solo, small, medium and large (1, 5, 20)
    PageSize,
    DayHours,     \* moments in a UTC day
    WindowLength, \* moments in the `days` asked for
    MaxPeople,    \* bounds on a team, the runs and the clock
    MaxRuns,
    MaxMoment

ASSUME PanelAssumption ==
    /\ NameRank \in [Tenants -> Nat]
    /\ TeamBounds \in Seq(Nat) /\ Len(TeamBounds) = 3
    /\ TeamBounds[1] < TeamBounds[2] /\ TeamBounds[2] < TeamBounds[3]
    /\ PageSize \in Nat \ {0} /\ DayHours \in Nat \ {0}
    /\ IsFiniteSet(Tenants) /\ {WindowLength, MaxPeople, MaxRuns, MaxMoment} \subseteq Nat

VARIABLES
    moment,     \* the clock
    born,       \* workspaces: createdAt, per workspace that signed up
    people,     \* users, counted per workspace
    metered,    \* credit_events: workspace and createdAt, one credit each
    view,       \* the request being answered
    stale       \* history: something was written since its first query

panelVars == <<moment, born, people, metered, view, stale>>

NeverRan == -1
HourOf(t) == t \div DayHours
SignedUp == DOMAIN born
RunsOf(t) == {k \in DOMAIN metered : metered[k].tenant = t}
Since(from) == {k \in DOMAIN metered : metered[k].at >= from}

Sorts == {"members", "activity", "name", "created"}
TeamBuckets == 1..4
NoView == [kind |-> "none", pc |-> "none", sort |-> "created", offset |-> 0, to |-> 0,
           awaited |-> {}, ids |-> <<>>, total |-> 0, shown |-> <<>>,
           active |-> 0, sizes |-> <<>>, joined |-> <<>>, burned |-> <<>>]

PanelInit ==
    /\ moment = 0
    /\ born = [t \in {} |-> 0]
    /\ people = [t \in Tenants |-> 0]
    /\ metered = <<>>
    /\ view = NoView
    /\ stale = FALSE

----------------------------------------------------------------------------
(* What the customers do meanwhile. *)

Ages == stale' = (stale \/ view.pc # "none")

\* The row comes first, its members with the sign-in or the first message.
SignUp ==
    /\ \E t \in Tenants \ SignedUp :
         born' = [u \in SignedUp \cup {t} |-> IF u = t THEN moment ELSE born[u]]
    /\ Ages /\ UNCHANGED <<moment, people, metered, view>>

Join ==
    /\ \E t \in SignedUp : people[t] < MaxPeople /\ people' = [people EXCEPT ![t] = @ + 1]
    /\ Ages /\ UNCHANGED <<moment, born, metered, view>>

RunOnce ==
    /\ Len(metered) < MaxRuns
    /\ \E t \in SignedUp : metered' = Append(metered, [tenant |-> t, at |-> moment])
    /\ Ages /\ UNCHANGED <<moment, born, people, view>>

MomentPasses ==
    /\ moment < MaxMoment
    /\ moment' = moment + 1
    /\ UNCHANGED <<born, people, metered, view, stale>>

----------------------------------------------------------------------------
(* listWorkspaces. *)

LastRun(t) ==
    LET times == {metered[k].at : k \in RunsOf(t)}
    IN  IF times = {} THEN NeverRan ELSE CHOOSE x \in times : \A y \in times : y <= x

(* What a workspace is sorted by, larger first; a workspace that has never
   run anything comes last.  Fault: NULL comes first, as it does by default. *)
SortKeyNullsFirst(sort, t) ==
    CASE sort = "members"  -> people[t]
      [] sort = "activity" -> IF RunsOf(t) = {} THEN MaxMoment + 1 ELSE LastRun(t)
      [] sort = "name"     -> -NameRank[t]
      [] OTHER             -> born[t]
SortKey(sort, t) ==
    CASE sort = "members"  -> people[t]
      [] sort = "activity" -> LastRun(t)
      [] sort = "name"     -> -NameRank[t]
      [] OTHER             -> born[t]

\* ORDER BY: equal keys end up in any order.
Orders(sort) ==
    {p \in SetToSeqs(SignedUp) :
        \A i, j \in DOMAIN p : i < j => SortKey(sort, p[i]) >= SortKey(sort, p[j])}

\* LIMIT and OFFSET.
PageOf(p, offset) == SubSeq(p, offset + 1, Min({offset + PageSize, Len(p)}))

Begins(kind, sort, offset, queries) ==
    /\ view.pc = "none"
    /\ view' = [NoView EXCEPT !.kind = kind, !.pc = "asked", !.sort = sort, !.offset = offset,
                              !.to = moment, !.awaited = queries]
    /\ UNCHANGED <<moment, born, people, metered, stale>>

AskPage ==
    \E sort \in Sorts, offset \in {0, PageSize} : Begins("page", sort, offset, {"driver", "count"})

Queried(kind, query) == view.kind = kind /\ view.pc = "asked" /\ query \in view.awaited
Got(query) == [view EXCEPT !.awaited = @ \ {query}]
OnlyViews == UNCHANGED <<moment, born, people, metered, stale>>

Drive ==
    /\ Queried("page", "driver")
    /\ \E p \in Orders(view.sort) :
         view' = [Got("driver") EXCEPT !.ids = PageOf(p, view.offset)]
    /\ OnlyViews

CountAll ==
    /\ Queried("page", "count")
    /\ view' = [Got("count") EXCEPT !.total = Cardinality(SignedUp)]
    /\ OnlyViews

(* The rows of the page and their aggregates, put back in the driver's order. *)
FillPage ==
    /\ view.kind = "page" /\ view.pc = "asked" /\ view.awaited = {}
    /\ view' = [view EXCEPT !.pc = "answered",
                            !.shown = [k \in DOMAIN view.ids |->
                                         [members |-> people[view.ids[k]], last |-> LastRun(view.ids[k])]]]
    /\ OnlyViews

----------------------------------------------------------------------------
(* overview. *)

BucketOf(size) ==
    CASE size <= TeamBounds[1] -> 1
      [] size > TeamBounds[1] /\ size <= TeamBounds[2] -> 2
      [] size > TeamBounds[2] /\ size <= TeamBounds[3] -> 3
      [] OTHER -> 4

\* teamSizes: workspaces without people count too.
TeamSizes == [b \in TeamBuckets |-> Cardinality({t \in SignedUp : BucketOf(people[t]) = b})]

WindowFrom == view.to - WindowLength

AskOverview == Begins("overview", "created", 0, {"count", "active", "sizes"})

Headline ==
    /\ \/ /\ Queried("overview", "count")
          /\ view' = [Got("count") EXCEPT !.total = Cardinality(SignedUp)]
       \/ /\ Queried("overview", "active")
          /\ view' = [Got("active") EXCEPT
                        !.active = Cardinality({metered[k].tenant : k \in Since(WindowFrom)})]
       \/ Queried("overview", "sizes") /\ view' = [Got("sizes") EXCEPT !.sizes = TeamSizes]
    /\ OnlyViews

\* Math.max(total - active, 0).  Fault: not clamped.
IdleUnclamped == view.total - view.active
IdleTeams == IF view.total >= view.active THEN view.total - view.active ELSE 0

----------------------------------------------------------------------------
(* growth. *)

AskGrowth == Begins("growth", "created", 0, {"signups", "usage"})

GrowthDays == HourOf(WindowFrom)..HourOf(view.to)

Plot ==
    /\ \/ /\ Queried("growth", "signups")
          /\ view' = [Got("signups") EXCEPT
               !.joined = [d \in GrowthDays |->
                  Cardinality({t \in SignedUp : born[t] >= WindowFrom /\ HourOf(born[t]) = d})]]
       \/ /\ Queried("growth", "usage")
          /\ view' = [Got("usage") EXCEPT
               !.burned = [d \in GrowthDays |->
                  Cardinality({k \in Since(WindowFrom) : HourOf(metered[k].at) = d})]]
    /\ OnlyViews

AnswerView ==
    /\ view.kind \in {"overview", "growth"} /\ view.pc = "asked" /\ view.awaited = {}
    /\ view' = [view EXCEPT !.pc = "answered"]
    /\ OnlyViews

CloseView ==
    /\ view.pc = "answered"
    /\ view' = NoView /\ stale' = FALSE
    /\ UNCHANGED <<moment, born, people, metered>>

PanelNext ==
    \/ SignUp \/ Join \/ RunOnce \/ MomentPasses
    \/ AskPage \/ Drive \/ CountAll \/ FillPage
    \/ AskOverview \/ Headline \/ AskGrowth \/ Plot \/ AnswerView \/ CloseView

PanelSpec == PanelInit /\ [][PanelNext]_panelVars

----------------------------------------------------------------------------
PanelTypeOK ==
    /\ moment \in 0..MaxMoment /\ SignedUp \subseteq Tenants
    /\ people \in [Tenants -> 0..MaxPeople] /\ Len(metered) <= MaxRuns
    /\ view.kind \in {"none", "page", "overview", "growth"} /\ view.sort \in Sorts
    /\ ToSet(view.ids) \subseteq SignedUp
    /\ stale \in BOOLEAN

Shows(kind) == view.kind = kind /\ view.pc = "answered"
LastRank == view.offset + Len(view.ids)

(* A page of the table is a page of the platform: no workspace is on it
   twice, the rows are in the order of the figures they show, those that
   never ran last, and the first page leaves out no workspace with a larger
   figure than one it has. *)
PageIsOfThePlatform ==
    Shows("page") =>
        /\ IsInjective(view.ids) /\ Len(view.ids) <= PageSize
        /\ ~stale =>
             /\ Len(view.ids) < PageSize => LastRank >= view.total
             /\ \A i, j \in DOMAIN view.shown : i < j =>
                  /\ view.sort = "members" => view.shown[i].members >= view.shown[j].members
                  /\ view.sort = "activity" => view.shown[i].last >= view.shown[j].last
             /\ view.offset = 0 =>
                  \A t \in SignedUp \ ToSet(view.ids), k \in DOMAIN view.ids :
                     /\ view.sort = "members" => people[t] <= view.shown[k].members
                     /\ view.sort = "activity" => LastRun(t) <= view.shown[k].last

(* The headline numbers fit each other: every workspace is in one of the
   four sizes, and it was idle or active; whatever is written meanwhile, no
   number is negative.  The chart has a bar for each day of the window and
   shows every credit spent in it before the request was made. *)
HeadlinesFit ==
    /\ Shows("overview") =>
         /\ IdleTeams >= 0
         /\ ~stale => /\ IdleTeams + view.active = view.total
                      /\ SumFunction(view.sizes) = view.total
    /\ Shows("growth") =>
         SumFunction(view.burned)
           >= Cardinality({k \in Since(WindowFrom) : metered[k].at < view.to})

PanelTellsTheTruth == PageIsOfThePlatform /\ HeadlinesFit

=============================================================================
