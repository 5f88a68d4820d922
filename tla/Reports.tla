------------------------------ MODULE Reports ------------------------------
(***************************************************************************)
(* The spending report of a workspace (analyticsForWorkspace of            *)
(* src/usage/usage.service.ts for the Usage page, analytics of             *)
(* src/admin/admin.service.ts for the admin tab).                          *)
(*                                                                         *)
(* A report is put together from queries that are sent side by side, each  *)
(* of which sees the table of events as it is when the database gets to    *)
(* it.  Events are recorded and tasks deleted in between, so the figures   *)
(* of one report need not be of one moment.                                *)
(*                                                                         *)
(* An instant is a number; DayLength instants make a UTC day.              *)
(***************************************************************************)
EXTENDS Integers, Sequences, FiniteSetsExt

CONSTANTS
    JobIds,         \* the scheduled tasks at the start
    NoJob,          \* NULL in an event's taskId
    NewSpends,      \* what a run may be recorded as
    DayLength,
    MAX_RANGE,      \* the widest window a request may ask for
    TOP,            \* rows of a leaderboard (10)
    MaxInstant,     \* bound on the clock
    MaxMetered      \* bound on the table

ASSUME DayAssumption == DayLength \in Nat \ {0}
ASSUME TableAssumption == {TOP, MaxInstant, MaxMetered} \subseteq Nat
ASSUME SpendsAssumption ==
    \A e \in NewSpends :
        /\ e = [kind |-> e.kind, user |-> e.user, job |-> e.job, credits |-> e.credits]
        /\ e.credits \in Nat \ {0} /\ e.job \in JobIds \cup {NoJob}
        /\ e.kind = IF e.job = NoJob THEN "thread" ELSE "scheduled_task"

VARIABLES
    instant,    \* the clock
    metered,    \* credit_events, with their createdAt
    jobs,       \* scheduled_tasks
    report,     \* the request and the answers its queries have had
    torn        \* history: the tables changed between two of its queries

reportVars == <<instant, metered, jobs, report, torn>>

Moments == 0..MaxInstant
EventKinds == {"thread", "scheduled_task"}
DayOf(t) == t \div DayLength

----------------------------------------------------------------------------
(* The queries. *)

(* WHERE createdAt >= from AND createdAt <= to.  Fault: an open end. *)
ScopedOpen(range) == {e \in DOMAIN metered : metered[e].at >= range.from}
Scoped(range) == {e \in DOMAIN metered : metered[e].at \in range.from .. range.to}

Spend(es) == SumFunction([e \in es |-> metered[e].credits])

\* dailyUsageSplit: a row per day that saw events.
DailyUsage(range) ==
    [d \in {DayOf(metered[e].at) : e \in Scoped(range)} |->
        [k \in EventKinds |-> Spend({e \in Scoped(range) : /\ DayOf(metered[e].at) = d
                                                      /\ metered[e].kind = k})]]

CreditsByType(range) ==
    [k \in EventKinds |-> Spend({e \in Scoped(range) : metered[e].kind = k})]

(* GROUP BY, ORDER BY credits DESC LIMIT: ties end up in any order. *)
Leaders(es, GroupOf(_)) ==
    LET Of(g) == {e \in es : GroupOf(e) = g}
        groups == {GroupOf(e) : e \in es}
    IN  { [g \in top |-> Spend(Of(g))] :
            top \in {t \in kSubset(IF Cardinality(groups) < TOP THEN Cardinality(groups) ELSE TOP,
                                   groups) :
                       \A g \in t, h \in groups \ t : Spend(Of(g)) >= Spend(Of(h))} }

TopSpenders(range) == Leaders(Scoped(range), LAMBDA e : metered[e].user)

(* topTasks: its `where` takes the place of the window's conditions. *)
TopTasks == Leaders({e \in DOMAIN metered : metered[e].job # NoJob}, LAMBDA e : metered[e].job)

(* zeroFilledDays.  Fault: the cursor keeps the hour of `from`, and is past
   the last day's midnight before that day is out. *)
SeriesDaysUnfloored(range) ==
    {d \in DayOf(range.from)..DayOf(range.to) :
        d * DayLength + (range.from % DayLength) <= DayOf(range.to) * DayLength}
SeriesDays(range) == DayOf(range.from)..DayOf(range.to)

ZeroFilled(daily, range) ==
    [d \in SeriesDays(range) |-> IF d \in DOMAIN daily THEN daily[d] ELSE [k \in EventKinds |-> 0]]

----------------------------------------------------------------------------
Nothing == [g \in {} |-> 0]
Queries == {"daily", "spenders", "byType", "tasks"}
NoReport == [pc |-> "none", from |-> 0, to |-> 0, awaited |-> {}, daily |-> Nothing,
             spenders |-> Nothing, byType |-> Nothing, tasks |-> Nothing, named |-> Nothing]

ReportsInit ==
    /\ instant = 0
    /\ metered = <<>>
    /\ jobs = JobIds
    /\ report = NoReport
    /\ torn = FALSE

\* A write falls between two queries of a report.
Tears == torn' = (torn \/ (report.pc = "asked" /\ report.awaited # Queries))

(* recordEvent; the foreign key refuses an event of a task that is gone. *)
Meter ==
    /\ Len(metered) < MaxMetered
    /\ \E e \in NewSpends :
         /\ e.job \in jobs \cup {NoJob}
         /\ metered' = Append(metered, [at |-> instant, kind |-> e.kind, user |-> e.user,
                                      job |-> e.job, credits |-> e.credits])
    /\ Tears
    /\ UNCHANGED <<instant, jobs, report>>

(* A task is deleted, and its events' taskId is SET NULL. *)
DeleteJob ==
    /\ \E j \in jobs :
         /\ jobs' = jobs \ {j}
         /\ metered' = [e \in DOMAIN metered |->
                           IF metered[e].job = j THEN [metered[e] EXCEPT !.job = NoJob]
                           ELSE metered[e]]
    /\ Tears
    /\ UNCHANGED <<instant, report>>

ClockAdvances ==
    /\ instant < MaxInstant
    /\ instant' = instant + 1
    /\ UNCHANGED <<metered, jobs, report, torn>>

(* parseRange, then Promise.all; the admin tab's trailing window is one of
   these. *)
Ask ==
    /\ report.pc = "none"
    /\ \E from, to \in Moments :
         /\ from <= to /\ to - from <= MAX_RANGE
         /\ report' = [NoReport EXCEPT !.pc = "asked", !.from = from, !.to = to,
                                       !.awaited = Queries]
    /\ UNCHANGED <<instant, metered, jobs, torn>>

Answers(query, rows) ==
    /\ report.pc = "asked" /\ query \in report.awaited
    /\ report' = [report EXCEPT !.awaited = @ \ {query}, ![query] = rows]
    /\ UNCHANGED <<instant, metered, jobs, torn>>

Query ==
    \/ Answers("daily", DailyUsage(report))
    \/ \E rows \in TopSpenders(report) : Answers("spenders", rows)
    \/ Answers("byType", CreditsByType(report))
    \/ \E rows \in TopTasks : Answers("tasks", rows)

(* topTasks goes on to look the tasks up, and one may be gone by then; the
   report is whole when everything has been answered. *)
Compose ==
    /\ report.pc = "asked" /\ report.awaited = {}
    /\ report' = [report EXCEPT
         !.pc = "answered",
         !.named = [j \in DOMAIN report.tasks |-> IF j \in jobs THEN j ELSE "Deleted task"]]
    /\ UNCHANGED <<instant, metered, jobs, torn>>

Close ==
    /\ report.pc = "answered"
    /\ report' = NoReport
    /\ torn' = FALSE
    /\ UNCHANGED <<instant, metered, jobs>>

ReportsNext == Meter \/ DeleteJob \/ ClockAdvances \/ Ask \/ Query \/ Compose \/ Close

ReportsSpec == ReportsInit /\ [][ReportsNext]_reportVars

----------------------------------------------------------------------------
\* The figures of an answer.
BarOf(row) == row["thread"] + row["scheduled_task"]
SumOfDays(daily) == SumFunction([d \in DOMAIN daily |-> BarOf(daily[d])])
TotalCredits == SumOfDays(report.daily)
Series == ZeroFilled(report.daily, report)

ReportsTypeOK ==
    /\ instant \in Moments
    /\ Len(metered) <= MaxMetered /\ jobs \subseteq JobIds
    /\ \A e \in DOMAIN metered :
         /\ metered[e].at <= instant
         /\ metered[e].job # NoJob => metered[e].job \in jobs
    /\ report.pc \in {"none", "asked", "answered"} /\ report.awaited \subseteq Queries
    /\ torn \in BOOLEAN

(* The parts of a report are of one whole.  Whatever was written meanwhile,
   the chart has one bar for each day of the window and shows every credit
   of the total; and if nothing was, the two kinds add up to the total and
   the leading spenders have all of it, or a part if not all are listed. *)
ReportAddsUp ==
    report.pc = "answered" =>
        /\ DOMAIN Series = DayOf(report.from)..DayOf(report.to)
        /\ SumOfDays(Series) = TotalCredits
        /\ ~torn =>
             /\ SumFunction(report.byType) = TotalCredits
             /\ SumFunction(report.spenders) <= TotalCredits
             /\ Cardinality(DOMAIN report.spenders) < TOP => SumFunction(report.spenders) = TotalCredits

=============================================================================
