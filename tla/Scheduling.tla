----------------------------- MODULE Scheduling -----------------------------
(***************************************************************************)
(* What the four schedulers of the server have in common.  Scheduled       *)
(* tasks, ad rules and exports are rows with a cron expression and the     *)
(* materialised time of their next run; each running server wakes up every *)
(* minute (every hour for the monitor), reads the rows that are due and    *)
(* works through the copies it read.  A holder is one thread of control    *)
(* with such copies in memory: a server's tick, or a request being served. *)
(* Time is counted in ticks of the scheduler; a cron expression is the     *)
(* period it stands for.                                                   *)
(***************************************************************************)
EXTENDS Naturals, FiniteSets

CONSTANTS
    Servers,        \* the instances of the API process, each with its crons
    Requests,       \* the requests (HTTP or chat tools) served concurrently
    Periods,        \* the cron expressions in use
    Day,            \* ticks in a day
    MaxClock,       \* bound: the clock stops here
    MaxCrashes,     \* bound: deaths of a process
    Absent,         \* no such row
    Nobody          \* no row is being worked on

ASSUME SchedulingAssumption ==
    /\ Periods \subseteq Nat \ {0}
    /\ \E p \in Periods : \A q \in Periods : q <= p
    /\ MaxClock \in Nat \ {0}
    /\ Day \in Nat \ {0}
    /\ MaxCrashes \in Nat
    /\ IsFiniteSet(Servers)
    /\ Servers \cap Requests = {}

VARIABLES
    clock,          \* the time, in scheduler ticks, from 1
    crashes         \* processes that died

Holders == Servers \cup Requests
NotSet == 0
LastTime == MaxClock + CHOOSE p \in Periods : \A q \in Periods : q <= p
Times == 0 .. LastTime

\* Fault: the schedule skips the time that comes next.
NextRunSkips(period) == (clock \div period + 2) * period

\* nextRunFrom: the first time of the cron expression strictly after now.
NextRunFrom(period) == (clock \div period + 1) * period

\* The due query of runDueTasks, runDueRules and runDueExports.
IsDue(row) ==
    /\ row # Absent
    /\ row.isActive
    /\ row.nextRun # NotSet
    /\ row.nextRun <= clock

SchedulingInit == clock = 1 /\ crashes = 0

TimePasses == clock < MaxClock /\ clock' = clock + 1 /\ UNCHANGED crashes

OneMoreCrash == crashes < MaxCrashes /\ crashes' = crashes + 1 /\ UNCHANGED clock

=============================================================================
