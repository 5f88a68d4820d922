------------------------------- MODULE Tasks -------------------------------
(***************************************************************************)
(* Scheduled tasks (tasks.service.ts, tasks.scheduler.ts,                  *)
(* tasks.controller.ts).  A task is a prompt run on a schedule.  The tick  *)
(* reads every due row, runs them one after the other (each run is a long  *)
(* conversation of the assistant followed by a Slack message) and then     *)
(* saves the copy it read, whole: the ORM writes every column that differs *)
(* from the row, and inserts the row when it is gone.  Members edit,       *)
(* pause, remove and run tasks meanwhile, and two servers may tick.        *)
(***************************************************************************)
EXTENDS Scheduling

CONSTANTS
    TaskIds,
    MaxEdits      \* bound: edits of the text of a task

VARIABLES
    tasks,          \* the scheduled_tasks table: the row of each id, or Absent
    taskHand,       \* what each holder has in memory
    wanted,         \* ghost: the rows as members last asked for them
    fired,          \* ghost: ticks that ran the task since nextRun last moved
    contested       \* ghost: two holders had the row at once, or one died or
                    \*        failed to save while it was running it

taskVars == <<clock, crashes, tasks, taskHand, wanted, fired, contested>>

TaskTypes == {"user", "system"}
\* version stands for the prompt, name, model and channel, which no decision reads
TaskRow == [type : TaskTypes, version : 0 .. MaxEdits, isActive : BOOLEAN,
            oneTime : BOOLEAN, period : Periods, nextRun : Times]
ASSUME TasksAssumption == MaxEdits \in Nat /\ Absent \notin TaskRow /\ Nobody \notin TaskIds

TaskOps == {"idle", "tick", "update", "runNow", "install", "backfill"}
NoTasks == [t \in TaskIds |-> Absent]
IdleHand == [op |-> "idle", copies |-> NoTasks, running |-> Nobody]

TasksTypeOK ==
    /\ clock \in 1 .. MaxClock
    /\ crashes \in 0 .. MaxCrashes
    /\ tasks \in [TaskIds -> TaskRow \cup {Absent}]
    /\ taskHand \in [Holders -> [op : TaskOps, copies : [TaskIds -> TaskRow \cup {Absent}],
                                 running : TaskIds \cup {Nobody}]]
    /\ wanted \in [TaskIds -> TaskRow \cup {Absent}]
    /\ fired \in [TaskIds -> Nat]
    /\ contested \in [TaskIds -> BOOLEAN]

TasksInit ==
    /\ SchedulingInit
    /\ tasks = NoTasks
    /\ taskHand = [h \in Holders |-> IdleHand]
    /\ wanted = NoTasks
    /\ fired = [t \in TaskIds |-> 0]
    /\ contested = [t \in TaskIds |-> FALSE]

-----------------------------------------------------------------------------
Held(t) == \E h \in Holders : taskHand[h].copies[t] # Absent

\* h reads the rows of the set ts into memory.
Reads(h, op, ts) ==
    /\ taskHand' = [taskHand EXCEPT ![h] =
            [op |-> op, running |-> Nobody,
             copies |-> [t \in TaskIds |-> IF t \in ts THEN tasks[t] ELSE Absent]]]
    /\ contested' = [t \in TaskIds |-> contested[t] \/ (t \in ts /\ Held(t))]

\* save(task): the whole row, inserted again if it was deleted meanwhile.
Saves(t, row) ==
    /\ tasks' = [tasks EXCEPT ![t] = row]
    /\ fired' = IF tasks[t] # Absent /\ tasks[t].nextRun = row.nextRun
                THEN fired ELSE [fired EXCEPT ![t] = 0]

\* Fault: the guard of the tick is never cleared.
DropsButStaysBusy(h, t) ==
    taskHand' = [taskHand EXCEPT ![h].copies[t] = Absent, ![h].running = Nobody]

\* The memory of h once it is done with its copy of t.
Drops(h, t) ==
    LET left == [taskHand[h].copies EXCEPT ![t] = Absent]
    IN  taskHand' = [taskHand EXCEPT ![h] =
            IF left = NoTasks THEN IdleHand
            ELSE [@ EXCEPT !.copies = left, !.running = Nobody]]

-----------------------------------------------------------------------------
(* The requests of members (tasks.controller.ts).                          *)

Create(t, period, oneTime) ==
    LET row == [type |-> "user", version |-> 0, isActive |-> TRUE, oneTime |-> oneTime,
                period |-> period, nextRun |-> NextRunFrom(period)]
    IN  /\ tasks[t] = Absent /\ wanted[t] = Absent /\ ~Held(t)
        /\ Saves(t, row)
        /\ wanted' = [wanted EXCEPT ![t] = row]
        /\ UNCHANGED <<clock, crashes, taskHand, contested>>

\* findOwned: there is such a row and it is not the system's.
Owned(t) == tasks[t] # Absent /\ tasks[t].type = "user"

UpdateRead(r, t) ==
    /\ taskHand[r] = IdleHand
    /\ Owned(t)
    /\ Reads(r, "update", {t})
    /\ UNCHANGED <<clock, crashes, tasks, wanted, fired>>

\* The fields the request gives.  The next run is recomputed when the cron
\* expression or the timezone is among them, and only then.
Patched(row, active, oneTime, period, rescheduled) ==
    [row EXCEPT !.version = @ + 1, !.isActive = active, !.oneTime = oneTime, !.period = period,
                !.nextRun = IF rescheduled THEN NextRunFrom(period) ELSE @]

UpdateSave(r, t, active, oneTime, period, rescheduled) ==
    LET row == taskHand[r].copies[t]
        new == Patched(row, active, oneTime, period, rescheduled)
    IN  /\ taskHand[r].op = "update" /\ row # Absent
        /\ row.version < MaxEdits
        /\ period # row.period => rescheduled
        /\ Saves(t, new)
        /\ wanted' = [wanted EXCEPT ![t] = new]
        /\ Drops(r, t)
        /\ UNCHANGED <<clock, crashes, contested>>

Remove(t) ==
    /\ Owned(t)
    /\ tasks' = [tasks EXCEPT ![t] = Absent]
    /\ wanted' = [wanted EXCEPT ![t] = Absent]
    /\ contested' = [contested EXCEPT ![t] = @ \/ Held(t)]
    /\ fired' = [fired EXCEPT ![t] = 0]
    /\ UNCHANGED <<clock, crashes, taskHand>>

\* Any task, paused ones and the system's included.
RunNow(r, t) ==
    /\ taskHand[r] = IdleHand
    /\ tasks[t] # Absent
    /\ Reads(r, "runNow", {t})
    /\ UNCHANGED <<clock, crashes, tasks, wanted, fired>>

-----------------------------------------------------------------------------
(* The check-in seeded at sign-in (auth.service.ts): find, then create.    *)

SystemTasks == {t \in TaskIds : tasks[t] # Absent /\ tasks[t].type = "system"}

CheckInFind(r) ==
    /\ taskHand[r] = IdleHand
    /\ SystemTasks = {}
    /\ taskHand' = [taskHand EXCEPT ![r].op = "install"]
    /\ UNCHANGED <<clock, crashes, tasks, wanted, fired, contested>>

CheckInCreate(r, t) ==
    LET period == CHOOSE p \in Periods : TRUE
        row == [type |-> "system", version |-> 0, isActive |-> TRUE, oneTime |-> FALSE,
                period |-> period, nextRun |-> NextRunFrom(period)]
    IN  /\ taskHand[r].op = "install"
        /\ tasks[t] = Absent /\ wanted[t] = Absent /\ ~Held(t)
        /\ Saves(t, row)
        /\ wanted' = [wanted EXCEPT ![t] = row]
        /\ taskHand' = [taskHand EXCEPT ![r] = IdleHand]
        /\ UNCHANGED <<clock, crashes, contested>>

\* A check-in that has no channel yet is given one, and saved.
CheckInFound(r, t) ==
    /\ taskHand[r] = IdleHand
    /\ t \in SystemTasks
    /\ Reads(r, "backfill", {t})
    /\ UNCHANGED <<clock, crashes, tasks, wanted, fired>>

Backfill(r, t) ==
    /\ taskHand[r].op = "backfill" /\ taskHand[r].copies[t] # Absent
    /\ Saves(t, taskHand[r].copies[t])
    /\ Drops(r, t)
    /\ UNCHANGED <<clock, crashes, wanted, contested>>

-----------------------------------------------------------------------------
(* The scheduler (TasksScheduler.tick, runDueTasks) and executeTask.       *)

DueTasks == {t \in TaskIds : IsDue(tasks[t])}

\* A server whose previous tick is over reads every due row.
TickStart(s) ==
    /\ taskHand[s] = IdleHand
    /\ DueTasks # {}
    /\ Reads(s, "tick", DueTasks)
    /\ UNCHANGED <<clock, crashes, tasks, wanted, fired>>

\* The prompt of the next copy goes to the assistant.
Execute(h, t) ==
    /\ taskHand[h].op \in {"tick", "runNow"}
    /\ taskHand[h].running = Nobody
    /\ taskHand[h].copies[t] # Absent
    /\ taskHand' = [taskHand EXCEPT ![h].running = t]
    /\ fired' = IF h \in Servers THEN [fired EXCEPT ![t] = @ + 1] ELSE fired
    /\ UNCHANGED <<clock, crashes, tasks, wanted, contested>>

\* Faults: the schedule is not advanced; a one-time task is treated as any other.
AfterRunStays(row) == IF row.oneTime THEN [row EXCEPT !.isActive = FALSE] ELSE row
AfterRunRepeats(row) == [row EXCEPT !.nextRun = NextRunFrom(row.period)]

\* What is written after a run, whether it succeeded or threw.
AfterRun(row) ==
    IF row.oneTime THEN [row EXCEPT !.isActive = FALSE, !.nextRun = NotSet]
    ELSE [row EXCEPT !.nextRun = NextRunFrom(row.period)]

\* The run is over and delivered, or failed: the finally block saves the copy.
Finish(h, t) ==
    /\ taskHand[h].running = t
    /\ Saves(t, AfterRun(taskHand[h].copies[t]))
    /\ wanted' = IF wanted[t] # Absent /\ taskHand[h].copies[t].oneTime
                 THEN [wanted EXCEPT ![t].isActive = FALSE] ELSE wanted
    /\ Drops(h, t)
    /\ UNCHANGED <<clock, crashes, contested>>

\* The save itself fails: the error is logged and the tick goes on.
SaveFails(h, t) ==
    /\ taskHand[h].running = t
    /\ OneMoreCrash
    /\ contested' = [contested EXCEPT ![t] = TRUE]
    /\ Drops(h, t)
    /\ UNCHANGED <<tasks, wanted, fired>>

\* The process dies: what it had in memory is gone, and it starts again.
TaskCrash(h) ==
    /\ taskHand[h] # IdleHand
    /\ OneMoreCrash
    /\ contested' = [t \in TaskIds |-> contested[t] \/ taskHand[h].running = t]
    /\ taskHand' = [taskHand EXCEPT ![h] = IdleHand]
    /\ UNCHANGED <<tasks, wanted, fired>>

TaskTime ==
    /\ TimePasses
    /\ UNCHANGED <<tasks, taskHand, wanted, fired, contested>>

MemberStep ==
    \/ \E t \in TaskIds, p \in Periods, once \in BOOLEAN : Create(t, p, once)
    \/ \E t \in TaskIds : Remove(t)
    \/ \E r \in Requests :
        \/ CheckInFind(r)
        \/ \E t \in TaskIds :
            \/ UpdateRead(r, t)
            \/ RunNow(r, t)
            \/ CheckInCreate(r, t) \/ CheckInFound(r, t) \/ Backfill(r, t)
            \/ \E active, once, moved \in BOOLEAN, p \in Periods :
                    UpdateSave(r, t, active, once, p, moved)

TasksNext ==
    \/ MemberStep
    \/ \E s \in Servers : TickStart(s)
    \/ \E h \in Holders :
        \/ TaskCrash(h)
        \/ \E t \in TaskIds : Execute(h, t) \/ Finish(h, t) \/ SaveFails(h, t)
    \/ TaskTime

\* Every server's cron keeps firing and every run comes to an end: the loop of
\* the assistant is bounded and its calls have timeouts.
TaskServerStep(s) ==
    TickStart(s) \/ \E t \in TaskIds : Execute(s, t) \/ Finish(s, t)
TasksFairness == \A s \in Servers : WF_taskVars(TaskServerStep(s))

TasksSpec == TasksInit /\ [][TasksNext]_taskVars /\ TasksFairness

-----------------------------------------------------------------------------
(* Properties.                                                             *)

\* A run of a scheduled task that a tick has under way (executeTask) is one
\* its owner still wants: as long as no other thread had the same row in
\* hand and no process died on it, the row is there, active, due, and this is
\* its only run for this due time.
TaskRunsAreWanted ==
    \A s \in Servers, t \in TaskIds :
        (taskHand[s].op = "tick" /\ taskHand[s].running = t /\ ~contested[t]) =>
            IsDue(tasks[t]) /\ fired[t] = 1

\* What a member asked of a task (create, update, remove in tasks.service.ts)
\* is what the table says, and stays so after any number of runs, unless two
\* threads had the row at once; only running a one-time task deactivates it.
TaskIntentKept ==
    \A t \in TaskIds : ~contested[t] =>
        /\ tasks[t] = Absent <=> wanted[t] = Absent
        /\ tasks[t] # Absent =>
            \A field \in {"version", "isActive", "oneTime", "period", "type"} :
                tasks[t][field] = wanted[t][field]

\* A due task is run, or stops being due because a member paused, moved or
\* removed it: a failing run, a failing save or a crash never stops the ticks
\* (TasksScheduler.tick clears its guard in a finally).
DueTasksRun ==
    \A t \in TaskIds :
        IsDue(tasks[t]) ~> (~IsDue(tasks[t]) \/ \E h \in Holders : taskHand[h].running = t)

=============================================================================
