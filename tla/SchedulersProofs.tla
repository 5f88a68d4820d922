-------------------------- MODULE SchedulersProofs --------------------------
(***************************************************************************)
(* What holds of scheduled tasks, exports and monitoring for any number of *)
(* servers, requests, rows and ad accounts, crashes included.              *)
(*                                                                         *)
(* Tasks.  That a run is wanted is not inductive: a tick runs copies it    *)
(* read long ago.  It follows from what an uncontested row is: nobody else *)
(* has a copy of it and the copy equals it (CopiesAreRows), a tick's       *)
(* copies are due and stay due as time passes (HandsAreSound), and what    *)
(* the count of runs says is whether one is under way (FiredWhileRunning). *)
(*                                                                         *)
(* Monitoring.  An alert has one teller: the sweep that inserted it or the *)
(* channel (OneTeller).                                                    *)
(*                                                                         *)
(* Exports.  A sheet is complete up to the watermark (Sound), and the rows *)
(* a run has read are the next ones after it, without a gap, even if more  *)
(* are written meanwhile (IsNext).                                         *)
(*                                                                         *)
(* The sum of MCAutomation.  A behaviour follows exports, monitoring or    *)
(* the webhooks, and the invariant of what it follows is kept (FocusInv).  *)
(***************************************************************************)
EXTENDS Tasks, MCAutomation, BillingProofs, Sums, TLAPS

Hand == [op : TaskOps, copies : [TaskIds -> TaskRow \cup {Absent}], running : TaskIds \cup {Nobody}]

IsRunning(h, t) == taskHand[h].running = t
Has(h, t) == taskHand[h].copies[t] # Absent

(* A tick belongs to a server and everything else to a request; what runs is
   one of the copies in memory, and a tick has only copies that are due. *)
SoundHand(h, hand) ==
    /\ hand.op = "tick" => h \in Servers
    /\ hand.op \in {"update", "runNow", "install", "backfill"} => h \in Requests
    /\ \A t \in TaskIds :
        /\ hand.running = t => hand.copies[t] # Absent /\ hand.op \in {"tick", "runNow"}
        /\ hand.op = "tick" /\ hand.copies[t] # Absent => IsDue(hand.copies[t])

HandsAreSound == \A h \in Holders : SoundHand(h, taskHand[h])

(* Nobody else has a copy of an uncontested row, and the copy is the row. *)
CopiesAreRows ==
    \A t \in TaskIds : ~contested[t] =>
        /\ \A h, k \in Holders : Has(h, t) /\ Has(k, t) => h = k
        /\ \A h \in Holders : Has(h, t) => taskHand[h].copies[t] = tasks[t]

(* The runs of an uncontested task are counted while they last. *)
FiredWhileRunning ==
    \A t \in TaskIds : ~contested[t] =>
        fired[t] = IF \E s \in Servers : IsRunning(s, t) THEN 1 ELSE 0

TasksInv ==
    /\ TasksTypeOK
    /\ HandsAreSound
    /\ CopiesAreRows
    /\ FiredWhileRunning
    /\ TaskIntentKept

----------------------------------------------------------------------------
(* The next run is a time of the model, and it is later than now. *)
LEMMA NextRunIsLater ==
    ASSUME clock \in 1 .. MaxClock, NEW period \in Periods
    PROVE  /\ NextRunFrom(period) \in Times /\ NextRunFrom(period) > clock
           /\ NextRunFrom(period) \in Nat /\ LastTime \in Nat /\ NotSet \in Times
<1> DEFINE longest == CHOOSE p \in Periods : \A q \in Periods : q <= p
           next == (clock \div period + 1) * period
<1>1. /\ MaxClock \in Nat /\ clock \in Nat /\ clock <= MaxClock
      /\ period \in Nat \ {0} /\ longest \in Nat /\ period <= longest
  <2>1. longest \in Periods /\ \A q \in Periods : q <= longest
    BY SchedulingAssumption
  <2> HIDE DEF longest
  <2> QED  BY <2>1, SchedulingAssumption
<1>2. next \in Nat /\ clock < next /\ next <= clock + period
  BY <1>1, NextMultiple
<1>3. NextRunFrom(period) = next /\ LastTime = MaxClock + longest
  BY DEF NextRunFrom, LastTime
<1> HIDE DEF longest, next
<1> QED  BY <1>1, <1>2, <1>3 DEF Times, NotSet

LEMMA TasksFields ==
    ASSUME TasksTypeOK
    PROVE  /\ taskHand \in [Holders -> Hand]
           /\ tasks \in [TaskIds -> TaskRow \cup {Absent}]
           /\ wanted \in [TaskIds -> TaskRow \cup {Absent}]
           /\ fired \in [TaskIds -> Nat] /\ contested \in [TaskIds -> BOOLEAN]
           /\ clock \in 1 .. MaxClock /\ crashes \in 0 .. MaxCrashes
           /\ IdleHand \in Hand /\ NoTasks = [t \in TaskIds |-> Absent]
           /\ IdleHand.op = "idle" /\ IdleHand.running = Nobody /\ IdleHand.copies = NoTasks
BY DEF TasksTypeOK, Hand, IdleHand, NoTasks, TaskOps

LEMMA InitTasksInv == TasksInit => TasksInv
<1> SUFFICES ASSUME TasksInit PROVE TasksInv
    OBVIOUS
<1>1. IdleHand \in Hand /\ \A h \in Holders : taskHand[h] = IdleHand
  BY DEF TasksInit, IdleHand, Hand, TaskOps, NoTasks
<1>2. /\ IdleHand.op = "idle" /\ IdleHand.running = Nobody
      /\ \A t \in TaskIds : IdleHand.copies[t] = Absent
  BY DEF IdleHand, NoTasks
<1> HIDE DEF IdleHand
<1>3. clock \in 1 .. MaxClock /\ crashes \in 0 .. MaxCrashes
  BY SchedulingAssumption DEF TasksInit, SchedulingInit
<1>4. TasksTypeOK
  <2>1. /\ tasks \in [TaskIds -> TaskRow \cup {Absent}]
        /\ wanted \in [TaskIds -> TaskRow \cup {Absent}]
        /\ fired \in [TaskIds -> Nat] /\ contested \in [TaskIds -> BOOLEAN]
    BY DEF TasksInit, NoTasks
  <2>2. taskHand \in [Holders -> Hand]
    BY <1>1 DEF TasksInit
  <2> QED  BY <1>3, <2>1, <2>2 DEF TasksTypeOK, Hand
<1>5. HandsAreSound
  BY <1>1, <1>2, TasksAssumption DEF HandsAreSound, SoundHand
<1>6. CopiesAreRows /\ FiredWhileRunning
  BY <1>1, <1>2, TasksAssumption DEF CopiesAreRows, FiredWhileRunning, Has, IsRunning, Holders, TasksInit
<1>7. TaskIntentKept
  BY DEF TaskIntentKept, TasksInit, NoTasks
<1> QED  BY <1>4, <1>5, <1>6, <1>7 DEF TasksInv

(* What is due stays due as time passes, and so does what is in memory. *)
LEMMA SoundHandsStay ==
    ASSUME TasksInv, clock' \in Nat, clock <= clock', NEW h \in Holders
    PROVE  taskHand'[h] = taskHand[h] => SoundHand(h, taskHand[h])'
<1> USE DEF TasksInv
<1> SUFFICES ASSUME taskHand'[h] = taskHand[h] PROVE SoundHand(h, taskHand[h])'
    OBVIOUS
<1>1. SoundHand(h, taskHand[h]) /\ taskHand[h] \in Hand /\ clock \in Nat
  BY TasksFields DEF HandsAreSound
<1>2. ASSUME NEW t \in TaskIds, taskHand[h].copies[t] # Absent, IsDue(taskHand[h].copies[t])
      PROVE  IsDue(taskHand[h].copies[t])'
  <2>1. taskHand[h].copies[t] \in TaskRow /\ taskHand[h].copies[t].nextRun \in Int
    BY <1>1, <1>2 DEF Hand, TaskRow, Times
  <2> QED  BY <1>1, <1>2, <2>1 DEF IsDue
<1> QED  BY <1>1, <1>2 DEF SoundHand

(* The rows that are due are read, or the one a request is about. *)
LEMMA ReadsTasksInv ==
    ASSUME TasksInv, NEW h \in Holders, NEW op \in {"tick", "update", "runNow", "backfill"},
           NEW ts \in SUBSET TaskIds, taskHand[h] = IdleHand, Reads(h, op, ts),
           UNCHANGED <<clock, crashes, tasks, wanted, fired>>,
           IF op = "tick" THEN h \in Servers /\ ts \subseteq DueTasks ELSE h \in Requests
    PROVE  TasksInv'
<1> USE DEF TasksInv
<1> DEFINE copies == [t \in TaskIds |-> IF t \in ts THEN tasks[t] ELSE Absent]
           new == [op |-> op, running |-> Nobody, copies |-> copies]
<1>1. /\ new \in Hand /\ new.op = op /\ new.running = Nobody
      /\ \A t \in TaskIds : new.copies[t] = IF t \in ts THEN tasks[t] ELSE Absent
  BY TasksFields DEF Hand, TaskOps
<1>2. /\ taskHand' = [taskHand EXCEPT ![h] = new]
      /\ contested' = [t \in TaskIds |-> contested[t] \/ (t \in ts /\ Held(t))]
  BY DEF Reads
<1> HIDE DEF new
<1>3. /\ taskHand' \in [Holders -> Hand] /\ taskHand'[h] = new
      /\ \A k \in Holders : k # h => taskHand'[k] = taskHand[k]
  BY <1>1, <1>2, TasksFields
<1>4. \A t \in TaskIds : /\ ~Has(h, t) /\ ~IsRunning(h, t)
                         /\ ~contested'[t] => ~contested[t] /\ (t \in ts => ~Held(t))
  BY <1>2, TasksFields, TasksAssumption DEF Has, IsRunning
<1>5. TasksTypeOK'
  <2>1. contested' \in [TaskIds -> BOOLEAN]
    BY <1>2
  <2> QED  BY <1>3, <2>1, TasksFields DEF TasksTypeOK, Hand
<1>6. HandsAreSound'
  <2>1. SoundHand(h, taskHand[h])'
    BY <1>1, <1>3, TasksAssumption, SchedulingAssumption DEF SoundHand, DueTasks, IsDue
  <2>2. \A k \in Holders : k # h => SoundHand(k, taskHand[k])'
    BY <1>3, SoundHandsStay, TasksFields
  <2> QED  BY <2>1, <2>2 DEF HandsAreSound, Holders
<1>7. CopiesAreRows'
  BY <1>1, <1>3, <1>4 DEF CopiesAreRows, Has, Held, Holders
<1>8. FiredWhileRunning'
  <2>1. \A t \in TaskIds, k \in Holders : IsRunning(k, t)' <=> IsRunning(k, t)
    BY <1>1, <1>3, <1>4, TasksAssumption DEF IsRunning
  <2> QED  BY <1>4, <2>1 DEF FiredWhileRunning, Holders
<1>9. TaskIntentKept'
  BY <1>4 DEF TaskIntentKept
<1> QED  BY <1>5, <1>6, <1>7, <1>8, <1>9

(* Done with a copy, which nobody runs any more. *)
LEMMA DropsLeave ==
    ASSUME TasksInv, NEW h \in Holders, NEW t \in TaskIds, Drops(h, t), UNCHANGED clock,
           taskHand[h].running \in {t, Nobody}
    PROVE  /\ taskHand' \in [Holders -> Hand] /\ HandsAreSound'
           /\ \A k \in Holders, u \in TaskIds :
                /\ Has(k, u)' <=> Has(k, u) /\ ~(k = h /\ u = t)
                /\ Has(k, u)' => taskHand'[k].copies[u] = taskHand[k].copies[u]
                /\ IsRunning(k, u)' <=> IsRunning(k, u) /\ ~(k = h /\ u = t)
<1> USE DEF TasksInv
<1> DEFINE left == [taskHand[h].copies EXCEPT ![t] = Absent]
           kept == [taskHand[h] EXCEPT !.copies = left, !.running = Nobody]
<1>1. taskHand[h] \in Hand /\ SoundHand(h, taskHand[h]) /\ taskHand \in [Holders -> Hand]
  BY TasksFields DEF HandsAreSound
<1>2. /\ left \in [TaskIds -> TaskRow \cup {Absent}] /\ left[t] = Absent
      /\ \A u \in TaskIds : u # t => left[u] = taskHand[h].copies[u]
  BY <1>1 DEF Hand
<1>3. taskHand' = [taskHand EXCEPT ![h] = IF left = NoTasks THEN IdleHand ELSE kept]
  BY DEF Drops
<1> HIDE DEF left
<1>4. /\ kept \in Hand /\ kept.op = taskHand[h].op /\ kept.copies = left
      /\ kept.running = Nobody
  BY <1>1, <1>2 DEF Hand
<1> HIDE DEF kept
<1>5. \A k \in Holders : k # h => taskHand'[k] = taskHand[k]
  BY <1>1, <1>3
<1>6. /\ taskHand'[h] \in Hand /\ taskHand'[h].running = Nobody /\ taskHand'[h].copies = left
      /\ taskHand'[h].op \in {"idle", taskHand[h].op}
  BY <1>1, <1>3, <1>4, TasksFields
<1>7. taskHand' \in [Holders -> Hand]
  BY <1>1, <1>3, <1>4, TasksFields
<1>8. SoundHand(h, taskHand[h])'
  <2>1. \A u \in TaskIds : left[u] # Absent => left[u] = taskHand[h].copies[u]
    BY <1>2
  <2> QED  BY <1>1, <1>6, <2>1, TasksAssumption DEF SoundHand, IsDue
<1>9. HandsAreSound'
  BY <1>5, <1>8, SoundHandsStay, TasksFields DEF HandsAreSound, Holders
<1>10. ASSUME NEW u \in TaskIds
       PROVE  /\ Has(h, u)' <=> Has(h, u) /\ u # t
              /\ Has(h, u)' => taskHand'[h].copies[u] = taskHand[h].copies[u]
              /\ IsRunning(h, u)' <=> IsRunning(h, u) /\ u # t
  BY <1>2, <1>6, TasksAssumption DEF Has, IsRunning
<1> QED  BY <1>5, <1>7, <1>9, <1>10 DEF Has, IsRunning

(* Which rows the table, the wishes and the counts have after a save. *)
LEMMA SavedRows ==
    ASSUME TasksTypeOK, NEW t \in TaskIds, NEW row \in TaskRow, Saves(t, row)
    PROVE  /\ tasks' \in [TaskIds -> TaskRow \cup {Absent}]
           /\ fired' \in [TaskIds -> Nat]
           /\ tasks'[t] = row /\ row # Absent
           /\ fired'[t] = IF tasks[t] # Absent /\ tasks[t].nextRun = row.nextRun
                          THEN fired[t] ELSE 0
           /\ \A u \in TaskIds : u # t => tasks'[u] = tasks[u] /\ fired'[u] = fired[u]
BY TasksAssumption DEF TasksTypeOK, Saves

(* A new row, of which nobody can have a copy. *)
LEMMA CreatedTasksInv ==
    ASSUME TasksInv, NEW t \in TaskIds, NEW row \in TaskRow, Saves(t, row),
           tasks[t] = Absent, ~Held(t), wanted' = [wanted EXCEPT ![t] = row],
           UNCHANGED <<clock, crashes, contested>>,
           taskHand' \in [Holders -> Hand], HandsAreSound',
           \A h \in Holders : taskHand'[h] = taskHand[h] \/ (h \in Requests /\ taskHand'[h] = IdleHand)
    PROVE  TasksInv'
<1> USE DEF TasksInv
<1>1. /\ wanted' \in [TaskIds -> TaskRow \cup {Absent}] /\ wanted'[t] = row
      /\ \A u \in TaskIds : u # t => wanted'[u] = wanted[u]
  BY TasksFields
<1>2. TasksTypeOK'
  BY <1>1, SavedRows, TasksFields DEF TasksTypeOK, Hand
<1>3. \A h \in Holders, u \in TaskIds :
        Has(h, u)' => /\ Has(h, u) /\ u # t
                      /\ taskHand'[h].copies[u] = taskHand[h].copies[u]
  BY TasksFields DEF Has, Held
<1>4. CopiesAreRows'
  BY <1>3, SavedRows DEF CopiesAreRows, Holders
<1>5. FiredWhileRunning'
  <2>1. \A s \in Servers : taskHand'[s] = taskHand[s] /\ ~IsRunning(s, t)
    BY SchedulingAssumption DEF Holders, HandsAreSound, SoundHand, Held, IsRunning
  <2>2. \A s \in Servers, u \in TaskIds : IsRunning(s, u)' <=> IsRunning(s, u)
    BY <2>1 DEF IsRunning
  <2> QED  BY <2>1, <2>2, SavedRows DEF FiredWhileRunning
<1>6. TaskIntentKept'
  BY <1>1, SavedRows DEF TaskIntentKept
<1> QED  BY <1>2, <1>4, <1>5, <1>6

AsWanted(row, wish) ==
    /\ wish # Absent
    /\ row.version = wish.version /\ row.isActive = wish.isActive
    /\ row.oneTime = wish.oneTime /\ row.period = wish.period /\ row.type = wish.type

(* A copy that is saved over the row it was read from, and dropped. *)
LEMMA SavedTasksInv ==
    ASSUME TasksInv, NEW h \in Holders, NEW t \in TaskIds, NEW row \in TaskRow,
           Saves(t, row), Drops(h, t), Has(h, t), taskHand[h].running \in {t, Nobody},
           UNCHANGED <<clock, crashes, contested>>,
           wanted' \in [TaskIds -> TaskRow \cup {Absent}],
           \A u \in TaskIds : u # t => wanted'[u] = wanted[u],
           ~contested[t] => fired'[t] = 0 /\ AsWanted(row, wanted'[t])
    PROVE  TasksInv'
<1> USE DEF TasksInv
<1>1. TasksTypeOK'
  BY DropsLeave, SavedRows, TasksFields DEF TasksTypeOK, Hand
<1>2. CopiesAreRows'
  <2> SUFFICES ASSUME NEW u \in TaskIds, ~contested[u]
               PROVE  /\ \A k, l \in Holders : Has(k, u)' /\ Has(l, u)' => k = l
                      /\ \A k \in Holders : Has(k, u)' => taskHand'[k].copies[u] = tasks'[u]
      BY DEF CopiesAreRows, Holders
  <2>1. CASE u = t
    BY <2>1, DropsLeave DEF CopiesAreRows
  <2>2. CASE u # t
    BY <2>2, DropsLeave, SavedRows DEF CopiesAreRows
  <2> QED  BY <2>1, <2>2
<1>3. FiredWhileRunning'
  <2> SUFFICES ASSUME NEW u \in TaskIds, ~contested[u]
               PROVE  fired'[u] = IF \E s \in Servers : IsRunning(s, u)' THEN 1 ELSE 0
      BY DEF FiredWhileRunning
  <2>1. CASE u = t
    <3>1. \A s \in Servers : ~IsRunning(s, t)'
      <4>1. \A s \in Servers : IsRunning(s, t) => s = h
        BY <2>1 DEF HandsAreSound, SoundHand, CopiesAreRows, IsRunning, Has, Holders
      <4> QED  BY <4>1, DropsLeave DEF Holders
    <3> QED  BY <2>1, <3>1
  <2>2. CASE u # t
    <3>1. \A s \in Servers : IsRunning(s, u)' <=> IsRunning(s, u)
      BY <2>2, DropsLeave DEF Holders
    <3> QED  BY <2>2, <3>1, SavedRows DEF FiredWhileRunning
  <2> QED  BY <2>1, <2>2
<1>4. TaskIntentKept'
  <2> SUFFICES ASSUME NEW u \in TaskIds, ~contested[u]
               PROVE  /\ tasks'[u] = Absent <=> wanted'[u] = Absent
                      /\ tasks'[u] # Absent =>
                            \A field \in {"version", "isActive", "oneTime", "period", "type"} :
                                tasks'[u][field] = wanted'[u][field]
      BY DEF TaskIntentKept
  <2>1. CASE u = t
    BY <2>1, SavedRows DEF AsWanted
  <2>2. CASE u # t
    BY <2>2, SavedRows DEF TaskIntentKept
  <2> QED  BY <2>1, <2>2
<1> QED  BY <1>1, <1>2, <1>3, <1>4, DropsLeave

LEMMA MemberTasksInv ==
    ASSUME TasksInv, NEW t \in TaskIds, NEW p \in Periods, NEW once \in BOOLEAN,
           Create(t, p, once) \/ \E r \in Requests : CheckInCreate(r, t)
    PROVE  TasksInv'
<1> USE DEF TasksInv
<1>1. \A q \in Periods : NextRunFrom(q) \in Times
  BY NextRunIsLater, TasksFields
<1>2. 0 \in 0 .. MaxEdits /\ {"user", "system"} \subseteq TaskTypes
  BY TasksAssumption DEF TaskTypes
<1>3. CASE Create(t, p, once)
  <2> DEFINE row == [type |-> "user", version |-> 0, isActive |-> TRUE, oneTime |-> once,
                     period |-> p, nextRun |-> NextRunFrom(p)]
  <2>1. row \in TaskRow
    BY <1>1, <1>2 DEF TaskRow
  <2>2. /\ Saves(t, row) /\ wanted' = [wanted EXCEPT ![t] = row] /\ tasks[t] = Absent /\ ~Held(t)
        /\ UNCHANGED <<clock, crashes, taskHand, contested>>
    BY <1>3 DEF Create
  <2> HIDE DEF row
  <2>3. HandsAreSound'
    BY <2>2, SoundHandsStay, TasksFields DEF HandsAreSound, Holders
  <2> QED  BY <2>1, <2>2, <2>3, CreatedTasksInv, TasksFields
<1>4. ASSUME NEW r \in Requests, CheckInCreate(r, t) PROVE TasksInv'
  <2> DEFINE period == CHOOSE q \in Periods : TRUE
             row == [type |-> "system", version |-> 0, isActive |-> TRUE, oneTime |-> FALSE,
                     period |-> period, nextRun |-> NextRunFrom(period)]
  <2>1. period \in Periods
    BY SchedulingAssumption
  <2> HIDE DEF period
  <2>2. row \in TaskRow
    BY <1>1, <1>2, <2>1 DEF TaskRow
  <2>3. /\ Saves(t, row) /\ wanted' = [wanted EXCEPT ![t] = row] /\ tasks[t] = Absent /\ ~Held(t)
        /\ taskHand' = [taskHand EXCEPT ![r] = IdleHand]
        /\ UNCHANGED <<clock, crashes, contested>>
    BY <1>4 DEF CheckInCreate, period
  <2> HIDE DEF row
  <2>4. /\ taskHand' \in [Holders -> Hand] /\ r \in Holders
        /\ \A h \in Holders : taskHand'[h] = IF h = r THEN IdleHand ELSE taskHand[h]
    BY <2>3, TasksFields DEF Holders
  <2>5. SoundHand(r, taskHand[r])'
    BY <2>4, TasksFields, TasksAssumption DEF SoundHand
  <2>6. HandsAreSound'
    BY <2>3, <2>4, <2>5, SoundHandsStay, TasksFields DEF HandsAreSound, Holders
  <2> QED  BY <2>2, <2>3, <2>4, <2>6, CreatedTasksInv
<1> QED  BY <1>3, <1>4

LEMMA PatchedIsRow ==
    ASSUME clock \in 1 .. MaxClock, NEW row \in TaskRow, row.version < MaxEdits,
           NEW active \in BOOLEAN, NEW once \in BOOLEAN, NEW p \in Periods, NEW moved \in BOOLEAN
    PROVE  Patched(row, active, once, p, moved) \in TaskRow
<1> DEFINE next == IF moved THEN NextRunFrom(p) ELSE row.nextRun
<1>1. row.version + 1 \in 0 .. MaxEdits /\ next \in Times
  BY NextRunIsLater, TasksAssumption DEF TaskRow
<1>2. Patched(row, active, once, p, moved) =
        [row EXCEPT !.version = row.version + 1, !.isActive = active, !.oneTime = once,
                    !.period = p, !.nextRun = next]
  BY DEF Patched
<1> HIDE DEF next
<1> QED  BY <1>1, <1>2 DEF TaskRow

(* A run pauses a one-time task and moves any other to a later time. *)
LEMMA AfterRunIsRow ==
    ASSUME clock \in 1 .. MaxClock, NEW row \in TaskRow
    PROVE  /\ AfterRun(row) \in TaskRow
           /\ AfterRun(row).version = row.version /\ AfterRun(row).type = row.type
           /\ AfterRun(row).oneTime = row.oneTime /\ AfterRun(row).period = row.period
           /\ AfterRun(row).isActive = IF row.oneTime THEN FALSE ELSE row.isActive
           /\ IsDue(row) => AfterRun(row).nextRun # row.nextRun
<1>1. /\ row.period \in Periods /\ NextRunFrom(row.period) \in Times
      /\ NextRunFrom(row.period) > clock
  BY NextRunIsLater DEF TaskRow
<1>2. NotSet \in Times /\ row.nextRun \in Int /\ clock \in Int /\ NextRunFrom(row.period) \in Int
  BY <1>1, NextRunIsLater DEF TaskRow, Times
<1>3. CASE row.oneTime
  <2>1. AfterRun(row) = [row EXCEPT !.isActive = FALSE, !.nextRun = NotSet]
    BY <1>3 DEF AfterRun
  <2> QED  BY <1>2, <1>3, <2>1 DEF TaskRow, IsDue
<1>4. CASE ~row.oneTime
  <2>1. AfterRun(row) = [row EXCEPT !.nextRun = NextRunFrom(row.period)]
    BY <1>4 DEF AfterRun
  <2> QED  BY <1>1, <1>2, <1>4, <2>1 DEF TaskRow, IsDue
<1> QED  BY <1>3, <1>4

LEMMA UpdateTasksInv ==
    ASSUME TasksInv, NEW r \in Requests, NEW t \in TaskIds, NEW active \in BOOLEAN,
           NEW once \in BOOLEAN, NEW p \in Periods, NEW moved \in BOOLEAN,
           UpdateSave(r, t, active, once, p, moved)
    PROVE  TasksInv'
<1> USE DEF TasksInv
<1> DEFINE row == taskHand[r].copies[t]
           new == Patched(row, active, once, p, moved)
<1>1. /\ r \in Holders /\ taskHand[r] \in Hand /\ SoundHand(r, taskHand[r])
      /\ row \in TaskRow /\ row # Absent /\ row.version < MaxEdits
      /\ taskHand[r].op = "update"
  BY TasksFields DEF HandsAreSound, Holders, UpdateSave, Hand
<1>2. /\ Saves(t, new) /\ wanted' = [wanted EXCEPT ![t] = new] /\ Drops(r, t)
      /\ UNCHANGED <<clock, crashes, contested>>
  BY DEF UpdateSave
<1>5. new \in TaskRow
  BY <1>1, PatchedIsRow, TasksFields
<1> HIDE DEF new
<1>6. taskHand[r].running = Nobody /\ Has(r, t)
  BY <1>1 DEF SoundHand, Hand, Has
<1>7. /\ wanted' \in [TaskIds -> TaskRow \cup {Absent}] /\ wanted'[t] = new /\ new # Absent
      /\ \A u \in TaskIds : u # t => wanted'[u] = wanted[u]
  BY <1>2, <1>5, TasksFields, TasksAssumption
<1>8. ~contested[t] => fired'[t] = 0
  <2> SUFFICES ASSUME ~contested[t] PROVE fired[t] = 0
      BY <1>2, <1>5, SavedRows
  <2>1. \A s \in Servers : ~IsRunning(s, t)
    BY <1>1, <1>6, SchedulingAssumption
       DEF CopiesAreRows, HandsAreSound, SoundHand, IsRunning, Has, Holders
  <2> QED  BY <2>1 DEF FiredWhileRunning
<1>9. AsWanted(new, wanted'[t])
  BY <1>7 DEF AsWanted
<1> QED  BY <1>1, <1>2, <1>5, <1>6, <1>7, <1>8, <1>9, SavedTasksInv

(* A check-in saved as it was read, but for its channel. *)
LEMMA BackfillTasksInv ==
    ASSUME TasksInv, NEW r \in Requests, NEW t \in TaskIds, Backfill(r, t)
    PROVE  TasksInv'
<1> USE DEF TasksInv
<1> DEFINE row == taskHand[r].copies[t]
<1>1. /\ r \in Holders /\ taskHand[r] \in Hand /\ SoundHand(r, taskHand[r])
      /\ row \in TaskRow /\ row # Absent /\ taskHand[r].op = "backfill"
  BY TasksFields DEF HandsAreSound, Holders, Backfill, Hand
<1>2. Saves(t, row) /\ Drops(r, t) /\ UNCHANGED <<clock, crashes, wanted, contested>>
  BY DEF Backfill
<1>3. taskHand[r].running = Nobody /\ Has(r, t)
  BY <1>1 DEF SoundHand, Hand, Has
<1>4. ASSUME ~contested[t]  PROVE fired'[t] = 0
  <2>1. \A s \in Servers : ~IsRunning(s, t)
    BY <1>1, <1>3, <1>4, SchedulingAssumption
       DEF CopiesAreRows, HandsAreSound, SoundHand, IsRunning, Has, Holders
  <2>2. fired[t] = 0
    BY <1>4, <2>1 DEF FiredWhileRunning
  <2> QED  BY <1>1, <1>2, <2>2, SavedRows
<1>5. ASSUME ~contested[t]  PROVE AsWanted(row, wanted[t])
  <2>1. tasks[t] = row
    BY <1>1, <1>3, <1>5 DEF CopiesAreRows
  <2> QED  BY <1>1, <1>5, <2>1 DEF TaskIntentKept, AsWanted
<1>6. wanted' \in [TaskIds -> TaskRow \cup {Absent}]
  BY <1>2, TasksFields
<1> HIDE DEF row
<1> QED  BY <1>1, <1>2, <1>3, <1>4, <1>5, <1>6, SavedTasksInv

LEMMA FinishTasksInv ==
    ASSUME TasksInv, NEW h \in Holders, NEW t \in TaskIds, Finish(h, t)
    PROVE  TasksInv'
<1> USE DEF TasksInv
<1> DEFINE row == taskHand[h].copies[t]
           new == AfterRun(row)
<1>1. /\ taskHand[h].running = t /\ Saves(t, new) /\ Drops(h, t)
      /\ UNCHANGED <<clock, crashes, contested>>
      /\ wanted' = IF wanted[t] # Absent /\ row.oneTime
                   THEN [wanted EXCEPT ![t].isActive = FALSE] ELSE wanted
  BY DEF Finish
<1>2. /\ taskHand[h] \in Hand /\ SoundHand(h, taskHand[h])
      /\ row \in TaskRow /\ Has(h, t) /\ row # Absent
      /\ taskHand[h].op = "tick" => IsDue(row)
      /\ taskHand[h].op \in {"tick", "runNow"}
  BY <1>1, TasksFields DEF HandsAreSound, SoundHand, Hand, Has
<1>5. new \in TaskRow /\ (IsDue(row) => new.nextRun # row.nextRun)
  BY <1>2, AfterRunIsRow, TasksFields
<1> HIDE DEF row, new
<1>7. /\ wanted' \in [TaskIds -> TaskRow \cup {Absent}]
      /\ \A u \in TaskIds : u # t => wanted'[u] = wanted[u]
      /\ wanted'[t] = IF wanted[t] # Absent /\ row.oneTime
                      THEN [wanted[t] EXCEPT !.isActive = FALSE] ELSE wanted[t]
  <2>1. wanted[t] \in TaskRow => [wanted[t] EXCEPT !.isActive = FALSE] \in TaskRow
    BY DEF TaskRow
  <2>2. \/ wanted' = wanted /\ ~(wanted[t] # Absent /\ row.oneTime)
        \/ /\ wanted[t] # Absent /\ row.oneTime
           /\ wanted' = [wanted EXCEPT ![t] = [wanted[t] EXCEPT !.isActive = FALSE]]
    BY <1>1, TasksFields
  <2>3. wanted \in [TaskIds -> TaskRow \cup {Absent}]
    BY TasksFields
  <2>4. CASE wanted' = wanted /\ ~(wanted[t] # Absent /\ row.oneTime)
    BY <2>3, <2>4
  <2>5. CASE /\ wanted[t] # Absent /\ row.oneTime
             /\ wanted' = [wanted EXCEPT ![t] = [wanted[t] EXCEPT !.isActive = FALSE]]
    <3> DEFINE paused == [wanted[t] EXCEPT !.isActive = FALSE]
    <3>1. paused \in TaskRow
      BY <2>1, <2>3, <2>5
    <3>2. wanted' = [wanted EXCEPT ![t] = paused]
      BY <2>5
    <3>3. wanted'[t] = paused
      BY <2>3, <3>2
    <3> HIDE DEF paused
    <3>4. /\ wanted' \in [TaskIds -> TaskRow \cup {Absent}]
          /\ \A u \in TaskIds : u # t => wanted'[u] = wanted[u]
      BY <2>3, <3>1, <3>2
    <3> QED  BY <2>5, <3>3, <3>4 DEF paused
  <2> QED  BY <2>2, <2>4, <2>5
<1>8. ~contested[t] => tasks[t] = row /\ wanted[t] # Absent /\ wanted[t] \in TaskRow
  BY <1>2, TasksFields DEF CopiesAreRows, TaskIntentKept, row
<1>9. ~contested[t] => fired'[t] = 0
  <2> SUFFICES ASSUME ~contested[t] PROVE fired'[t] = 0
      OBVIOUS
  <2>1. fired'[t] = IF row.nextRun = new.nextRun THEN fired[t] ELSE 0
    BY <1>1, <1>2, <1>5, <1>8, SavedRows
  <2>2. CASE taskHand[h].op = "tick"
    BY <1>2, <1>5, <2>1, <2>2
  <2>3. CASE taskHand[h].op = "runNow"
    <3>1. h \notin Servers
      BY <1>2, <2>3, SchedulingAssumption DEF SoundHand
    <3>2. \A s \in Servers : ~IsRunning(s, t)
      BY <1>2, <3>1 DEF CopiesAreRows, HandsAreSound, SoundHand, IsRunning, Has, Holders
    <3> QED  BY <2>1, <3>2 DEF FiredWhileRunning
  <2> QED  BY <1>2, <2>2, <2>3
<1>10. ~contested[t] => AsWanted(new, wanted'[t])
  <2> SUFFICES ASSUME ~contested[t] PROVE AsWanted(new, wanted'[t])
      OBVIOUS
  <2>1. /\ row.version = wanted[t].version /\ row.isActive = wanted[t].isActive
        /\ row.oneTime = wanted[t].oneTime /\ row.period = wanted[t].period
        /\ row.type = wanted[t].type
    BY <1>2, <1>8 DEF TaskIntentKept
  <2>2. /\ new.version = row.version /\ new.type = row.type
        /\ new.oneTime = row.oneTime /\ new.period = row.period
        /\ new.isActive = IF row.oneTime THEN FALSE ELSE row.isActive
    BY <1>2, AfterRunIsRow, TasksFields DEF new
  <2>3. CASE row.oneTime
    <3>1. wanted'[t] = [wanted[t] EXCEPT !.isActive = FALSE]
      BY <1>7, <1>8, <2>3
    <3>2. /\ wanted'[t].version = wanted[t].version /\ wanted'[t].type = wanted[t].type
          /\ wanted'[t].oneTime = wanted[t].oneTime /\ wanted'[t].period = wanted[t].period
          /\ wanted'[t].isActive = FALSE /\ wanted'[t] \in TaskRow
      BY <1>8, <3>1 DEF TaskRow
    <3> QED  BY <2>1, <2>2, <2>3, <3>2, TasksAssumption DEF AsWanted
  <2>4. CASE ~row.oneTime
    BY <1>7, <1>8, <2>1, <2>2, <2>4 DEF AsWanted
  <2> QED  BY <2>3, <2>4
<1>11. /\ taskHand[h].running \in {t, Nobody} /\ Has(h, t) /\ Saves(t, new) /\ Drops(h, t)
       /\ new \in TaskRow /\ wanted' \in [TaskIds -> TaskRow \cup {Absent}]
       /\ \A u \in TaskIds : u # t => wanted'[u] = wanted[u]
  BY <1>1, <1>2, <1>5, <1>7
<1>12. ~contested[t] => fired'[t] = 0 /\ AsWanted(new, wanted'[t])
  BY <1>9, <1>10
<1> HIDE DEF TasksInv
<1> QED  BY <1>1, <1>11, <1>12, SavedTasksInv

(* The steps that leave rows and wishes alone, except those of contested
   tasks, and give nobody a copy. *)
LEMMA LooseTasksInv ==
    ASSUME TasksInv,
           \/ \E h \in Holders : TaskCrash(h) \/ \E t \in TaskIds : SaveFails(h, t)
           \/ \E t \in TaskIds : Remove(t)
           \/ TaskTime
    PROVE  TasksInv'
<1> USE DEF TasksInv
<1>1. /\ taskHand' \in [Holders -> Hand] /\ HandsAreSound'
      /\ \A k \in Holders, u \in TaskIds :
            /\ Has(k, u)' => Has(k, u) /\ taskHand'[k].copies[u] = taskHand[k].copies[u]
            /\ ~contested'[u] => ~contested[u] /\ (IsRunning(k, u)' <=> IsRunning(k, u))
  <2> DEFINE Loose ==
        /\ taskHand' \in [Holders -> Hand] /\ HandsAreSound'
        /\ \A k \in Holders, u \in TaskIds :
            /\ Has(k, u)' => Has(k, u) /\ taskHand'[k].copies[u] = taskHand[k].copies[u]
            /\ ~contested'[u] => ~contested[u] /\ (IsRunning(k, u)' <=> IsRunning(k, u))
  <2>1. ASSUME NEW h \in Holders, NEW t \in TaskIds, SaveFails(h, t) PROVE Loose
    <3>1. /\ taskHand' \in [Holders -> Hand] /\ HandsAreSound'
          /\ \A k \in Holders, u \in TaskIds :
                /\ Has(k, u)' <=> Has(k, u) /\ ~(k = h /\ u = t)
                /\ Has(k, u)' => taskHand'[k].copies[u] = taskHand[k].copies[u]
                /\ IsRunning(k, u)' <=> IsRunning(k, u) /\ ~(k = h /\ u = t)
      BY <2>1, DropsLeave DEF SaveFails, OneMoreCrash
    <3> QED  BY <2>1, <3>1, TasksFields DEF SaveFails
  <2>2. ASSUME NEW h \in Holders, TaskCrash(h) PROVE Loose
    <3>1. /\ taskHand'[h] = IdleHand /\ \A k \in Holders : k # h => taskHand'[k] = taskHand[k]
          /\ taskHand' \in [Holders -> Hand] /\ UNCHANGED clock
      BY <2>2, TasksFields DEF TaskCrash, OneMoreCrash
    <3>2. SoundHand(h, taskHand[h])'
      BY <3>1, TasksFields, TasksAssumption DEF SoundHand
    <3>3. HandsAreSound'
      BY <3>1, <3>2, SoundHandsStay, TasksFields DEF HandsAreSound, Holders
    <3>4. \A u \in TaskIds : /\ ~Has(h, u)' /\ ~IsRunning(h, u)'
                             /\ ~contested'[u] => ~contested[u] /\ ~IsRunning(h, u)
      BY <2>2, <3>1, TasksFields, TasksAssumption DEF Has, IsRunning, TaskCrash
    <3> QED  BY <3>1, <3>3, <3>4 DEF Has, IsRunning
  <2>3. CASE TaskTime \/ \E t \in TaskIds : Remove(t)
    <3>1. /\ taskHand' = taskHand /\ clock' \in Nat /\ clock <= clock'
          /\ \A u \in TaskIds : ~contested'[u] => ~contested[u]
      BY <2>3, TasksFields DEF Remove, TaskTime, TimePasses
    <3>2. HandsAreSound'
      BY <3>1, SoundHandsStay DEF HandsAreSound, Holders
    <3> QED  BY <3>1, <3>2, TasksFields DEF Has, IsRunning
  <2> QED  BY <2>1, <2>2, <2>3
<1>2. /\ contested' \in [TaskIds -> BOOLEAN]
      /\ clock' \in 1 .. MaxClock /\ crashes' \in 0 .. MaxCrashes
  <2>1. MaxClock \in Nat /\ MaxCrashes \in Nat
    BY SchedulingAssumption
  <2>2. contested' \in [TaskIds -> BOOLEAN]
    BY TasksFields DEF SaveFails, TaskCrash, Remove, TaskTime
  <2>3. clock' \in 1 .. MaxClock /\ crashes' \in 0 .. MaxCrashes
    BY <2>1, TasksFields DEF SaveFails, TaskCrash, Remove, TaskTime, TimePasses, OneMoreCrash
  <2> QED  BY <2>2, <2>3
<1>3. /\ tasks' \in [TaskIds -> TaskRow \cup {Absent}]
      /\ wanted' \in [TaskIds -> TaskRow \cup {Absent}]
      /\ fired' \in [TaskIds -> Nat]
  BY TasksFields DEF SaveFails, TaskCrash, Remove, TaskTime
<1>4. \A u \in TaskIds : ~contested'[u] =>
        /\ ~contested[u]
        /\ \/ tasks'[u] = tasks[u] /\ wanted'[u] = wanted[u] /\ fired'[u] = fired[u]
           \/ tasks'[u] = Absent /\ wanted'[u] = Absent /\ fired'[u] = 0 /\ ~Held(u)
  BY TasksFields DEF SaveFails, TaskCrash, Remove, TaskTime
<1>5. TasksTypeOK'
  BY <1>1, <1>2, <1>3 DEF TasksTypeOK, Hand
<1>6. CopiesAreRows'
  BY <1>1, <1>4 DEF CopiesAreRows, Held, Has, Holders
<1>7. FiredWhileRunning'
  <2> SUFFICES ASSUME NEW u \in TaskIds, ~contested'[u]
               PROVE  fired'[u] = IF \E s \in Servers : IsRunning(s, u)' THEN 1 ELSE 0
      BY DEF FiredWhileRunning
  <2>1. \A s \in Servers : IsRunning(s, u)' <=> IsRunning(s, u)
    BY <1>1 DEF Holders
  <2>2. fired[u] = IF \E s \in Servers : IsRunning(s, u) THEN 1 ELSE 0
    BY <1>4 DEF FiredWhileRunning
  <2>3. ~Held(u) => \A s \in Servers : ~IsRunning(s, u)
    BY DEF Held, IsRunning, HandsAreSound, SoundHand, Holders
  <2> QED  BY <1>4, <2>1, <2>2, <2>3
<1>8. TaskIntentKept'
  BY <1>4 DEF TaskIntentKept
<1> QED  BY <1>1, <1>5, <1>6, <1>7, <1>8

(* One of the copies is run, or a sign-in is about to seed the check-in. *)
LEMMA StartTasksInv ==
    ASSUME TasksInv, NEW h \in Holders, NEW t,
           (t \in TaskIds /\ Execute(h, t)) \/ (h \in Requests /\ CheckInFind(h))
    PROVE  TasksInv'
<1> USE DEF TasksInv
<1>1. /\ taskHand \in [Holders -> Hand] /\ SoundHand(h, taskHand[h]) /\ taskHand[h] \in Hand
      /\ UNCHANGED <<clock, crashes, tasks, wanted, contested>>
  BY TasksFields DEF HandsAreSound, Execute, CheckInFind
<1>2. \A u \in TaskIds : ~IsRunning(h, u)
  BY TasksFields, TasksAssumption DEF IsRunning, Execute, CheckInFind
<1>3. PICK new \in Hand :
        /\ taskHand' = [taskHand EXCEPT ![h] = new]
        /\ new.copies = taskHand[h].copies
        /\ \/ t \in TaskIds /\ Execute(h, t) /\ new.running = t /\ new.op = taskHand[h].op
           \/ CheckInFind(h) /\ h \in Requests /\ new.running = Nobody /\ new.op = "install"
  <2>1. CASE t \in TaskIds /\ Execute(h, t)
    <3> DEFINE new == [taskHand[h] EXCEPT !.running = t]
    <3>1. /\ new \in Hand /\ new.copies = taskHand[h].copies /\ new.running = t
          /\ new.op = taskHand[h].op
      BY <1>1, <2>1 DEF Hand
    <3>2. taskHand' = [taskHand EXCEPT ![h] = new]
      BY <1>1, <2>1 DEF Execute
    <3> QED  BY <2>1, <3>1, <3>2
  <2>2. CASE h \in Requests /\ CheckInFind(h)
    <3> DEFINE new == [taskHand[h] EXCEPT !.op = "install"]
    <3>1. /\ new \in Hand /\ new.copies = taskHand[h].copies /\ new.op = "install"
          /\ new.running = taskHand[h].running
      BY <1>1 DEF Hand, TaskOps
    <3>2. taskHand' = [taskHand EXCEPT ![h] = new] /\ taskHand[h].running = Nobody
      BY <1>1, <2>2, TasksFields DEF CheckInFind
    <3> QED  BY <2>2, <3>1, <3>2
  <2> QED  BY <2>1, <2>2
<1>4. /\ taskHand' \in [Holders -> Hand] /\ taskHand'[h] = new
      /\ \A k \in Holders : k # h => taskHand'[k] = taskHand[k]
  BY <1>1, <1>3
<1>5. \A k \in Holders, u \in TaskIds :
        /\ Has(k, u)' <=> Has(k, u)
        /\ taskHand'[k].copies[u] = taskHand[k].copies[u]
        /\ IsRunning(k, u)' <=> IsRunning(k, u) \/ (k = h /\ u = t /\ new.running = t)
  BY <1>2, <1>3, <1>4, TasksAssumption DEF Has, IsRunning
<1>6. /\ fired' \in [TaskIds -> Nat]
      /\ \A u \in TaskIds : fired'[u] = IF new.running = t /\ h \in Servers /\ u = t
                                        THEN fired[u] + 1 ELSE fired[u]
  <2>1. \/ /\ t \in TaskIds /\ new.running = t /\ h \in Servers
           /\ fired' = [fired EXCEPT ![t] = @ + 1]
        \/ fired' = fired /\ \A u \in TaskIds : ~(new.running = t /\ h \in Servers /\ u = t)
    BY <1>3, TasksAssumption DEF Execute, CheckInFind
  <2> QED  BY <2>1, TasksFields
<1>7. TasksTypeOK'
  BY <1>1, <1>4, <1>6, TasksFields DEF TasksTypeOK, Hand
<1>8. HandsAreSound'
  <2>1. SoundHand(h, taskHand[h])'
    <3>1. CASE t \in TaskIds /\ Execute(h, t) /\ new.running = t /\ new.op = taskHand[h].op
      BY <1>1, <1>3, <1>4, <3>1 DEF SoundHand, Execute, IsDue
    <3>2. CASE h \in Requests /\ new.running = Nobody /\ new.op = "install"
      BY <1>4, <3>2, TasksAssumption DEF SoundHand
    <3> QED  BY <1>3, <3>1, <3>2
  <2> QED  BY <1>1, <1>4, <2>1, SoundHandsStay, TasksFields DEF HandsAreSound, Holders
<1>9. CopiesAreRows'
  BY <1>1, <1>5 DEF CopiesAreRows, Holders
<1>10. FiredWhileRunning'
  <2> SUFFICES ASSUME NEW u \in TaskIds, ~contested[u]
               PROVE  fired'[u] = IF \E s \in Servers : IsRunning(s, u)' THEN 1 ELSE 0
      BY <1>1 DEF FiredWhileRunning
  <2>1. CASE new.running = t /\ h \in Servers /\ u = t
    <3>1. Has(h, t)
      BY <1>3, <2>1, TasksAssumption DEF Execute, Has
    <3>2. \A s \in Servers : ~IsRunning(s, t)
      BY <1>2, <2>1, <3>1 DEF CopiesAreRows, HandsAreSound, SoundHand, IsRunning, Has, Holders
    <3> QED  BY <1>5, <1>6, <2>1, <3>2 DEF FiredWhileRunning, Holders
  <2>2. CASE ~(new.running = t /\ h \in Servers /\ u = t)
    <3>1. \A s \in Servers : IsRunning(s, u)' <=> IsRunning(s, u)
      BY <1>5, <2>2 DEF Holders
    <3> QED  BY <1>6, <2>2, <3>1 DEF FiredWhileRunning
  <2> QED  BY <2>1, <2>2
<1>11. TaskIntentKept'
  BY <1>1 DEF TaskIntentKept
<1> QED  BY <1>7, <1>8, <1>9, <1>10, <1>11

LEMMA NextTasksInv == TasksInv /\ [TasksNext]_taskVars => TasksInv'
<1> SUFFICES ASSUME TasksInv, [TasksNext]_taskVars PROVE TasksInv'
    OBVIOUS
<1>1. ASSUME NEW t \in TaskIds, NEW p \in Periods, NEW once \in BOOLEAN,
             Create(t, p, once) \/ \E r \in Requests : CheckInCreate(r, t)
      PROVE  TasksInv'
  BY <1>1, MemberTasksInv
<1>2. ASSUME NEW r \in Requests, NEW t \in TaskIds, CheckInCreate(r, t)
      PROVE  TasksInv'
  <2>1. PICK p \in Periods : p \in Periods
    BY SchedulingAssumption
  <2>2. FALSE \in BOOLEAN
    OBVIOUS
  <2> QED  BY <1>1, <1>2, <2>1, <2>2
<1>3. ASSUME NEW r \in Requests, NEW t \in TaskIds,
             UpdateRead(r, t) \/ RunNow(r, t) \/ CheckInFound(r, t)
      PROVE  TasksInv'
  <2>1. r \in Holders /\ {t} \in SUBSET TaskIds
    BY DEF Holders
  <2>2. CASE UpdateRead(r, t)
    BY <2>1, <2>2, ReadsTasksInv DEF UpdateRead
  <2>3. CASE RunNow(r, t)
    BY <2>1, <2>3, ReadsTasksInv DEF RunNow
  <2>4. CASE CheckInFound(r, t)
    BY <2>1, <2>4, ReadsTasksInv DEF CheckInFound
  <2> QED  BY <1>3, <2>2, <2>3, <2>4
<1>4. ASSUME NEW s \in Servers, TickStart(s)
      PROVE  TasksInv'
  <2>1. s \in Holders /\ DueTasks \in SUBSET TaskIds
    BY DEF Holders, DueTasks
  <2> QED  BY <1>4, <2>1, ReadsTasksInv DEF TickStart
<1>5. ASSUME NEW r \in Requests, NEW t \in TaskIds, NEW active \in BOOLEAN, NEW once \in BOOLEAN,
             NEW moved \in BOOLEAN, NEW p \in Periods, UpdateSave(r, t, active, once, p, moved)
      PROVE  TasksInv'
  BY <1>5, UpdateTasksInv
<1>6. ASSUME NEW h \in Holders, NEW t \in TaskIds, Execute(h, t) \/ Finish(h, t)
      PROVE  TasksInv'
  BY <1>6, StartTasksInv, FinishTasksInv
<1>7. ASSUME NEW r \in Requests, CheckInFind(r)
      PROVE  TasksInv'
  BY <1>7, StartTasksInv DEF Holders
<1>8. CASE \/ \E h \in Holders : TaskCrash(h) \/ \E t \in TaskIds : SaveFails(h, t)
           \/ \E t \in TaskIds : Remove(t)
           \/ TaskTime
  BY <1>8, LooseTasksInv
<1>9. CASE UNCHANGED taskVars
  BY <1>9 DEF taskVars, TasksInv, TasksTypeOK, HandsAreSound, SoundHand, IsDue, CopiesAreRows, Has,
              FiredWhileRunning, IsRunning, TaskIntentKept
<1>10. ASSUME NEW r \in Requests, NEW t \in TaskIds, Backfill(r, t)
      PROVE  TasksInv'
  BY <1>10, BackfillTasksInv
<1>11. CASE MemberStep
  BY <1>11, <1>1, <1>2, <1>3, <1>5, <1>7, <1>8, <1>10 DEF MemberStep
<1> QED  BY <1>4, <1>6, <1>8, <1>9, <1>11 DEF TasksNext

(* Ticks, edits, deletions and crashes in any order keep all of it. *)
THEOREM TasksInvariant == TasksSpec => []TasksInv
<1>1. TasksInit => TasksInv
  BY InitTasksInv
<1>2. TasksInv /\ [TasksNext]_taskVars => TasksInv'
  BY NextTasksInv
<1> QED  BY <1>1, <1>2, PTL DEF TasksSpec

(* Every row and every copy in memory is one the code could have written. *)
THEOREM TasksTypes == TasksSpec => []TasksTypeOK
<1>1. TasksInv => TasksTypeOK
  BY DEF TasksInv
<1> QED  BY <1>1, TasksInvariant, PTL

(* For any number of servers: the task a tick is executing is there, active and
   due, and nothing else executes it, unless another thread had the row or a
   process died on it (runDueTasks, executeTask). *)
THEOREM OnlyWantedRuns == TasksSpec => []TaskRunsAreWanted
<1>1. TasksInv => TaskRunsAreWanted
  <2> SUFFICES ASSUME TasksInv, NEW s \in Servers, NEW t \in TaskIds,
                      taskHand[s].op = "tick", taskHand[s].running = t, ~contested[t]
               PROVE  IsDue(tasks[t]) /\ fired[t] = 1
      BY DEF TaskRunsAreWanted
  <2>1. Has(s, t) /\ IsDue(taskHand[s].copies[t])
    BY DEF TasksInv, HandsAreSound, SoundHand, Has, Holders
  <2> QED  BY <2>1 DEF TasksInv, CopiesAreRows, FiredWhileRunning, IsRunning, Holders
<1> QED  BY <1>1, TasksInvariant, PTL

(* Whatever runs, fails and is retried, an uncontested row says what the member
   asked for last, and a removed one stays removed (create, update, remove, and
   the save that ends executeTask). *)
THEOREM WishesStand == TasksSpec => []TaskIntentKept
<1>1. TasksInv => TaskIntentKept
  BY DEF TasksInv
<1> QED  BY <1>1, TasksInvariant, PTL

----------------------------------------------------------------------------
(* Monitoring.  Cardinalities do not carry an induction well: what does is  *)
(* that an alert has one teller at most, be it a sweep that is to post it   *)
(* or the channel it was posted to.                                         *)

Sweep == [phase : {"idle", "check", "record", "post"}, left : SUBSET Accounts,
          account : Accounts \cup {Nobody}, findings : SUBSET Metrics, reports : SUBSET Alerts]

Reports(s, alert) == alert \in sweepHand[s].reports
Told(alert) == posted[alert] = 1 \/ \E s \in Servers : Reports(s, alert)

(* A phase has what it works on. *)
SoundSweep(hand) ==
    /\ hand.phase = "check" => hand.left # {}
    /\ hand.phase = "record" => hand.account \in Accounts
    /\ hand.phase = "post" => hand.reports # {}

SweepsAreSound == \A s \in Servers : SoundSweep(sweepHand[s])

OneTeller ==
    \A alert \in Alerts :
        /\ posted[alert] \in {0, 1}
        /\ \A s, r \in Servers : Reports(s, alert) /\ Reports(r, alert) => s = r
        /\ posted[alert] = 1 => \A s \in Servers : ~Reports(s, alert)
        /\ Told(alert) <=> alert \in alerts \ lost

(* Only what was inserted can be lost. *)
LostAreAlerts == lost \subseteq alerts

MonitoringInv == MonitoringTypeOK /\ SweepsAreSound /\ OneTeller /\ LostAreAlerts

LEMMA InitMonitoringInv == MonitoringInit => MonitoringInv
<1> SUFFICES ASSUME MonitoringInit PROVE MonitoringInv
    OBVIOUS
<1>1. /\ NoSweep \in Sweep /\ NoSweep.reports = {} /\ NoSweep.phase = "idle"
      /\ \A s \in Servers : sweepHand[s] = NoSweep
  BY DEF NoSweep, Sweep, MonitoringInit
<1> HIDE DEF NoSweep
<1>2. clock \in 1 .. MaxClock /\ crashes \in 0 .. MaxCrashes
  BY SchedulingAssumption DEF MonitoringInit, SchedulingInit
<1>3. sweepHand \in [Servers -> Sweep] /\ posted \in [Alerts -> Nat]
  BY <1>1 DEF MonitoringInit
<1>4. MonitoringTypeOK
  BY <1>2, <1>3 DEF MonitoringTypeOK, MonitoringInit, Sweep
<1>5. SweepsAreSound
  BY <1>1 DEF SweepsAreSound, SoundSweep
<1>6. OneTeller
  BY <1>1 DEF OneTeller, Told, Reports, MonitoringInit
<1>7. LostAreAlerts
  BY DEF LostAreAlerts, MonitoringInit
<1> QED  BY <1>4, <1>5, <1>6, <1>7 DEF MonitoringInv

(* What a sweep goes on with. *)
LEMMA GoesOn ==
    ASSUME sweepHand \in [Servers -> Sweep], NEW s \in Servers, NEW left \in SUBSET Accounts,
           NEW account \in Accounts, NEW findings \in SUBSET Metrics,
           NEW reports \in SUBSET Alerts, NEW a, Goes(s, left, a, findings, reports),
           a = account \/ (findings = {} /\ a = Nobody)
    PROVE  /\ sweepHand' \in [Servers -> Sweep]
           /\ sweepHand'[s].reports = reports /\ SoundSweep(sweepHand'[s])
           /\ \A r \in Servers : r # s => sweepHand'[r] = sweepHand[r]
<1> DEFINE next == [left |-> left, findings |-> findings, reports |-> reports,
                    account |-> IF findings = {} THEN Nobody ELSE a,
                    phase |-> IF findings # {} THEN "record"
                              ELSE IF left # {} THEN "check" ELSE "post"]
           new == IF findings = {} /\ left = {} /\ reports = {} THEN NoSweep ELSE next
<1>1. sweepHand' = [sweepHand EXCEPT ![s] = new]
  BY DEF Goes
<1>2. next \in Sweep /\ next.reports = reports
  BY DEF Sweep
<1>3. NoSweep \in Sweep /\ NoSweep.reports = {} /\ NoSweep.phase = "idle"
  BY DEF Sweep, NoSweep
<1>4. new = NoSweep \/ SoundSweep(next)
  BY DEF SoundSweep
<1> HIDE DEF next, NoSweep
<1>5. new \in Sweep /\ new.reports = reports
  BY <1>2, <1>3
<1>6. SoundSweep(new)
  BY <1>3, <1>4 DEF SoundSweep
<1> HIDE DEF new
<1> QED  BY <1>1, <1>5, <1>6

LEMMA MonitoringFields ==
    ASSUME MonitoringTypeOK
    PROVE  /\ sweepHand \in [Servers -> Sweep] /\ posted \in [Alerts -> Nat]
           /\ alerts \subseteq Alerts /\ lost \subseteq Alerts
           /\ clock \in 1 .. MaxClock /\ crashes \in 0 .. MaxCrashes
           /\ MaxCrashes \in Nat
BY SchedulingAssumption DEF MonitoringTypeOK, Sweep

(* Looking at an account reports nothing yet. *)
LEMMA LookMonitoringInv ==
    ASSUME MonitoringInv,
           \/ \E s \in Servers : \/ SweepStart(s)
                                 \/ \E today, base \in Readings : CheckAccount(s, today, base)
           \/ SweepTime
    PROVE  MonitoringInv'
<1> USE DEF MonitoringInv
<1>1. /\ sweepHand' \in [Servers -> Sweep] /\ SweepsAreSound'
      /\ \A s \in Servers : sweepHand'[s].reports = sweepHand[s].reports
  <2>1. ASSUME NEW s \in Servers, SweepStart(s)
        PROVE  /\ sweepHand' \in [Servers -> Sweep] /\ SweepsAreSound'
               /\ \A r \in Servers : sweepHand'[r].reports = sweepHand[r].reports
    <3> DEFINE new == [sweepHand[s] EXCEPT !.phase = "check", !.left = Accounts]
    <3>1. sweepHand' = [sweepHand EXCEPT ![s] = new]
      BY <2>1, MonitoringFields DEF SweepStart
    <3>2. /\ new \in Sweep /\ new.phase = "check" /\ new.left = Accounts
          /\ new.reports = sweepHand[s].reports
      BY MonitoringFields DEF Sweep
    <3> HIDE DEF new
    <3> QED  BY <3>1, <3>2, MonitoringFields, MonitoringAssumption DEF SweepsAreSound, SoundSweep
  <2>2. ASSUME NEW s \in Servers, NEW today \in Readings, NEW base \in Readings,
               CheckAccount(s, today, base)
        PROVE  /\ sweepHand' \in [Servers -> Sweep] /\ SweepsAreSound'
               /\ \A r \in Servers : sweepHand'[r].reports = sweepHand[r].reports
    <3> DEFINE a == CHOOSE a \in sweepHand[s].left : TRUE
               left == sweepHand[s].left \ {a}
               findings == Findings(today, base)
               reports == sweepHand[s].reports
    <3>1. sweepHand[s] \in Sweep /\ sweepHand[s].left # {}
      BY <2>2, MonitoringFields DEF CheckAccount, SweepsAreSound, SoundSweep
    <3>2. a \in Accounts /\ left \in SUBSET Accounts /\ reports \in SUBSET Alerts
      BY <3>1 DEF Sweep
    <3>3. findings \in SUBSET Metrics
      BY DEF Findings
    <3>4. Goes(s, left, a, findings, reports)
      BY <2>2 DEF CheckAccount
    <3> HIDE DEF a, left, findings
    <3>5. /\ sweepHand' \in [Servers -> Sweep]
          /\ sweepHand'[s].reports = reports /\ SoundSweep(sweepHand'[s])
          /\ \A r \in Servers : r # s => sweepHand'[r] = sweepHand[r]
      BY <3>2, <3>3, <3>4, MonitoringFields, GoesOn
    <3> QED  BY <3>5 DEF SweepsAreSound
  <2>3. CASE SweepTime
    BY <2>3, MonitoringFields DEF SweepTime, SweepsAreSound
  <2> QED  BY <2>1, <2>2, <2>3
<1>2. /\ UNCHANGED <<alerts, posted, lost, crashes>> /\ clock' \in 1 .. MaxClock
  <2>1. /\ UNCHANGED <<alerts, posted, lost, crashes>>
        /\ clock' = clock \/ (clock < MaxClock /\ clock' = clock + 1)
    BY DEF SweepStart, CheckAccount, SweepTime, TimePasses
  <2>2. MaxClock \in Nat
    BY SchedulingAssumption
  <2> QED  BY <2>1, <2>2, MonitoringFields
<1>3. MonitoringTypeOK'
  BY <1>1, <1>2, MonitoringFields DEF MonitoringTypeOK, Sweep
<1>4. OneTeller'
  <2>1. \A s \in Servers, alert \in Alerts : Reports(s, alert)' <=> Reports(s, alert)
    BY <1>1 DEF Reports
  <2> QED  BY <1>2, <2>1 DEF OneTeller, Told
<1>5. LostAreAlerts'
  BY <1>2 DEF LostAreAlerts
<1> QED  BY <1>1, <1>3, <1>4, <1>5

LEMMA TodayIsDay ==
    ASSUME clock \in 1 .. MaxClock
    PROVE  Today \in Days
<1>1. /\ clock \in Nat /\ MaxClock \in Nat /\ clock <= MaxClock /\ Day \in Nat \ {0}
  BY SchedulingAssumption
<1> DEFINE a == clock \div Day
           b == MaxClock \div Day
<1>2. /\ a \in Nat /\ Day * a <= clock
      /\ b \in Nat /\ MaxClock < Day * b + Day
  BY <1>1, DivBounds
<1> HIDE DEF a, b
<1>3. a <= b
  <2> SUFFICES ASSUME b + 1 <= a PROVE FALSE
      BY <1>2
  <2>1. Day * (b + 1) <= Day * a
    BY <1>1, <1>2
  <2>2. Day * (b + 1) = Day * b + Day
    BY <1>1, <1>2
  <2> QED  BY <1>1, <1>2, <2>1, <2>2
<1> QED  BY <1>2, <1>3 DEF Today, Days, a, b

(* The unique index lets one sweep report the alert. *)
LEMMA RecordMonitoringInv ==
    ASSUME MonitoringInv, NEW s \in Servers, NEW m \in Metrics, RecordOnce(s, m)
    PROVE  MonitoringInv'
<1> USE DEF MonitoringInv
<1> DEFINE a == sweepHand[s].account
           alert == [account |-> a, metric |-> m, day |-> Today]
           left == sweepHand[s].left
           findings == sweepHand[s].findings \ {m}
           reports == sweepHand[s].reports \cup Fresh(s, alert)
<1>1. sweepHand[s] \in Sweep /\ a \in Accounts
  BY MonitoringFields DEF RecordOnce, SweepsAreSound, SoundSweep
<1>2. alert \in Alerts
  BY <1>1, TodayIsDay, MonitoringFields DEF Alerts
<1>3. /\ alerts' = alerts \cup {alert} /\ Goes(s, left, a, findings, reports)
      /\ UNCHANGED <<clock, crashes, posted, lost>>
  BY DEF RecordOnce
<1> HIDE DEF alert
<1>4. left \in SUBSET Accounts /\ findings \in SUBSET Metrics /\ reports \in SUBSET Alerts
  BY <1>1, <1>2 DEF Sweep, Fresh
<1>5. /\ sweepHand' \in [Servers -> Sweep]
      /\ sweepHand'[s].reports = reports /\ SoundSweep(sweepHand'[s])
      /\ \A r \in Servers : r # s => sweepHand'[r] = sweepHand[r]
  <2> HIDE DEF left, findings, reports, a
  <2> QED  BY <1>1, <1>3, <1>4, MonitoringFields, GoesOn
<1>6. MonitoringTypeOK'
  BY <1>2, <1>3, <1>5, MonitoringFields DEF MonitoringTypeOK, Sweep
<1>7. SweepsAreSound'
  BY <1>5 DEF SweepsAreSound
<1>8. \A r \in Servers, other \in Alerts :
        Reports(r, other)' <=> \/ Reports(r, other)
                               \/ r = s /\ other = alert /\ alert \notin alerts
  BY <1>5 DEF Reports, Fresh
<1>9. ~Told(alert) \/ alert \in alerts
  BY <1>2 DEF OneTeller
<1>10. alert \notin lost \/ alert \in alerts
  BY DEF LostAreAlerts
<1>11. OneTeller'
  <2> SUFFICES ASSUME NEW other \in Alerts
               PROVE  /\ posted[other] \in {0, 1}
                      /\ \A t, r \in Servers : Reports(t, other)' /\ Reports(r, other)' => t = r
                      /\ posted[other] = 1 => \A r \in Servers : ~Reports(r, other)'
                      /\ Told(other)' <=> other \in alerts' \ lost
      BY <1>3 DEF OneTeller
  <2>1. CASE other = alert /\ alert \notin alerts
    <3>1. posted[other] # 1 /\ \A r \in Servers : ~Reports(r, other)
      BY <1>9, <2>1 DEF Told
    <3>2. \A r \in Servers : Reports(r, other)' <=> r = s
      BY <1>8, <2>1, <3>1
    <3> QED  BY <1>3, <1>10, <2>1, <3>1, <3>2 DEF OneTeller, Told
  <2>2. CASE other # alert \/ alert \in alerts
    <3>1. /\ \A r \in Servers : Reports(r, other)' <=> Reports(r, other)
          /\ other \in alerts' <=> other \in alerts
      BY <1>3, <1>8, <2>2
    <3> QED  BY <1>3, <3>1 DEF OneTeller, Told
  <2> QED  BY <2>1, <2>2
<1>12. LostAreAlerts'
  BY <1>3 DEF LostAreAlerts
<1> QED  BY <1>6, <1>7, <1>11, <1>12

(* An insert that fails leaves nothing to report: a row that went in is lost. *)
LEMMA FailsMonitoringInv ==
    ASSUME MonitoringInv, NEW s \in Servers, NEW m \in Metrics, NEW inserted \in BOOLEAN,
           RecordFails(s, m, inserted)
    PROVE  MonitoringInv'
<1> USE DEF MonitoringInv
<1> DEFINE a == sweepHand[s].account
           alert == [account |-> a, metric |-> m, day |-> Today]
           added == IF inserted THEN {alert} \ alerts ELSE {}
           left == sweepHand[s].left
           findings == sweepHand[s].findings \ {m}
           reports == sweepHand[s].reports
<1>1. sweepHand[s] \in Sweep /\ a \in Accounts
  BY MonitoringFields DEF RecordFails, SweepsAreSound, SoundSweep
<1>2. alert \in Alerts
  BY <1>1, TodayIsDay, MonitoringFields DEF Alerts
<1>3. /\ alerts' = alerts \cup added /\ lost' = lost \cup added
      /\ Goes(s, left, a, findings, reports)
      /\ UNCHANGED <<clock, posted>> /\ crashes' \in 0 .. MaxCrashes
  BY MonitoringFields DEF RecordFails, OneMoreCrash
<1>4. left \in SUBSET Accounts /\ findings \in SUBSET Metrics /\ reports \in SUBSET Alerts
  BY <1>1 DEF Sweep
<1>5. added \subseteq Alerts /\ added \cap alerts = {}
  BY <1>2
<1> HIDE DEF alert, added
<1>6. /\ sweepHand' \in [Servers -> Sweep]
      /\ sweepHand'[s].reports = reports /\ SoundSweep(sweepHand'[s])
      /\ \A r \in Servers : r # s => sweepHand'[r] = sweepHand[r]
  <2> HIDE DEF left, findings, reports, a
  <2> QED  BY <1>1, <1>3, <1>4, MonitoringFields, GoesOn
<1>7. MonitoringTypeOK'
  BY <1>3, <1>5, <1>6, MonitoringFields DEF MonitoringTypeOK, Sweep
<1>8. SweepsAreSound'
  BY <1>6 DEF SweepsAreSound
<1>9. \A r \in Servers, other \in Alerts : Reports(r, other)' <=> Reports(r, other)
  BY <1>6 DEF Reports
<1>10. \A other \in Alerts : other \in alerts' \ lost' <=> other \in alerts \ lost
  BY <1>3, <1>5
<1>11. OneTeller'
  BY <1>3, <1>9, <1>10 DEF OneTeller, Told
<1>12. LostAreAlerts'
  BY <1>3 DEF LostAreAlerts
<1> QED  BY <1>7, <1>8, <1>11, <1>12

(* Telling and losing: both take the alerts from the one sweep that had them. *)
LEMMA TellMonitoringInv ==
    ASSUME MonitoringInv, NEW s \in Servers, NEW delivered \in BOOLEAN,
           Post(s, delivered) \/ SweepLost(s)
    PROVE  MonitoringInv'
<1> USE DEF MonitoringInv
<1>1. sweepHand[s] \in Sweep /\ sweepHand[s].reports \subseteq Alerts
  BY MonitoringFields DEF Sweep
<1>2. PICK gone \in SUBSET sweepHand[s].reports, told \in SUBSET sweepHand[s].reports :
        /\ told = {} \/ (\E alert \in Alerts : told = {alert} /\ posted' = [posted EXCEPT ![alert] = @ + 1])
        /\ told = {} => posted' = posted
        /\ lost' = lost \cup (gone \ told)
        /\ told \subseteq gone
        /\ sweepHand' \in [Servers -> Sweep] /\ SoundSweep(sweepHand'[s])
        /\ sweepHand'[s].reports = sweepHand[s].reports \ gone
        /\ \A r \in Servers : r # s => sweepHand'[r] = sweepHand[r]
  <2>1. CASE Post(s, delivered)
    <3> DEFINE alert == CHOOSE alert \in sweepHand[s].reports : TRUE
               reports == sweepHand[s].reports \ {alert}
    <3>1. alert \in sweepHand[s].reports
      BY <2>1 DEF Post, SweepsAreSound, SoundSweep
    <3>2. Goes(s, {}, Nobody, {}, reports)
      BY <2>1 DEF Post
    <3>3. PICK account \in Accounts : account \in Accounts
      BY MonitoringAssumption
    <3>4. {} \in SUBSET Accounts /\ {} \in SUBSET Metrics /\ reports \in SUBSET Alerts
      BY <1>1
    <3> HIDE DEF reports
    <3>5. /\ sweepHand' \in [Servers -> Sweep]
          /\ sweepHand'[s].reports = reports /\ SoundSweep(sweepHand'[s])
          /\ \A r \in Servers : r # s => sweepHand'[r] = sweepHand[r]
      BY <3>2, <3>3, <3>4, MonitoringFields, GoesOn
    <3>6. \/ posted' = [posted EXCEPT ![alert] = @ + 1] /\ lost' = lost
          \/ posted' = posted /\ lost' = lost \cup {alert}
      BY <2>1 DEF Post
    <3> HIDE DEF alert
    <3>7. CASE posted' = [posted EXCEPT ![alert] = @ + 1] /\ lost' = lost
      <4> {alert} \in SUBSET sweepHand[s].reports
          BY <3>1
      <4> WITNESS {alert} \in SUBSET sweepHand[s].reports, {alert} \in SUBSET sweepHand[s].reports
      <4> QED  BY <1>1, <3>1, <3>5, <3>7 DEF reports
    <3>8. CASE posted' = posted /\ lost' = lost \cup {alert}
      <4> {alert} \in SUBSET sweepHand[s].reports
          BY <3>1
      <4> WITNESS {alert} \in SUBSET sweepHand[s].reports, {} \in SUBSET sweepHand[s].reports
      <4> QED  BY <3>1, <3>5, <3>8 DEF reports
    <3> QED  BY <3>6, <3>7, <3>8
  <2>2. CASE SweepLost(s)
    <3>1. /\ NoSweep \in Sweep /\ NoSweep.reports = {} /\ SoundSweep(NoSweep)
      BY DEF NoSweep, Sweep, SoundSweep
    <3> HIDE DEF NoSweep
    <3>2. /\ sweepHand' = [sweepHand EXCEPT ![s] = NoSweep] /\ posted' = posted
          /\ lost' = lost \cup sweepHand[s].reports
      BY <2>2 DEF SweepLost
    <3> WITNESS sweepHand[s].reports \in SUBSET sweepHand[s].reports,
                {} \in SUBSET sweepHand[s].reports
    <3> QED  BY <3>1, <3>2, MonitoringFields
  <2> QED  BY <2>1, <2>2
<1>3. /\ UNCHANGED <<alerts, clock>> /\ crashes' \in 0 .. MaxCrashes
  BY MonitoringFields DEF Post, SweepLost, OneMoreCrash
<1>4. MonitoringTypeOK'
  <2>1. posted' \in [Alerts -> Nat]
    BY <1>2, MonitoringFields
  <2>2. lost' \subseteq Alerts
    BY <1>1, <1>2, MonitoringFields
  <2> QED  BY <1>2, <1>3, <2>1, <2>2, MonitoringFields DEF MonitoringTypeOK, Sweep
<1>5. SweepsAreSound'
  BY <1>2 DEF SweepsAreSound
<1>6. \A r \in Servers, alert \in Alerts :
        Reports(r, alert)' <=> Reports(r, alert) /\ ~(r = s /\ alert \in gone)
  BY <1>2 DEF Reports
<1>7. \A alert \in Alerts :
        posted'[alert] = IF alert \in told THEN posted[alert] + 1 ELSE posted[alert]
  BY <1>2, MonitoringFields
<1>8. OneTeller'
  <2> SUFFICES ASSUME NEW alert \in Alerts
               PROVE  /\ posted'[alert] \in {0, 1}
                      /\ \A t, r \in Servers : Reports(t, alert)' /\ Reports(r, alert)' => t = r
                      /\ posted'[alert] = 1 => \A r \in Servers : ~Reports(r, alert)'
                      /\ Told(alert)' <=> alert \in alerts \ lost'
      BY <1>3 DEF OneTeller
  <2>1. CASE alert \in gone
    <3>1. Reports(s, alert)
      BY <2>1 DEF Reports
    <3>2. /\ posted[alert] = 0 /\ \A r \in Servers : Reports(r, alert) => r = s
          /\ alert \in alerts \ lost
      BY <3>1 DEF OneTeller, Told
    <3>3. \A r \in Servers : ~Reports(r, alert)'
      BY <1>6, <2>1, <3>2
    <3>4. posted'[alert] = IF alert \in told THEN 1 ELSE 0
      BY <1>7, <3>2
    <3>5. alert \in lost' <=> alert \notin told
      BY <1>2, <2>1, <3>2
    <3> QED  BY <3>2, <3>3, <3>4, <3>5 DEF Told
  <2>2. CASE alert \notin gone
    <3>1. /\ \A r \in Servers : Reports(r, alert)' <=> Reports(r, alert)
          /\ alert \in lost' <=> alert \in lost
          /\ posted'[alert] = posted[alert]
      BY <1>2, <1>6, <1>7, <2>2
    <3> QED  BY <3>1 DEF OneTeller, Told
  <2> QED  BY <2>1, <2>2
<1>9. LostAreAlerts'
  <2>1. gone \subseteq alerts
    BY <1>1 DEF OneTeller, Told, Reports
  <2> QED  BY <1>2, <1>3, <2>1 DEF LostAreAlerts
<1> QED  BY <1>4, <1>5, <1>8, <1>9

LEMMA NextMonitoringInv == MonitoringInv /\ [MonitoringNext]_sweepVars => MonitoringInv'
<1> SUFFICES ASSUME MonitoringInv, [MonitoringNext]_sweepVars PROVE MonitoringInv'
    OBVIOUS
<1>1. CASE UNCHANGED sweepVars
  BY <1>1 DEF sweepVars, MonitoringInv, MonitoringTypeOK, SweepsAreSound, SoundSweep, OneTeller,
              Told, Reports, LostAreAlerts
<1>2. ASSUME NEW s \in Servers, SweepLost(s) PROVE MonitoringInv'
  <2>1. TRUE \in BOOLEAN
    OBVIOUS
  <2> QED  BY <1>2, <2>1, TellMonitoringInv
<1> QED
  BY <1>1, <1>2, LookMonitoringInv, RecordMonitoringInv, FailsMonitoringInv, TellMonitoringInv
     DEF MonitoringNext

(* Any number of servers sweep at any time, and any of them may die. *)
THEOREM MonitoringInvariant == MonitoringSpec => []MonitoringInv
<1>1. MonitoringInit => MonitoringInv
  BY InitMonitoringInv
<1>2. MonitoringInv /\ [MonitoringNext]_sweepVars => MonitoringInv'
  BY NextMonitoringInv
<1> QED  BY <1>1, <1>2, PTL DEF MonitoringSpec

(* An anomaly inserted into anomaly_alerts is posted once, or is with the one
   sweep that inserted it, unless its report was lost: the unique index is
   enough for any number of servers (recordOnce, sweepWorkspace). *)
THEOREM AlertsHaveOneTeller == MonitoringSpec => []AlertsAreToldOnce
<1>1. MonitoringInv => AlertsAreToldOnce
  <2> SUFFICES ASSUME MonitoringInv, NEW alert \in Alerts
               PROVE  posted[alert] + Cardinality({s \in Servers : Reports(s, alert)})
                        = IF alert \in alerts \ lost THEN 1 ELSE 0
      BY DEF AlertsAreToldOnce, Reports
  <2> DEFINE holders == {s \in Servers : Reports(s, alert)}
  <2>1. OneTeller
    BY DEF MonitoringInv
  <2>2. CASE holders = {}
    <3>1. Cardinality(holders) = 0
      BY <2>2, FS_EmptySet
    <3>2. posted[alert] = IF alert \in alerts \ lost THEN 1 ELSE 0
      BY <2>1, <2>2 DEF OneTeller, Told
    <3> QED  BY <3>1, <3>2
  <2>3. CASE holders # {}
    <3>1. PICK s \in Servers : Reports(s, alert)
      BY <2>3
    <3>2. holders = {s}
      BY <2>1, <3>1 DEF OneTeller
    <3>3. Cardinality(holders) = 1
      BY <3>2, FS_Singleton
    <3>4. posted[alert] = 0 /\ alert \in alerts \ lost
      BY <2>1, <3>1 DEF OneTeller, Told
    <3> QED  BY <3>3, <3>4
  <2> QED  BY <2>2, <2>3
<1> QED  BY <1>1, MonitoringInvariant, PTL

-----------------------------------------------------------------------------
(* Exports.  That nothing is skipped and no whole millisecond written twice   *)
(* is what the watermark means (Sound): everything up to it is in the sheet,  *)
(* and everything in the sheet that a date can hold is up to it.  A run keeps *)
(* it because the rows it read are the next ones after the watermark, and     *)
(* stay so while rows are written during the run (IsNext).                    *)

ExportHand == [phase : ExportPhases, copies : [ExportIds -> ExportRow \cup {Absent}],
               running : ExportIds \cup {Nobody}, advance : BOOLEAN,
               startedAt : 0 .. MaxClock, table : SUBSET Instants]

HasExport(h, x) == exportHand[h].copies[x] # Absent
Finishes(h, x) == exportHand[h].phase = "save" /\ exportHand[h].running = x

(* The sheet of x has every row of the stream from its first up to `until`. *)
Whole(x, until) ==
    \A i \in stream, j \in Instants :
        i <= until /\ j <= i /\ sheet[x][j] > 0 => sheet[x][i] > 0

(* What the row of an export, or the newer copy of it, says of its sheet. *)
Sound(x, row) ==
    LET mark == row.lastExportedAt
    IN  /\ mark <= clock /\ Millis(mark) = mark
        /\ mark = NotSet => \A i \in Instants : sheet[x][i] = 0
        /\ \A i \in Instants : sheet[x][i] > 0 /\ Millis(i) = i => i <= mark
        /\ row.dataset = "event_stream" => Whole(x, mark)
        /\ spreadsheets[x] = 0 \/ (spreadsheets[x] = 1 /\ row.spreadsheet)

(* The rows a run has read are the next ones after its watermark. *)
IsNext(hand, row) ==
    LET mark == row.lastExportedAt
        table == hand.table
    IN  /\ hand.startedAt <= clock /\ mark <= hand.startedAt /\ Millis(hand.startedAt) = hand.startedAt
        /\ table \subseteq stream /\ \A i \in table : i > mark
        /\ row.dataset = "event_stream" =>
            /\ \A i \in stream, k \in table : mark # NotSet /\ mark < i /\ i <= k => i \in table
            /\ \A i \in stream, j, k \in table : j <= i /\ i <= k => i \in table
            /\ table = {} /\ mark # NotSet => \A i \in stream : i <= mark \/ i > hand.startedAt
        /\ row.dataset # "event_stream" => table = {}

RunsAreSound ==
    /\ stream \subseteq {i \in Instants : Resolution <= i /\ i <= clock}
    /\ \A h \in Holders :
        exportHand[h].phase \in {"write", "save"} =>
            exportHand[h].running \in ExportIds /\ HasExport(h, exportHand[h].running)

UntroubledExport(x) ==
    /\ exports[x] = Absent => \A h \in Holders : ~HasExport(h, x)
    /\ \A h, k \in Holders : HasExport(h, x) /\ HasExport(k, x) => h = k
    /\ \A h \in Holders : HasExport(h, x) =>
        LET copy == exportHand[h].copies[x]
        IN  IF Finishes(h, x)
            THEN /\ Sound(x, copy) /\ copy.dataset = exports[x].dataset
                 /\ exports[x].lastExportedAt <= copy.lastExportedAt
            ELSE copy = exports[x]
    /\ exports[x] # Absent /\ ~(\E h \in Holders : Finishes(h, x)) => Sound(x, exports[x])
    /\ \A h \in Holders : exportHand[h].phase = "write" /\ exportHand[h].running = x =>
            IsNext(exportHand[h], exports[x])
    /\ exports[x] = Absent => spreadsheets[x] = 0
    /\ \A i \in Instants : Millis(i) = i => sheet[x][i] <= 1

ExportsInv ==
    /\ ExportsTypeOK
    /\ RunsAreSound
    /\ \A x \in ExportIds : ~troubled[x] => UntroubledExport(x)

(* Multiplication by the same number keeps the order. *)
LEMMA TimesOrder ==
    ASSUME NEW a \in Nat, NEW b \in Nat, NEW d \in Nat, a < b
    PROVE  d * a + d <= d * b
<1>1. PICK c \in Nat : b = a + 1 + c
  <2>1. b - a - 1 \in Nat /\ b = a + 1 + (b - a - 1)
    OBVIOUS
  <2> QED  BY <2>1
<1>2. d * b = d * a + d + d * c /\ d * c \in Nat /\ d * a \in Nat
  BY <1>1
<1> HIDE <1>1
<1> QED  BY <1>2

(* A date is the start of the millisecond of an instant. *)
LEMMA MillisBounds ==
    ASSUME NEW i \in Nat
    PROVE  /\ Millis(i) \in Nat /\ Millis(i) <= i
           /\ Millis(Millis(i)) = Millis(i)
           /\ \A j \in Nat : j <= i => Millis(j) <= Millis(i)
           /\ Resolution <= i => Resolution <= Millis(i)
<1> DEFINE q(k) == k \div Resolution
<1>1. Resolution \in Nat \ {0}
  BY ExportsAssumption
<1>2. ASSUME NEW k \in Nat
      PROVE  /\ q(k) \in Nat /\ Millis(k) = Resolution * q(k) /\ Millis(k) \in Nat
             /\ Millis(k) <= k /\ k < Millis(k) + Resolution
  <2>1. q(k) \in Nat /\ Resolution * q(k) <= k /\ k < Resolution * q(k) + Resolution
    BY <1>1, DivBounds
  <2>2. Millis(k) = q(k) * Resolution
    BY DEF Millis
  <2> HIDE DEF q
  <2>3. q(k) * Resolution = Resolution * q(k) /\ Resolution * q(k) \in Nat
    BY <1>1, <2>1
  <2> QED  BY <2>1, <2>2, <2>3
<1> HIDE DEF q
<1>3. ASSUME NEW j \in Nat, NEW k \in Nat, j < Millis(k) + Resolution
      PROVE  q(j) <= q(k)
  <2>1. CASE q(k) < q(j)
    <3>1. Resolution * q(k) + Resolution <= Resolution * q(j)
      BY <1>1, <1>2, <2>1, TimesOrder
    <3> QED  BY <1>1, <1>2, <1>3, <3>1
  <2> QED  BY <1>2, <2>1
<1>4. ASSUME NEW j \in Nat, NEW k \in Nat, q(j) <= q(k)
      PROVE  Millis(j) <= Millis(k)
  <2>1. CASE q(j) < q(k)
    <3>1. Resolution * q(j) + Resolution <= Resolution * q(k)
      BY <1>1, <1>2, <2>1, TimesOrder
    <3> QED  BY <1>1, <1>2, <3>1
  <2>2. CASE q(j) = q(k)
    BY <1>2, <2>2
  <2> QED  BY <1>2, <1>4, <2>1, <2>2
<1>5. Millis(Millis(i)) = Millis(i)
  <2>1. q(i) <= q(Millis(i))
    <3>1. CASE q(Millis(i)) < q(i)
      <4>1. Resolution * q(Millis(i)) + Resolution <= Resolution * q(i)
        BY <1>1, <1>2, <3>1, TimesOrder
      <4>2. Millis(i) < Resolution * q(Millis(i)) + Resolution /\ Resolution * q(i) = Millis(i)
        BY <1>2
      <4>3. Resolution * q(Millis(i)) \in Nat /\ Millis(i) \in Nat
        BY <1>2
      <4> QED  BY <1>1, <4>1, <4>2, <4>3
    <3> QED  BY <1>2, <3>1
  <2>2. Millis(i) <= Millis(Millis(i))
    BY <1>2, <1>4, <2>1
  <2> QED  BY <1>2, <2>2
<1>6. ASSUME NEW j \in Nat, j <= i  PROVE  Millis(j) <= Millis(i)
  <2>1. j < Millis(i) + Resolution
    BY <1>1, <1>2, <1>6
  <2> QED  BY <1>3, <1>4, <2>1
<1>7. ASSUME Resolution <= i  PROVE  Resolution <= Millis(i)
  <2>1. CASE q(i) = 0
    <3>1. Resolution * 0 = 0
      BY <1>1
    <3> QED  BY <1>1, <1>2, <1>7, <2>1, <3>1
  <2>2. CASE 0 < q(i)
    <3>1. Resolution * 0 + Resolution <= Resolution * q(i)
      BY <1>1, <1>2, <2>2, TimesOrder
    <3>2. Resolution * 0 = 0
      BY <1>1
    <3> QED  BY <1>1, <1>2, <3>1, <3>2
  <2> QED  BY <1>2, <2>1, <2>2
<1> QED  BY <1>2, <1>5, <1>6, <1>7

(* A set of instants has an oldest and, as the clock is bounded, a newest. *)
LEMMA OldestExists ==
    ASSUME NEW T \in SUBSET Nat, T # {}
    PROVE  \E i \in T : \A j \in T : i <= j
<1>1. PICK i \in T : \A j \in T : ~(<<j, i>> \in OpToRel(<, Nat))
  BY NatLessThanWellFounded, WFMin
<1>2. ASSUME NEW j \in T  PROVE  ~(j < i)
  BY <1>1, Zenon DEF OpToRel
<1> QED  BY <1>2

LEMMA NewestExists ==
    ASSUME NEW T \in SUBSET Instants, T # {}
    PROVE  \E i \in T : \A j \in T : j <= i
<1> DEFINE R == {MaxClock - j : j \in T}
<1>1. MaxClock \in Nat
  BY SchedulingAssumption
<1>2. R \in SUBSET Nat /\ R # {}
  <2>1. ASSUME NEW j \in T  PROVE  MaxClock - j \in Nat
    BY <1>1 DEF Instants
  <2>2. R \subseteq Nat
    BY <2>1
  <2>3. PICK j \in T : TRUE
    OBVIOUS
  <2>4. MaxClock - j \in R
    OBVIOUS
  <2> HIDE DEF R
  <2> QED  BY <2>2, <2>4
<1>3. PICK k \in R : \A l \in R : k <= l
  BY <1>2, OldestExists
<1>4. PICK i \in T : k = MaxClock - i
  OBVIOUS
<1>5. ASSUME NEW j \in T  PROVE  j <= i
  <2>1. MaxClock - j \in R
    OBVIOUS
  <2> HIDE DEF R
  <2> QED  BY <1>1, <1>3, <1>4, <2>1 DEF Instants
<1> QED  BY <1>5

(* What a run reads is rows after the mark, without a gap, and some if any. *)
LEMMA RowsAreNext ==
    ASSUME stream \subseteq Instants, NEW from \in Nat
    PROVE  /\ RowsAfter(from) \subseteq {i \in stream : i > from}
           /\ \A i \in stream, k \in RowsAfter(from) : from < i /\ i <= k => i \in RowsAfter(from)
           /\ RowsAfter(from) = {} => \A i \in stream : i <= from
<1> DEFINE Before(i) == {j \in stream : j > from /\ j < i}
<1>1. /\ RowsAfter(from) = {i \in stream : i > from /\ Cardinality(Before(i)) < MaxRowsPerRun}
      /\ MaxRowsPerRun \in Nat \ {0} /\ MaxClock \in Nat /\ stream \subseteq Nat
  BY ExportsAssumption, SchedulingAssumption DEF RowsAfter, Instants
<1>2. ASSUME NEW i \in stream  PROVE  IsFiniteSet(Before(i))
  <2>1. IsFiniteSet(1 .. MaxClock)
    BY <1>1, FS_Interval
  <2> QED  BY <2>1, FS_Subset DEF Instants
<1>3. ASSUME NEW i \in stream, NEW k \in RowsAfter(from), from < i, i <= k
      PROVE  i \in RowsAfter(from)
  <2>1. k \in stream /\ Before(i) \subseteq Before(k)
    <3>1. k \in stream /\ i \in Nat /\ k \in Nat
      BY <1>1
    <3>2. ASSUME NEW j \in Before(i)  PROVE  j \in Before(k)
      BY <1>1, <1>3, <3>1
    <3> HIDE DEF Before
    <3> QED  BY <3>1, <3>2
  <2>2. Cardinality(Before(i)) <= Cardinality(Before(k))
    BY <1>2, <2>1, FS_Subset
  <2>3. Cardinality(Before(i)) \in Nat /\ Cardinality(Before(k)) \in Nat
    BY <1>2, <2>1, FS_CardinalityType
  <2> HIDE DEF Before
  <2> QED  BY <1>1, <1>3, <2>2, <2>3
<1>4. ASSUME RowsAfter(from) = {}, NEW i \in stream, i > from  PROVE  FALSE
  <2> DEFINE later == {j \in stream : j > from}
  <2>1. PICK m \in later : \A j \in later : m <= j
    BY <1>1, <1>4, OldestExists
  <2>2. ASSUME NEW j \in Before(m)  PROVE  FALSE
    <3>1. j \in later /\ j < m /\ j \in Nat /\ m \in Nat
      BY <1>1, <2>1
    <3> HIDE DEF later
    <3> QED  BY <2>1, <3>1
  <2>3. Cardinality(Before(m)) = 0
    BY <2>2, FS_EmptySet, Before(m) = {}
  <2> HIDE DEF Before
  <2> QED  BY <1>1, <1>4, <2>1, <2>3
<1> QED  BY <1>1, <1>3, <1>4

LEMMA ExportFields ==
    ASSUME ExportsTypeOK
    PROVE  /\ exportHand \in [Holders -> ExportHand] /\ clock \in Nat /\ MaxClock \in Nat
           /\ AtRest \in ExportHand /\ AtRest.phase = "idle" /\ AtRest.running = Nobody
           /\ AtRest.copies = NoExports /\ \A x \in ExportIds : NoExports[x] = Absent
           /\ \A h \in Holders : exportHand[h] =
                [phase |-> exportHand[h].phase, copies |-> exportHand[h].copies,
                 running |-> exportHand[h].running, advance |-> exportHand[h].advance,
                 startedAt |-> exportHand[h].startedAt, table |-> exportHand[h].table]
<1>1. exportHand \in [Holders -> ExportHand] /\ clock \in Nat /\ MaxClock \in Nat
  BY SchedulingAssumption DEF ExportsTypeOK, ExportHand
<1>2. NoExports \in [ExportIds -> ExportRow \cup {Absent}] /\ \A x \in ExportIds : NoExports[x] = Absent
  BY DEF NoExports
<1>3. AtRest \in ExportHand /\ AtRest.phase = "idle" /\ AtRest.running = Nobody
      /\ AtRest.copies = NoExports
  BY <1>1, <1>2 DEF AtRest, ExportHand, ExportPhases
<1>4. ASSUME NEW h \in Holders
      PROVE exportHand[h] =
                [phase |-> exportHand[h].phase, copies |-> exportHand[h].copies,
                 running |-> exportHand[h].running, advance |-> exportHand[h].advance,
                 startedAt |-> exportHand[h].startedAt, table |-> exportHand[h].table]
  BY <1>1 DEF ExportHand
<1> QED  BY <1>1, <1>2, <1>3, <1>4

(* Holders that go on to other copies of their own: what a hand has read. *)
LEMMA ReadingHand ==
    ASSUME ExportsTypeOK, NEW a \in BOOLEAN, NEW c \in [ExportIds -> ExportRow \cup {Absent}],
           NEW w, w = [AtRest EXCEPT !.phase = "next", !.advance = a, !.copies = c]
    PROVE  w \in ExportHand /\ w.phase = "next" /\ w.copies = c
<1>1. AtRest \in ExportHand
  BY ExportFields
<1> QED  BY <1>1 DEF ExportHand, ExportPhases

LEMMA InitExportsInv == ExportsInit => ExportsInv
<1> SUFFICES ASSUME ExportsInit PROVE ExportsInv
    OBVIOUS
<1>1. MaxClock \in Nat \ {0} /\ clock = 1 /\ crashes = 0 /\ MaxCrashes \in Nat
  BY SchedulingAssumption DEF ExportsInit, SchedulingInit
<1>2. NoExports \in [ExportIds -> ExportRow \cup {Absent}] /\ \A x \in ExportIds : NoExports[x] = Absent
  BY DEF NoExports
<1>3. AtRest \in ExportHand /\ AtRest.phase = "idle" /\ AtRest.copies = NoExports
  BY <1>1, <1>2 DEF AtRest, ExportHand, ExportPhases
<1>4. ExportsTypeOK
  <2>1. exportHand \in [Holders -> ExportHand]
    BY <1>3 DEF ExportsInit
  <2> QED  BY <1>1, <1>2, <2>1 DEF ExportsInit, ExportsTypeOK, ExportHand
<1>5. RunsAreSound
  BY <1>3 DEF ExportsInit, RunsAreSound
<1>6. ASSUME NEW x \in ExportIds  PROVE  UntroubledExport(x)
  BY <1>2, <1>3, <1>6 DEF ExportsInit, UntroubledExport, HasExport, Finishes
<1> QED  BY <1>4, <1>5, <1>6 DEF ExportsInv

(* Nothing that concerns an export has changed, copies of it dropped apart. *)
LEMMA ExportUntouched ==
    ASSUME NEW x \in ExportIds, UntroubledExport(x), RunsAreSound', UNCHANGED <<clock, stream>>,
           sheet'[x] = sheet[x], spreadsheets'[x] = spreadsheets[x], exports'[x] = exports[x],
           \A h \in Holders : exportHand'[h].copies[x] \in {Absent, exportHand[h].copies[x]},
           \A h \in Holders : Finishes(h, x)' <=> Finishes(h, x),
           \A h \in Holders : exportHand'[h].phase = "write" /\ exportHand'[h].running = x =>
                exportHand'[h] = exportHand[h]
    PROVE  UntroubledExport(x)'
<1>1. \A h \in Holders : HasExport(h, x)' =>
        HasExport(h, x) /\ exportHand'[h].copies[x] = exportHand[h].copies[x]
  BY DEF HasExport
<1>4. exports'[x] = Absent => \A h \in Holders : ~HasExport(h, x)'
  BY <1>1 DEF UntroubledExport
<1>5. \A h, k \in Holders : HasExport(h, x)' /\ HasExport(k, x)' => h = k
  BY <1>1 DEF UntroubledExport
<1>6. ASSUME NEW h \in Holders, HasExport(h, x)'
      PROVE  LET copy == exportHand'[h].copies[x]
             IN  IF Finishes(h, x)'
                 THEN /\ Sound(x, exportHand[h].copies[x])' /\ copy.dataset = exports'[x].dataset
                      /\ exports'[x].lastExportedAt <= copy.lastExportedAt
                 ELSE copy = exports'[x]
  <2>1. HasExport(h, x) /\ exportHand'[h].copies[x] = exportHand[h].copies[x]
    BY <1>1, <1>6
  <2>2. CASE Finishes(h, x)
    <3>1. Sound(x, exportHand[h].copies[x])
      BY <2>1, <2>2 DEF UntroubledExport
    <3>2. Sound(x, exportHand[h].copies[x])'
      BY <2>1, <3>1 DEF Sound, Whole
    <3> QED  BY <2>1, <2>2, <3>2 DEF UntroubledExport
  <2>3. CASE ~Finishes(h, x)
    BY <2>1, <2>3 DEF UntroubledExport
  <2> QED  BY <2>2, <2>3
<1>7. ASSUME exports'[x] # Absent, ~(\E h \in Holders : Finishes(h, x)')
      PROVE  Sound(x, exports[x])'
  <2>1. Sound(x, exports[x])
    BY <1>7 DEF UntroubledExport
  <2> QED  BY <2>1 DEF Sound, Whole
<1>8. ASSUME NEW h \in Holders, exportHand'[h].phase = "write", exportHand'[h].running = x
      PROVE  IsNext(exportHand[h], exports[x])'
  <2>1. exportHand'[h] = exportHand[h] /\ IsNext(exportHand[h], exports[x])
    BY <1>8 DEF UntroubledExport
  <2> QED  BY <2>1 DEF IsNext
<1>9. exports'[x] = Absent => spreadsheets'[x] = 0
  BY DEF UntroubledExport
<1>10. \A i \in Instants : Millis(i) = i => sheet'[x][i] <= 1
  BY DEF UntroubledExport
<1> QED  BY <1>4, <1>5, <1>6, <1>7, <1>8, <1>9, <1>10, Zenon DEF UntroubledExport, Holders, Instants, Millis

(* One holder goes on with some exports, and the others are not concerned. *)
LEMMA HolderGoesOn ==
    ASSUME ExportsInv, ExportsTypeOK', RunsAreSound', UNCHANGED <<clock, stream>>,
           NEW h \in Holders, NEW xs \in SUBSET ExportIds,
           \A k \in Holders : k # h => exportHand'[k] = exportHand[k],
           \A x \in ExportIds : troubled[x] => troubled'[x],
           \A x \in xs : ~troubled'[x] => UntroubledExport(x)',
           \A x \in ExportIds \ xs : ~troubled'[x] =>
                /\ sheet'[x] = sheet[x] /\ spreadsheets'[x] = spreadsheets[x]
                /\ exports'[x] = exports[x]
                /\ exportHand'[h].copies[x] \in {Absent, exportHand[h].copies[x]}
                /\ Finishes(h, x)' <=> Finishes(h, x)
                /\ ~(exportHand'[h].phase = "write" /\ exportHand'[h].running = x)
    PROVE  ExportsInv'
<1>1. ASSUME NEW x \in ExportIds \ xs, ~troubled'[x]
      PROVE  UntroubledExport(x)'
  <2>1. UntroubledExport(x)
    BY <1>1 DEF ExportsInv
  <2>2. \A k \in Holders : /\ exportHand'[k].copies[x] \in {Absent, exportHand[k].copies[x]}
                           /\ Finishes(k, x)' <=> Finishes(k, x)
                           /\ exportHand'[k].phase = "write" /\ exportHand'[k].running = x =>
                                exportHand'[k] = exportHand[k]
    BY <1>1 DEF Finishes
  <2> QED  BY <1>1, <2>1, <2>2, ExportUntouched
<1> QED  BY <1>1 DEF ExportsInv

(* The rows change under a member's hand, and nobody is touched. *)
LEMMA ExportRowsChange ==
    ASSUME ExportsInv, NEW x \in ExportIds, NEW row \in ExportRow \cup {Absent},
           exports' = [exports EXCEPT ![x] = row],
           troubled' \in [ExportIds -> BOOLEAN], \A y \in ExportIds : troubled[y] => troubled'[y],
           UNCHANGED <<clock, crashes, stream, sheet, spreadsheets, exportHand>>,
           ~troubled'[x] => /\ \A h \in Holders : ~HasExport(h, x)
                            /\ row # Absent /\ Sound(x, row)
    PROVE  ExportsInv'
<1>1. ExportsTypeOK /\ RunsAreSound
  BY DEF ExportsInv
<1>2. /\ exports' \in [ExportIds -> ExportRow \cup {Absent}] /\ exports'[x] = row
      /\ \A y \in ExportIds : y # x => exports'[y] = exports[y]
  BY <1>1 DEF ExportsTypeOK
<1>3. ExportsTypeOK'
  BY <1>1, <1>2 DEF ExportsTypeOK
<1>4. RunsAreSound'
  BY <1>1 DEF RunsAreSound, HasExport
<1>5. ASSUME ~troubled'[x]  PROVE  UntroubledExport(x)'
  <2>1. UntroubledExport(x)
    BY <1>5 DEF ExportsInv
  <2>2. \A h \in Holders : ~HasExport(h, x)' /\ ~(exportHand'[h].phase = "write" /\ exportHand'[h].running = x)
    BY <1>1, <1>5 DEF HasExport, RunsAreSound
  <2>3. Sound(x, exports[x])'
    BY <1>2, <1>5 DEF Sound, Whole
  <2>4. \A i \in Instants : Millis(i) = i => sheet'[x][i] <= 1
    BY <2>1 DEF UntroubledExport
  <2> QED  BY <1>2, <1>5, <2>2, <2>3, <2>4 DEF UntroubledExport
<1>6. ASSUME NEW y \in ExportIds, y # x, ~troubled'[y]  PROVE  UntroubledExport(y)'
  <2>1. UntroubledExport(y)
    BY <1>6 DEF ExportsInv
  <2>2. \A h \in Holders : Finishes(h, y)' <=> Finishes(h, y)
    BY DEF Finishes
  <2> QED  BY <1>2, <1>4, <1>6, <2>1, <2>2, ExportUntouched
<1> QED  BY <1>3, <1>4, <1>5, <1>6 DEF ExportsInv

LEMMA MemberExportsInv ==
    ASSUME ExportsInv, NEW x \in ExportIds,
           \/ \E d \in Datasets, p \in Periods, given \in BOOLEAN : CreateExport(x, d, p, given)
           \/ RemoveExport(x)
    PROVE  ExportsInv'
<1>1. /\ ExportsTypeOK /\ clock \in 1 .. MaxClock /\ clock \in Nat /\ MaxClock \in Nat
      /\ exports \in [ExportIds -> ExportRow \cup {Absent}] /\ troubled \in [ExportIds -> BOOLEAN]
  BY ExportFields DEF ExportsInv, ExportsTypeOK
<1>2. ASSUME NEW d \in Datasets, NEW p \in Periods, NEW given \in BOOLEAN, CreateExport(x, d, p, given)
      PROVE  ExportsInv'
  <2> DEFINE row == [dataset |-> d, isActive |-> TRUE, period |-> p,
                     nextRun |-> NextRunFrom(p), spreadsheet |-> given, lastExportedAt |-> NotSet]
  <2>1. row \in ExportRow /\ row.lastExportedAt = 0
    <3> DEFINE yes == TRUE
    <3>1. yes \in BOOLEAN /\ NextRunFrom(p) \in Times
      BY <1>1, NextRunIsLater
    <3> HIDE DEF yes
    <3>2. [dataset |-> d, isActive |-> yes, period |-> p, nextRun |-> NextRunFrom(p),
           spreadsheet |-> given, lastExportedAt |-> NotSet] \in ExportRow
      BY <1>1, <3>1 DEF ExportRow, NotSet
    <3> QED  BY <3>2 DEF yes, NotSet
  <2>2. Sound(x, row)
    <3>1. Millis(0) = 0
      BY MillisBounds
    <3>2. sheet[x] = [i \in Instants |-> 0] /\ spreadsheets[x] = 0
      BY <1>2 DEF CreateExport
    <3>3. \A i \in Instants : sheet[x][i] = 0
      BY <3>2
    <3>4. ~(0 > 0)
      OBVIOUS
    <3> HIDE DEF row
    <3> QED  BY <1>1, <2>1, <3>1, <3>2, <3>3, <3>4 DEF Sound, Whole, NotSet
  <2>3. /\ exports' = [exports EXCEPT ![x] = row] /\ \A h \in Holders : ~HasExport(h, x)
        /\ UNCHANGED <<clock, crashes, stream, sheet, spreadsheets, exportHand, troubled>>
    BY <1>2 DEF CreateExport, InRun, HasExport
  <2> HIDE DEF row
  <2> QED  BY <1>1, <2>1, <2>2, <2>3, ExportRowAssumption, ExportRowsChange
<1>3. ASSUME RemoveExport(x)  PROVE  ExportsInv'
  <2>1. /\ troubled' \in [ExportIds -> BOOLEAN] /\ troubled'[x]
        /\ \A y \in ExportIds : troubled[y] => troubled'[y]
    BY <1>1, <1>3 DEF RemoveExport
  <2> QED  BY <1>3, <2>1, ExportRowsChange DEF RemoveExport
<1> QED  BY <1>2, <1>3

(* A member's copy has the watermark of the row it was made from. *)
LEMMA SetExportActiveInv ==
    ASSUME ExportsInv, NEW h \in Requests, NEW x \in ExportIds, NEW active \in BOOLEAN,
           SetExportActive(h, x, active)
    PROVE  ExportsInv'
<1> DEFINE later == IF active THEN NextRunFrom(exports[x].period) ELSE exports[x].nextRun
           set == [exports[x] EXCEPT !.isActive = active, !.nextRun = later]
           copies == [NoExports EXCEPT ![x] = set]
           new == [AtRest EXCEPT !.phase = "save", !.running = x, !.copies = copies]
<1>1. /\ ExportsTypeOK /\ RunsAreSound /\ exportHand \in [Holders -> ExportHand] /\ h \in Holders
      /\ exports[x] \in ExportRow /\ clock \in 1 .. MaxClock
  BY ExportFields DEF ExportsInv, SetExportActive, ExportsTypeOK, Holders
<1>2. later \in Times
  BY <1>1, NextRunIsLater DEF ExportRow
<1>3. /\ exportHand' = [exportHand EXCEPT ![h] = new] /\ exportHand[h].phase = "idle"
      /\ troubled' = [troubled EXCEPT ![x] = @ \/ InRun(x)] /\ exports[x] # Absent
      /\ UNCHANGED <<clock, crashes, exports, stream, sheet, spreadsheets>>
  BY Zenon DEF SetExportActive
<1> HIDE DEF later
<1>4. /\ set \in ExportRow /\ set.lastExportedAt = exports[x].lastExportedAt
      /\ set.dataset = exports[x].dataset /\ set.spreadsheet = exports[x].spreadsheet
  BY <1>1, <1>2 DEF ExportRow
<1> HIDE DEF set
<1>5. /\ copies \in [ExportIds -> ExportRow \cup {Absent}] /\ copies[x] = set
      /\ \A y \in ExportIds : y # x => copies[y] = Absent
  BY <1>4 DEF NoExports
<1> HIDE DEF copies
<1>6. /\ new \in ExportHand /\ new.phase = "save" /\ new.running = x /\ new.copies = copies
  <2>1. AtRest \in ExportHand
    BY <1>1, ExportFields
  <2> QED  BY <1>5, <2>1 DEF ExportHand, ExportPhases
<1> HIDE DEF new
<1>7. /\ exportHand' \in [Holders -> ExportHand] /\ exportHand'[h] = new
      /\ \A k \in Holders : k # h => exportHand'[k] = exportHand[k]
  BY <1>1, <1>3, <1>6
<1>8. /\ troubled' \in [ExportIds -> BOOLEAN] /\ \A y \in ExportIds : troubled[y] => troubled'[y]
      /\ ~troubled'[x] => ~troubled[x] /\ ~InRun(x)
  <2>1. troubled \in [ExportIds -> BOOLEAN]
    BY <1>1 DEF ExportsTypeOK
  <2> QED  BY <1>3, <2>1, Zenon
<1>9. ExportsTypeOK'
  BY <1>1, <1>3, <1>7, <1>8 DEF ExportsTypeOK, ExportHand
<1>10. RunsAreSound'
  <2>1. HasExport(h, x)'
    BY <1>4, <1>5, <1>6, <1>7, ExportRowAssumption DEF HasExport
  <2> QED  BY <1>1, <1>3, <1>6, <1>7, <2>1 DEF RunsAreSound, HasExport, Holders
<1>11. ASSUME ~troubled'[x]  PROVE  UntroubledExport(x)'
  <2>1. UntroubledExport(x) /\ \A k \in Holders : ~HasExport(k, x)
    BY <1>8, <1>11 DEF ExportsInv, InRun, HasExport
  <2>2. \A k \in Holders : HasExport(k, x)' => k = h
    BY <1>7, <2>1 DEF HasExport
  <2>3. \A k \in Holders : ~Finishes(k, x) /\ ~(exportHand'[k].phase = "write" /\ exportHand'[k].running = x)
    BY <1>1, <1>6, <1>7, <2>1 DEF RunsAreSound, Finishes
  <2>4. Sound(x, exports[x]) /\ exports[x].lastExportedAt \in Nat
    BY <1>1, <1>3, <2>1, <2>3 DEF UntroubledExport, ExportRow
  <2>5. Finishes(h, x)'
    BY <1>6, <1>7 DEF Finishes
  <2>6. exportHand'[h].copies[x] = set /\ Sound(x, exportHand[h].copies[x])'
    BY <1>3, <1>4, <1>5, <1>6, <1>7, <2>4 DEF Sound, Whole
  <2>7. /\ exportHand'[h].copies[x].dataset = exports'[x].dataset
        /\ exports'[x].lastExportedAt <= exportHand'[h].copies[x].lastExportedAt
    BY <1>3, <1>4, <2>4, <2>6
  <2>8. \A i \in Instants : Millis(i) = i => sheet'[x][i] <= 1
    BY <1>3, <2>1 DEF UntroubledExport
  <2> QED  BY <1>1, <1>3, <2>2, <2>3, <2>5, <2>6, <2>7, <2>8 DEF UntroubledExport, Holders
<1>12. \A y \in ExportIds \ {x} :
          /\ sheet'[y] = sheet[y] /\ spreadsheets'[y] = spreadsheets[y]
          /\ exports'[y] = exports[y]
          /\ exportHand'[h].copies[y] \in {Absent, exportHand[h].copies[y]}
          /\ Finishes(h, y)' <=> Finishes(h, y)
          /\ ~(exportHand'[h].phase = "write" /\ exportHand'[h].running = y)
  BY <1>3, <1>5, <1>6, <1>7 DEF Finishes
<1>13. \A y \in {x} : ~troubled'[y] => UntroubledExport(y)'
  BY <1>11
<1>14. UNCHANGED <<clock, stream>> /\ {x} \in SUBSET ExportIds
  BY <1>3
<1> QED  BY <1>1, <1>7, <1>8, <1>9, <1>10, <1>12, <1>13, <1>14, HolderGoesOn

(* The rows that are due are read, or the one to be run now. *)
LEMMA StartRunInv ==
    ASSUME ExportsInv, NEW h \in Holders, NEW xs \in SUBSET ExportIds, NEW advance \in BOOLEAN,
           \A x \in xs : exports[x] # Absent, StartRun(h, xs, advance)
    PROVE  ExportsInv'
<1> DEFINE copies == [x \in ExportIds |-> IF x \in xs THEN exports[x] ELSE Absent]
           new == [AtRest EXCEPT !.phase = "next", !.advance = advance, !.copies = copies]
<1>1. ExportsTypeOK /\ RunsAreSound /\ exportHand \in [Holders -> ExportHand]
  BY ExportFields DEF ExportsInv
<1>2. copies \in [ExportIds -> ExportRow \cup {Absent}]
  BY <1>1 DEF ExportsTypeOK
<1>3. /\ exportHand' = [exportHand EXCEPT ![h] = new] /\ exportHand[h].phase = "idle"
      /\ troubled' = [x \in ExportIds |-> troubled[x] \/ (x \in xs /\ InRun(x))]
      /\ UNCHANGED <<clock, crashes, exports, stream, sheet, spreadsheets>>
  BY DEF StartRun
<1>4. \A x \in ExportIds : copies[x] = IF x \in xs THEN exports[x] ELSE Absent
  OBVIOUS
<1> HIDE DEF copies
<1>5. new \in ExportHand /\ new.phase = "next" /\ new.copies = copies
  BY <1>1, <1>2, ReadingHand
<1> HIDE DEF new
<1>6. /\ exportHand' \in [Holders -> ExportHand] /\ exportHand'[h] = new
      /\ \A k \in Holders : k # h => exportHand'[k] = exportHand[k]
  BY <1>1, <1>3, <1>5
<1>7. ExportsTypeOK'
  <2>1. troubled' \in [ExportIds -> BOOLEAN]
    BY <1>3
  <2> QED  BY <1>1, <1>3, <1>6, <2>1 DEF ExportsTypeOK, ExportHand
<1>8. RunsAreSound'
  BY <1>1, <1>3, <1>5, <1>6 DEF RunsAreSound, HasExport, Holders
<1>9. \A x \in ExportIds : troubled[x] => troubled'[x]
  BY <1>3
<1>10. ASSUME NEW x \in xs, ~troubled'[x]  PROVE  UntroubledExport(x)'
  <2>1. UntroubledExport(x) /\ \A k \in Holders : ~HasExport(k, x)
    BY <1>3, <1>10 DEF ExportsInv, InRun, HasExport
  <2>2. /\ \A k \in Holders : HasExport(k, x)' => k = h
        /\ exportHand'[h].copies[x] = exports'[x] /\ exports[x] # Absent
    BY <1>3, <1>4, <1>5, <1>6, <2>1 DEF HasExport
  <2>3. \A k \in Holders : ~HasExport(k, x) /\ ~Finishes(k, x) /\ ~Finishes(k, x)'
            /\ ~(exportHand'[k].phase = "write" /\ exportHand'[k].running = x)
    BY <1>1, <1>5, <1>6, <2>1 DEF RunsAreSound, Finishes
  <2>4. Sound(x, exports[x])'
    <3>1. Sound(x, exports[x])
      BY <2>1, <2>2, <2>3 DEF UntroubledExport
    <3> QED  BY <1>3, <3>1 DEF Sound, Whole
  <2>5. \A i \in Instants : Millis(i) = i => sheet'[x][i] <= 1
    BY <1>3, <2>1 DEF UntroubledExport
  <2> QED  BY <1>3, <2>2, <2>3, <2>4, <2>5 DEF UntroubledExport, Holders
<1>11. \A x \in ExportIds \ xs : /\ exportHand'[h].copies[x] = Absent
                                 /\ ~Finishes(h, x)' /\ ~Finishes(h, x)
                                 /\ ~(exportHand'[h].phase = "write" /\ exportHand'[h].running = x)
  BY <1>3, <1>4, <1>5, <1>6 DEF Finishes
<1> QED  BY <1>1, <1>3, <1>6, <1>7, <1>8, <1>9, <1>10, <1>11, HolderGoesOn

(* A run reads the rows after the watermark; newer ones may still be written. *)
LEMMA BuildInv ==
    ASSUME ExportsInv, NEW h \in Holders, NEW x \in ExportIds, Build(h, x)
    PROVE  ExportsInv'
<1> DEFINE row == exportHand[h].copies[x]
           start == Millis(clock)
           from == ResumesFrom(row)
           table == IF row.dataset = "event_stream" THEN RowsAfter(from) ELSE {}
<1>1. /\ ExportsTypeOK /\ RunsAreSound /\ exportHand \in [Holders -> ExportHand]
      /\ clock \in 1 .. MaxClock /\ clock \in Nat /\ MaxClock \in Nat /\ stream \subseteq Instants
      /\ \A k \in Holders : exportHand[k] =
                [phase |-> exportHand[k].phase, copies |-> exportHand[k].copies,
                 running |-> exportHand[k].running, advance |-> exportHand[k].advance,
                 startedAt |-> exportHand[k].startedAt, table |-> exportHand[k].table]
  BY ExportFields DEF ExportsInv, ExportsTypeOK
<1>2. row # Absent /\ row \in ExportRow /\ row.lastExportedAt \in Nat /\ exportHand[h].phase = "next"
  BY <1>1 DEF Build, ExportHand, ExportRow
<1>3. start \in Nat /\ start <= clock /\ Millis(start) = start /\ start \in 0 .. MaxClock
  BY <1>1, MillisBounds
<1>4. from \in Nat /\ (row.lastExportedAt # NotSet => from = row.lastExportedAt)
  <2>1. Window \in Nat /\ (clock > Window => clock - Window \in Nat)
    BY <1>1, ExportsAssumption
  <2>2. clock > Window => Millis(clock - Window) \in Nat
    BY <2>1, MillisBounds
  <2> QED  BY <1>2, <2>2 DEF ResumesFrom
<1>5. /\ table \subseteq stream /\ \A i \in table : i > row.lastExportedAt
      /\ row.dataset # "event_stream" => table = {}
      /\ \A i \in stream, k \in table : from < i /\ i <= k => i \in table
      /\ \A i \in table : i > from
      /\ row.dataset = "event_stream" /\ table = {} => \A i \in stream : i <= from
  <2>1. /\ RowsAfter(from) \subseteq {i \in stream : i > from}
        /\ \A i \in stream, k \in RowsAfter(from) : from < i /\ i <= k => i \in RowsAfter(from)
        /\ RowsAfter(from) = {} => \A i \in stream : i <= from
    BY <1>1, <1>4, RowsAreNext
  <2>2. \A i \in stream : i \in Nat
    BY <1>1 DEF Instants
  <2> HIDE DEF row, from
  <2> QED  BY <1>2, <1>4, <2>1, <2>2 DEF NotSet
<1>6. /\ exportHand' = [exportHand EXCEPT ![h].phase = "write", ![h].running = x,
                ![h].startedAt = start, ![h].table = table]
      /\ UNCHANGED <<clock, crashes, exports, stream, sheet, spreadsheets, troubled>>
  BY DEF Build
<1>7. table \in SUBSET Instants
  BY <1>1, <1>5
<1> HIDE DEF start, table, from
<1>8. /\ exportHand'[h] = [phase |-> "write", copies |-> exportHand[h].copies, running |-> x,
                           advance |-> exportHand[h].advance, startedAt |-> start, table |-> table]
      /\ \A k \in Holders : k # h => exportHand'[k] = exportHand[k]
      /\ exportHand' = [k \in Holders |-> exportHand'[k]]
  <2>1. /\ exportHand'[h] = [phase |-> "write", copies |-> exportHand[h].copies, running |-> x,
                             advance |-> exportHand[h].advance, startedAt |-> start, table |-> table]
        /\ \A k \in Holders : k # h => exportHand'[k] = exportHand[k]
    <3>1. /\ DOMAIN exportHand = Holders
          /\ exportHand[h] =
                [phase |-> exportHand[h].phase, copies |-> exportHand[h].copies,
                 running |-> exportHand[h].running, advance |-> exportHand[h].advance,
                 startedAt |-> exportHand[h].startedAt, table |-> exportHand[h].table]
      BY <1>1
    <3> QED  BY <1>6, <3>1
  <2>2. exportHand' = [k \in Holders |-> exportHand'[k]]
    BY <1>1, <1>6
  <2> QED  BY <2>1, <2>2
<1>9. exportHand' \in [Holders -> ExportHand]
  <2>1. exportHand'[h] \in ExportHand
    BY <1>1, <1>3, <1>7, <1>8 DEF ExportHand, ExportPhases
  <2> QED  BY <1>1, <1>8, <2>1
<1>10. ExportsTypeOK'
  BY <1>1, <1>6, <1>9 DEF ExportsTypeOK, ExportHand
<1>11. RunsAreSound'
  BY <1>1, <1>2, <1>6, <1>8 DEF RunsAreSound, HasExport, Holders
<1>12. ASSUME ~troubled'[x]  PROVE  UntroubledExport(x)'
  <2>1. UntroubledExport(x) /\ HasExport(h, x)
    BY <1>2, <1>6, <1>12 DEF ExportsInv, HasExport
  <2>2. \A k \in Holders : HasExport(k, x) => k = h
    BY <2>1 DEF UntroubledExport
  <2>3. \A k \in Holders : ~Finishes(k, x)
    BY <1>1, <1>2, <2>2 DEF Finishes, RunsAreSound
  <2>4. \A k \in Holders : ~Finishes(k, x)' /\ (HasExport(k, x)' => k = h)
    BY <1>8, <2>2, <2>3 DEF Finishes, HasExport
  <2>5. exportHand'[h].copies[x] = exports'[x] /\ row = exports[x] /\ exports[x] # Absent
    BY <1>2, <1>6, <1>8, <2>1, <2>3 DEF UntroubledExport
  <2>6. Sound(x, exports[x])
    BY <2>1, <2>3, <2>5 DEF UntroubledExport
  <2>7. Sound(x, exports[x])'
    BY <1>6, <2>6 DEF Sound, Whole
  <2>8. row.lastExportedAt <= start
    <3>1. row.lastExportedAt <= clock /\ Millis(row.lastExportedAt) = row.lastExportedAt
      BY <2>5, <2>6 DEF Sound
    <3> QED  BY <1>1, <1>2, <3>1, MillisBounds DEF start
  <2>9. IsNext(exportHand[h], exports[x])'
    <3>1. exportHand'[h].startedAt = start /\ exportHand'[h].table = table /\ exports'[x] = row
      BY <1>6, <1>8, <2>5
    <3>2. stream' = stream /\ clock' = clock
      BY <1>6
    <3>3. \A i \in stream, j, k \in table : j <= i /\ i <= k => from < i
      <4>1. \A i \in stream : i \in Nat
        BY <1>1 DEF Instants
      <4> QED  BY <1>4, <1>5, <4>1
    <3> HIDE DEF row
    <3> QED  BY <1>3, <1>4, <1>5, <2>8, <3>1, <3>2, <3>3 DEF IsNext, NotSet
  <2>10. \A k \in Holders : exportHand'[k].phase = "write" /\ exportHand'[k].running = x => k = h
    BY <1>1, <1>8, <2>2 DEF RunsAreSound
  <2>11. \A i \in Instants : Millis(i) = i => sheet'[x][i] <= 1
    BY <1>6, <2>1 DEF UntroubledExport
  <2> QED  BY <2>4, <2>5, <2>7, <2>9, <2>10, <2>11, <1>6 DEF UntroubledExport, Holders
<1>13. \A y \in ExportIds : y # x =>
          /\ exportHand'[h].copies[y] = exportHand[h].copies[y]
          /\ ~Finishes(h, y)' /\ ~Finishes(h, y)
          /\ ~(exportHand'[h].phase = "write" /\ exportHand'[h].running = y)
  BY <1>2, <1>8 DEF Finishes
<1> QED
  <2>1. {x} \in SUBSET ExportIds
    OBVIOUS
  <2>2. \A y \in {x} : ~troubled'[y] => UntroubledExport(y)'
    BY <1>12
  <2>3. \A y \in ExportIds \ {x} : ~troubled'[y] =>
          /\ sheet'[y] = sheet[y] /\ spreadsheets'[y] = spreadsheets[y]
          /\ exports'[y] = exports[y]
          /\ exportHand'[h].copies[y] \in {Absent, exportHand[h].copies[y]}
          /\ Finishes(h, y)' <=> Finishes(h, y)
          /\ ~(exportHand'[h].phase = "write" /\ exportHand'[h].running = y)
    BY <1>6, <1>13
  <2>4. /\ UNCHANGED <<clock, stream>> /\ \A y \in ExportIds : troubled[y] => troubled'[y]
        /\ \A k \in Holders : k # h => exportHand'[k] = exportHand[k]
    BY <1>6, <1>8
  <2> HIDE DEF row
  <2> QED  BY <1>10, <1>11, <2>1, <2>2, <2>3, <2>4, HolderGoesOn

(* The watermark a run comes to: the newest row it has written. *)
LEMMA WatermarkMoves ==
    ASSUME ExportsInv, NEW h \in Holders, NEW row \in ExportRow, NEW mark, mark = WatermarkAfter(h),
           IsNext(exportHand[h], row), Millis(row.lastExportedAt) = row.lastExportedAt
    PROVE  /\ mark \in 0 .. MaxClock /\ mark <= clock /\ Millis(mark) = mark
           /\ row.lastExportedAt <= mark
           /\ exportHand[h].table = {} => mark = exportHand[h].startedAt
           /\ exportHand[h].table # {} => /\ mark # NotSet
                                          /\ \E k \in exportHand[h].table : mark <= k
           /\ \A i \in exportHand[h].table : Millis(i) = i => i <= mark
<1> DEFINE table == exportHand[h].table
<1>1. /\ table \in SUBSET Instants /\ exportHand[h].startedAt \in Nat /\ clock \in 1 .. MaxClock
      /\ row.lastExportedAt \in Nat /\ MaxClock \in Nat /\ clock \in Nat
  BY ExportFields DEF ExportsInv, ExportsTypeOK, ExportRow
<1>2. /\ exportHand[h].startedAt <= clock /\ row.lastExportedAt <= exportHand[h].startedAt
      /\ Millis(exportHand[h].startedAt) = exportHand[h].startedAt
      /\ table \subseteq stream /\ \A i \in table : i > row.lastExportedAt
  BY DEF IsNext
<1>3. CASE table = {}
  <2>1. mark = exportHand[h].startedAt
    BY <1>3 DEF WatermarkAfter
  <2> QED  BY <1>1, <1>2, <1>3, <2>1
<1>4. CASE table # {}
  <2> DEFINE newest == CHOOSE i \in table : \A j \in table : j <= i
  <2>1. newest \in table /\ \A j \in table : j <= newest
    BY <1>1, <1>4, NewestExists
  <2>2. mark = Millis(newest)
    BY <1>4 DEF WatermarkAfter
  <2> HIDE DEF newest
  <2>3. newest \in Nat /\ newest <= clock /\ Resolution <= newest /\ Resolution \in Nat \ {0}
    BY <1>1, <1>2, <2>1, ExportsAssumption DEF ExportsInv, RunsAreSound, Instants
  <2>4. /\ mark \in Nat /\ mark <= newest /\ Millis(mark) = mark /\ Resolution <= mark
        /\ \A j \in Nat : j <= newest => Millis(j) <= mark
    BY <2>2, <2>3, MillisBounds
  <2>5. row.lastExportedAt < newest
    BY <1>1, <1>2, <2>1
  <2>6. row.lastExportedAt <= mark
    BY <1>1, <2>3, <2>4, <2>5
  <2>7. \A i \in table : Millis(i) = i => i <= mark
    BY <1>1, <2>1, <2>4 DEF Instants
  <2> QED  BY <1>1, <1>4, <2>1, <2>3, <2>4, <2>6, <2>7 DEF NotSet
<1> QED  BY <1>3, <1>4

(* The sheet then has every row up to the new watermark. *)
LEMMA WrittenIsSound ==
    ASSUME ExportsInv, NEW h \in Holders, NEW x \in ExportIds, NEW row \in ExportRow,
           exportHand[h].phase = "write", exportHand[h].running = x,
           IsNext(exportHand[h], row), Sound(x, row), NEW copy \in ExportRow,
           copy.dataset = row.dataset, copy.spreadsheet, copy.lastExportedAt = WatermarkAfter(h),
           sheet' = Appended(x, exportHand[h].table), spreadsheets' = Created(x, row.spreadsheet),
           UNCHANGED <<clock, stream>>, \A i \in Instants : Millis(i) = i => sheet[x][i] <= 1
    PROVE  /\ Sound(x, copy)' /\ row.lastExportedAt <= copy.lastExportedAt
           /\ \A i \in Instants : Millis(i) = i => sheet'[x][i] <= 1
<1> DEFINE table == exportHand[h].table
           mark == row.lastExportedAt
           new == copy.lastExportedAt
<1>1. /\ new \in 0 .. MaxClock /\ new <= clock /\ Millis(new) = new /\ mark <= new
      /\ table = {} => new = exportHand[h].startedAt
      /\ table # {} => new # NotSet /\ \E k \in table : new <= k
      /\ \A i \in table : Millis(i) = i => i <= new
  BY WatermarkMoves DEF Sound
<1>2. /\ table \in SUBSET Instants /\ mark \in Nat /\ MaxClock \in Nat /\ new \in Nat
      /\ stream \subseteq Instants /\ sheet \in [ExportIds -> [Instants -> Nat]]
      /\ spreadsheets \in [ExportIds -> Nat] /\ \A i \in Instants : i \in Nat
  BY <1>1, ExportFields DEF ExportsInv, ExportsTypeOK, ExportRow, Instants
<1>3. \A i \in Instants : sheet'[x][i] = sheet[x][i] + (IF i \in table THEN 1 ELSE 0)
  BY <1>2 DEF Appended
<1>4. \A i \in Instants : sheet[x][i] \in Nat
  BY <1>2
<1>5. \A i \in Instants : (sheet'[x][i] > 0 <=> sheet[x][i] > 0 \/ i \in table)
  BY <1>3, <1>4
<1>6. /\ mark = NotSet => \A i \in Instants : sheet[x][i] = 0
      /\ \A i \in Instants : sheet[x][i] > 0 /\ Millis(i) = i => i <= mark
      /\ row.dataset = "event_stream" => Whole(x, mark)
      /\ spreadsheets[x] = 0 \/ (spreadsheets[x] = 1 /\ row.spreadsheet)
  BY DEF Sound
<1>7. /\ mark <= exportHand[h].startedAt /\ \A i \in table : i > mark
      /\ row.dataset = "event_stream" =>
            /\ \A i \in stream, k \in table : mark # NotSet /\ mark < i /\ i <= k => i \in table
            /\ \A i \in stream, j, k \in table : j <= i /\ i <= k => i \in table
            /\ table = {} /\ mark # NotSet => \A i \in stream : i <= mark \/ i > exportHand[h].startedAt
  BY DEF IsNext
<1> HIDE DEF table, mark, new
<1>8. new = NotSet => \A i \in Instants : sheet'[x][i] = 0
  <2>1. new = NotSet => table = {} /\ mark = NotSet
    BY <1>1, <1>2 DEF NotSet
  <2> QED  BY <1>3, <1>4, <1>6, <2>1
<1>9. \A i \in Instants : sheet'[x][i] > 0 /\ Millis(i) = i => i <= new
  BY <1>1, <1>2, <1>5, <1>6
<1>10. ASSUME row.dataset = "event_stream", NEW i \in stream, NEW j \in Instants,
              i <= new, j <= i, sheet'[x][j] > 0
       PROVE  sheet'[x][i] > 0
  <2>1. i \in Instants /\ i \in Nat /\ j \in Nat
    BY <1>2
  <2>2. CASE sheet[x][j] > 0 /\ i <= mark
    <3>1. sheet[x][i] > 0
      BY <1>6, <1>10, <2>2 DEF Whole
    <3> QED  BY <1>5, <2>1, <3>1
  <2>3. CASE sheet[x][j] > 0 /\ mark < i
    <3>1. mark # NotSet
      BY <1>6, <1>10, <2>3
    <3>2. table # {}
      BY <1>1, <1>2, <1>7, <1>10, <2>1, <2>3, <3>1
    <3>3. PICK k \in table : new <= k
      BY <1>1, <3>2
    <3>4. i <= k
      BY <1>2, <1>10, <2>1, <3>3
    <3>5. i \in table
      BY <1>7, <1>10, <2>3, <3>1, <3>4
    <3> QED  BY <1>5, <2>1, <3>5
  <2>4. CASE j \in table
    <3>1. PICK k \in table : new <= k
      BY <1>1, <2>4
    <3>2. i <= k
      BY <1>2, <1>10, <2>1, <3>1
    <3>3. i \in table
      BY <1>7, <1>10, <2>4, <3>2
    <3> QED  BY <1>5, <2>1, <3>3
  <2> QED  BY <1>2, <1>5, <1>10, <2>1, <2>2, <2>3, <2>4
<1>11. spreadsheets'[x] = 0 \/ spreadsheets'[x] = 1
  BY <1>2, <1>6 DEF Created
<1>12. Sound(x, copy)'
  <2>1. row.dataset = "event_stream" => Whole(x, new)'
    BY <1>10 DEF Whole, Instants
  <2>2. new <= clock' /\ Millis(new) = new
    BY <1>1
  <2> QED  BY <1>8, <1>9, <1>11, <2>1, <2>2 DEF Sound, new, Instants
<1>13. \A i \in Instants : Millis(i) = i => sheet'[x][i] <= 1
  <2>1. ASSUME NEW i \in Instants, Millis(i) = i, i \in table  PROVE  sheet[x][i] = 0
    BY <1>2, <1>4, <1>6, <1>7, <2>1
  <2> QED  BY <1>3, <1>4, <2>1
<1> QED  BY <1>1, <1>12, <1>13 DEF mark, new

LEMMA WatermarkIsTime ==
    ASSUME ExportsTypeOK, NEW h \in Holders
    PROVE  WatermarkAfter(h) \in 0 .. MaxClock
<1> DEFINE table == exportHand[h].table
           newest == CHOOSE i \in table : \A j \in table : j <= i
<1>1. table \in SUBSET Instants /\ exportHand[h].startedAt \in 0 .. MaxClock /\ MaxClock \in Nat
  BY ExportFields DEF ExportHand
<1>2. CASE table = {}
  BY <1>1, <1>2 DEF WatermarkAfter
<1>3. CASE table # {}
  <2>1. newest \in table
    BY <1>1, <1>3, NewestExists
  <2>2. WatermarkAfter(h) = Millis(newest)
    BY <1>3 DEF WatermarkAfter
  <2> HIDE DEF newest
  <2>3. newest \in Nat /\ newest <= MaxClock
    BY <1>1, <2>1 DEF Instants
  <2> QED  BY <1>1, <2>2, <2>3, MillisBounds
<1> QED  BY <1>2, <1>3

LEMMA SheetTypes ==
    ASSUME ExportsTypeOK, NEW x \in ExportIds, NEW T, NEW has \in BOOLEAN
    PROVE  /\ Appended(x, T) \in [ExportIds -> [Instants -> Nat]]
           /\ Created(x, has) \in [ExportIds -> Nat]
           /\ \A y \in ExportIds : y # x => /\ Appended(x, T)[y] = sheet[y]
                                            /\ Created(x, has)[y] = spreadsheets[y]
<1>1. sheet \in [ExportIds -> [Instants -> Nat]] /\ spreadsheets \in [ExportIds -> Nat]
  BY DEF ExportsTypeOK
<1> DEFINE new == [i \in Instants |-> sheet[x][i] + (IF i \in T THEN 1 ELSE 0)]
<1>2. new \in [Instants -> Nat]
  BY <1>1
<1>3. Appended(x, T) = [sheet EXCEPT ![x] = new]
  BY <1>1 DEF Appended
<1> HIDE DEF new
<1> QED  BY <1>1, <1>2, <1>3 DEF Created

(* The table is written and the copy says so. *)
LEMMA WriteInv ==
    ASSUME ExportsInv, NEW h \in Holders, Write(h),
           NEW x, x = exportHand[h].running, NEW row, row = exportHand[h].copies[x]
    PROVE  ExportsInv'
<1> DEFINE mark == WatermarkAfter(h)
           yes == TRUE
           new == [row EXCEPT !.spreadsheet = yes, !.lastExportedAt = mark]
<1>1. /\ ExportsTypeOK /\ RunsAreSound /\ exportHand \in [Holders -> ExportHand] /\ DOMAIN exportHand = Holders
      /\ exportHand[h] = [phase |-> exportHand[h].phase, copies |-> exportHand[h].copies,
                 running |-> exportHand[h].running, advance |-> exportHand[h].advance,
                 startedAt |-> exportHand[h].startedAt, table |-> exportHand[h].table]
  BY ExportFields DEF ExportsInv
<1>2. /\ exportHand[h].phase = "write" /\ x \in ExportIds /\ row \in ExportRow /\ row # Absent
      /\ row.spreadsheet \in BOOLEAN
  BY <1>1 DEF Write, RunsAreSound, HasExport, ExportHand, ExportRow
<1>3. mark \in 0 .. MaxClock /\ yes \in BOOLEAN
  BY <1>1, WatermarkIsTime
<1>4. /\ exportHand' = [exportHand EXCEPT ![h].phase = "save", ![h].copies[x] = new]
      /\ sheet' = Appended(x, exportHand[h].table) /\ spreadsheets' = Created(x, row.spreadsheet)
      /\ UNCHANGED <<clock, crashes, exports, stream, troubled>>
  BY DEF Write
<1>5. yes
  OBVIOUS
<1> HIDE DEF mark, yes
<1>6. PICK copy \in ExportRow : /\ copy.dataset = row.dataset /\ copy.spreadsheet
                               /\ copy.lastExportedAt = mark /\ copy = new
  <2>1. /\ new \in ExportRow /\ new.dataset = row.dataset /\ new.spreadsheet
        /\ new.lastExportedAt = mark
    BY <1>2, <1>3, <1>5 DEF ExportRow
  <2> HIDE DEF new
  <2> QED  BY <2>1
<1> DEFINE copies == [exportHand[h].copies EXCEPT ![x] = copy]
<1>7. /\ copies \in [ExportIds -> ExportRow \cup {Absent}] /\ copies[x] = copy
      /\ \A y \in ExportIds : y # x => copies[y] = exportHand[h].copies[y]
  BY <1>1, <1>2, <1>6 DEF ExportHand
<1> HIDE DEF new
<1>8. /\ exportHand'[h] = [phase |-> "save", copies |-> copies, running |-> x,
                 advance |-> exportHand[h].advance, startedAt |-> exportHand[h].startedAt,
                 table |-> exportHand[h].table]
      /\ \A k \in Holders : k # h => exportHand'[k] = exportHand[k]
      /\ exportHand' = [k \in Holders |-> exportHand'[k]]
  <2>1. exportHand'[h] = [phase |-> "save", copies |-> copies, running |-> x,
                   advance |-> exportHand[h].advance, startedAt |-> exportHand[h].startedAt,
                   table |-> exportHand[h].table]
    <3>1. /\ DOMAIN exportHand = Holders
          /\ exportHand[h] = [phase |-> exportHand[h].phase, copies |-> exportHand[h].copies,
                running |-> x, advance |-> exportHand[h].advance,
                startedAt |-> exportHand[h].startedAt, table |-> exportHand[h].table]
      BY <1>1
    <3>2. exportHand'[h] = [exportHand[h] EXCEPT !.phase = "save", !.copies[x] = new]
      BY <1>4, <3>1
    <3> QED  BY <1>6, <3>1, <3>2
  <2>3. \A k \in Holders : k # h => exportHand'[k] = exportHand[k]
    BY <1>1, <1>4
  <2>2. exportHand' = [k \in Holders |-> exportHand'[k]]
    BY <1>1, <1>4
  <2> QED  BY <2>1, <2>2, <2>3
<1> HIDE DEF copies
<1>9. exportHand' \in [Holders -> ExportHand]
  <2>1. exportHand'[h] \in ExportHand
    BY <1>1, <1>7, <1>8 DEF ExportHand, ExportPhases
  <2> QED  BY <1>1, <1>8, <2>1
<1>10. ExportsTypeOK'
  <2>1. /\ sheet' \in [ExportIds -> [Instants -> Nat]] /\ spreadsheets' \in [ExportIds -> Nat]
    BY <1>1, <1>2, <1>4, SheetTypes
  <2> QED  BY <1>1, <1>4, <1>9, <2>1 DEF ExportsTypeOK, ExportHand, Instants
<1>11. RunsAreSound'
  BY <1>1, <1>2, <1>4, <1>6, <1>7, <1>8, ExportRowAssumption, SMTT(40) DEF RunsAreSound, HasExport, Holders
<1>12. ASSUME ~troubled'[x]  PROVE  UntroubledExport(x)'
  <2>1. UntroubledExport(x) /\ HasExport(h, x) /\ ~Finishes(h, x)
    BY <1>2, <1>4, <1>12 DEF ExportsInv, HasExport, Finishes
  <2>2. \A k \in Holders : HasExport(k, x) => k = h
    BY <2>1 DEF UntroubledExport
  <2>3. \A k \in Holders : ~Finishes(k, x)
    BY <1>1, <2>1, <2>2 DEF Finishes, RunsAreSound
  <2>4. row = exports[x] /\ IsNext(exportHand[h], row) /\ Sound(x, row)
    BY <1>2, <2>1, <2>3 DEF UntroubledExport
  <2>5. /\ Sound(x, copy)' /\ row.lastExportedAt <= mark
        /\ \A i \in Instants : Millis(i) = i => sheet'[x][i] <= 1
    <3>1. \A i \in Instants : Millis(i) = i => sheet[x][i] <= 1
      BY <2>1 DEF UntroubledExport
    <3> QED  BY <1>2, <1>4, <1>6, <2>4, <3>1, WrittenIsSound DEF mark
  <2>6. \A k \in Holders : /\ HasExport(k, x)' => k = h
                           /\ ~(exportHand'[k].phase = "write" /\ exportHand'[k].running = x)
    <3>1. \A k \in Holders : k # h => ~HasExport(k, x)
      BY <2>2
    <3>2. \A k \in Holders : k # h => ~(exportHand[k].phase = "write" /\ exportHand[k].running = x)
      BY <1>1, <3>1 DEF RunsAreSound
    <3> QED  BY <1>8, <3>1, <3>2 DEF HasExport
  <2>7. Finishes(h, x)' /\ exportHand'[h].copies[x] = copy
    BY <1>7, <1>8 DEF Finishes
  <2>8. Sound(x, exportHand[h].copies[x])'
    BY <2>5, <2>7 DEF Sound, Whole
  <2>9. exports'[x] = row /\ row # Absent
    BY <1>2, <1>4, <2>4
  <2> QED  BY <1>4, <1>6, <2>5, <2>6, <2>7, <2>8, <2>9, ZenonT(60) DEF UntroubledExport, Holders
<1> QED
  <2>1. \A y \in ExportIds \ {x} :
          /\ sheet'[y] = sheet[y] /\ spreadsheets'[y] = spreadsheets[y]
          /\ exports'[y] = exports[y]
          /\ exportHand'[h].copies[y] \in {Absent, exportHand[h].copies[y]}
          /\ Finishes(h, y)' <=> Finishes(h, y)
          /\ ~(exportHand'[h].phase = "write" /\ exportHand'[h].running = y)
    BY <1>1, <1>2, <1>4, <1>7, <1>8, SheetTypes DEF Finishes
  <2>2. \A y \in {x} : ~troubled'[y] => UntroubledExport(y)'
    BY <1>12
  <2>3. /\ UNCHANGED <<clock, stream>> /\ \A y \in ExportIds : troubled[y] => troubled'[y]
        /\ {x} \in SUBSET ExportIds
    BY <1>2, <1>4
  <2> QED  BY <1>8, <1>10, <1>11, <2>1, <2>2, <2>3, HolderGoesOn

(* A failed run leaves its copy as it was; one that wrote something is troubled. *)
LEMMA RunFailsInv ==
    ASSUME ExportsInv, NEW h \in Holders, NEW made \in BOOLEAN, NEW landed \in BOOLEAN,
           RunFails(h, made, landed), NEW x, x = exportHand[h].running
    PROVE  ExportsInv'
<1> DEFINE T == IF landed THEN exportHand[h].table ELSE {}
           has == exportHand[h].copies[x].spreadsheet \/ ~made
<1>1. /\ ExportsTypeOK /\ RunsAreSound /\ exportHand \in [Holders -> ExportHand] /\ DOMAIN exportHand = Holders
      /\ exportHand[h] = [phase |-> exportHand[h].phase, copies |-> exportHand[h].copies,
                 running |-> exportHand[h].running, advance |-> exportHand[h].advance,
                 startedAt |-> exportHand[h].startedAt, table |-> exportHand[h].table]
  BY ExportFields DEF ExportsInv
<1>2. exportHand[h].phase = "write" /\ x \in ExportIds /\ exportHand[h].copies[x] # Absent
  BY <1>1 DEF RunFails, RunsAreSound, HasExport
<1>3. /\ exportHand' = [exportHand EXCEPT ![h].phase = "save"] /\ (landed => made)
      /\ sheet' = Appended(x, T) /\ spreadsheets' = Created(x, has)
      /\ troubled' = [troubled EXCEPT ![x] = @ \/ made]
      /\ UNCHANGED <<clock, exports, stream>> /\ crashes' = crashes + 1 /\ crashes < MaxCrashes
  BY DEF RunFails, OneMoreCrash
<1>4. has \in BOOLEAN /\ (~made => has)
  OBVIOUS
<1>5. ~landed => T = {}
  OBVIOUS
<1> HIDE DEF T, has
<1>6. /\ exportHand'[h] = [phase |-> "save", copies |-> exportHand[h].copies, running |-> x,
                 advance |-> exportHand[h].advance, startedAt |-> exportHand[h].startedAt,
                 table |-> exportHand[h].table]
      /\ \A k \in Holders : k # h => exportHand'[k] = exportHand[k]
      /\ exportHand' = [k \in Holders |-> exportHand'[k]]
  <2>1. exportHand' = [k \in Holders |-> exportHand'[k]]
    BY <1>1, <1>3
  <2>2. /\ exportHand'[h] = [phase |-> "save", copies |-> exportHand[h].copies, running |-> x,
                 advance |-> exportHand[h].advance, startedAt |-> exportHand[h].startedAt,
                 table |-> exportHand[h].table]
        /\ \A k \in Holders : k # h => exportHand'[k] = exportHand[k]
    BY <1>1, <1>3
  <2> QED  BY <2>1, <2>2
<1>7. exportHand' \in [Holders -> ExportHand]
  <2>1. exportHand'[h] \in ExportHand
    BY <1>1, <1>6 DEF ExportHand, ExportPhases
  <2> QED  BY <1>1, <1>6, <2>1
<1>8. /\ troubled \in [ExportIds -> BOOLEAN] /\ troubled' \in [ExportIds -> BOOLEAN]
      /\ \A y \in ExportIds : troubled[y] => troubled'[y]
      /\ ~troubled'[x] => ~made /\ ~troubled[x]
  <2>1. troubled \in [ExportIds -> BOOLEAN]
    BY <1>1 DEF ExportsTypeOK
  <2> QED  BY <1>2, <1>3, <2>1, Zenon
<1>9. ExportsTypeOK'
  <2>1. sheet' \in [ExportIds -> [Instants -> Nat]] /\ spreadsheets' \in [ExportIds -> Nat]
    BY <1>1, <1>2, <1>3, <1>4, SheetTypes
  <2>2. crashes' \in 0 .. MaxCrashes
    BY <1>1, <1>3, SchedulingAssumption DEF ExportsTypeOK
  <2> QED  BY <1>1, <1>3, <1>7, <1>8, <2>1, <2>2 DEF ExportsTypeOK, ExportHand, Instants
<1>10. RunsAreSound'
  BY <1>1, <1>2, <1>3, <1>6 DEF RunsAreSound, HasExport, Holders
<1>11. ASSUME ~troubled'[x]  PROVE  UntroubledExport(x)'
  <2>1. UntroubledExport(x) /\ HasExport(h, x) /\ ~Finishes(h, x)
    BY <1>2, <1>8, <1>11 DEF ExportsInv, HasExport, Finishes
  <2>2. \A k \in Holders : HasExport(k, x) => k = h
    BY <2>1 DEF UntroubledExport
  <2>3. \A k \in Holders : ~Finishes(k, x)
    BY <1>1, <2>1, <2>2 DEF Finishes, RunsAreSound
  <2>4. exportHand[h].copies[x] = exports[x] /\ Sound(x, exports[x])
    BY <1>2, <2>1, <2>3 DEF UntroubledExport
  <2>5. spreadsheets' = spreadsheets /\ \A i \in Instants : sheet'[x][i] = sheet[x][i]
    <3>1. has /\ T = {}
      BY <1>3, <1>4, <1>5, <1>8, <1>11
    <3>2. sheet \in [ExportIds -> [Instants -> Nat]]
      BY <1>1 DEF ExportsTypeOK
    <3>3. \A i \in Instants : sheet'[x][i] = sheet[x][i] + 0
      BY <1>2, <1>3, <3>1, <3>2 DEF Appended
    <3> QED  BY <1>2, <1>3, <3>1, <3>2, <3>3 DEF Created
  <2>6. Sound(x, exportHand[h].copies[x])'
    <3>1. exportHand'[h].copies[x] = exports[x]
      BY <1>6, <2>4
    <3>2. stream \subseteq Instants
      BY <1>1 DEF ExportsTypeOK
    <3> QED  BY <1>3, <2>4, <2>5, <3>1, <3>2 DEF Sound, Whole, Instants
  <2>7. \A k \in Holders : /\ HasExport(k, x)' => k = h
                           /\ ~(exportHand'[k].phase = "write" /\ exportHand'[k].running = x)
    <3>1. \A k \in Holders : k # h => ~HasExport(k, x)
      BY <2>2
    <3>2. \A k \in Holders : k # h => ~(exportHand[k].phase = "write" /\ exportHand[k].running = x)
      BY <1>1, <3>1 DEF RunsAreSound
    <3> QED  BY <1>6, <3>1, <3>2 DEF HasExport
  <2>8. /\ Finishes(h, x)' /\ exportHand'[h].copies[x] = exports'[x]
        /\ exports'[x] # Absent /\ exports[x] \in ExportRow
    BY <1>1, <1>2, <1>3, <1>6, <2>4 DEF Finishes, ExportsTypeOK
  <2>9. exports'[x].lastExportedAt <= exports'[x].lastExportedAt
    BY <1>3, <2>8, ExportFields DEF ExportRow
  <2>10. \A i \in Instants : Millis(i) = i => sheet'[x][i] <= 1
    BY <2>1, <2>5 DEF UntroubledExport
  <2> QED  BY <1>3, <2>6, <2>7, <2>8, <2>9, <2>10 DEF UntroubledExport, Holders
<1> QED
  <2>1. \A y \in ExportIds \ {x} :
          /\ sheet'[y] = sheet[y] /\ spreadsheets'[y] = spreadsheets[y]
          /\ exports'[y] = exports[y]
          /\ exportHand'[h].copies[y] \in {Absent, exportHand[h].copies[y]}
          /\ Finishes(h, y)' <=> Finishes(h, y)
          /\ ~(exportHand'[h].phase = "write" /\ exportHand'[h].running = y)
    BY <1>1, <1>2, <1>3, <1>4, <1>6, SheetTypes DEF Finishes
  <2>2. \A y \in {x} : ~troubled'[y] => UntroubledExport(y)'
    BY <1>11
  <2>3. UNCHANGED <<clock, stream>> /\ {x} \in SUBSET ExportIds
    BY <1>2, <1>3
  <2> QED  BY <1>6, <1>8, <1>9, <1>10, <2>1, <2>2, <2>3, HolderGoesOn

(* The copy is saved, and the holder is done with it. *)
LEMMA SaveExportInv ==
    ASSUME ExportsInv, NEW h \in Holders, SaveExport(h),
           NEW x, x = exportHand[h].running, NEW row, row = exportHand[h].copies[x]
    PROVE  ExportsInv'
<1> DEFINE left == [exportHand[h].copies EXCEPT ![x] = Absent]
           reading == [AtRest EXCEPT !.phase = "next", !.advance = exportHand[h].advance, !.copies = left]
           hand == IF left = NoExports THEN AtRest ELSE reading
           next == [row EXCEPT !.nextRun = NextRunFrom(row.period)]
           saved == IF exportHand[h].advance THEN next ELSE row
<1>1. /\ ExportsTypeOK /\ RunsAreSound /\ exportHand \in [Holders -> ExportHand]
      /\ AtRest \in ExportHand /\ AtRest.phase = "idle" /\ AtRest.copies = NoExports
  BY ExportFields DEF ExportsInv
<1>2. /\ exportHand[h].phase = "save" /\ x \in ExportIds /\ row \in ExportRow /\ row # Absent
      /\ exportHand[h].advance \in BOOLEAN
  BY <1>1 DEF SaveExport, RunsAreSound, HasExport, ExportHand
<1>3. /\ exports' = [exports EXCEPT ![x] = saved] /\ exportHand' = [exportHand EXCEPT ![h] = hand]
      /\ UNCHANGED <<clock, crashes, stream, sheet, spreadsheets, troubled>>
  BY DEF SaveExport
<1>4. /\ left \in [ExportIds -> ExportRow \cup {Absent}] /\ left[x] = Absent
      /\ \A y \in ExportIds : y # x => left[y] = exportHand[h].copies[y]
  BY <1>1, <1>2 DEF ExportHand
<1>5. /\ saved \in ExportRow /\ saved.lastExportedAt = row.lastExportedAt
      /\ saved.dataset = row.dataset /\ saved.spreadsheet = row.spreadsheet
  <2>1. NextRunFrom(row.period) \in Times
    BY <1>1, <1>2, NextRunIsLater DEF ExportRow, ExportsTypeOK
  <2>2. /\ next \in ExportRow /\ next.lastExportedAt = row.lastExportedAt
        /\ next.dataset = row.dataset /\ next.spreadsheet = row.spreadsheet
    BY <1>2, <2>1 DEF ExportRow
  <2> HIDE DEF next
  <2> QED  BY <1>2, <2>2
<1> HIDE DEF left, saved
<1>6. hand \in ExportHand /\ hand.phase \in {"idle", "next"} /\ hand.copies = left
  <2>1. reading \in ExportHand /\ reading.phase = "next" /\ reading.copies = left
    <3>1. PICK a \in BOOLEAN : a = exportHand[h].advance
      BY <1>2
    <3>2. reading = [AtRest EXCEPT !.phase = "next", !.advance = a, !.copies = left]
      BY <3>1
    <3> HIDE DEF reading
    <3> QED  BY <1>1, <1>4, <3>2, ReadingHand
  <2> HIDE DEF reading
  <2> QED  BY <1>1, <2>1
<1> HIDE DEF hand
<1>7. /\ exportHand' \in [Holders -> ExportHand] /\ exportHand'[h] = hand
      /\ \A k \in Holders : k # h => exportHand'[k] = exportHand[k]
      /\ exports' \in [ExportIds -> ExportRow \cup {Absent}] /\ exports'[x] = saved
      /\ \A y \in ExportIds : y # x => exports'[y] = exports[y]
  BY <1>1, <1>2, <1>3, <1>5, <1>6 DEF ExportsTypeOK
<1>8. ExportsTypeOK'
  BY <1>1, <1>3, <1>7 DEF ExportsTypeOK, ExportHand
<1>9. RunsAreSound'
  BY <1>1, <1>3, <1>6, <1>7 DEF RunsAreSound, HasExport, Holders
<1>10. ASSUME ~troubled'[x]  PROVE  UntroubledExport(x)'
  <2>1. UntroubledExport(x) /\ HasExport(h, x) /\ Finishes(h, x)
    BY <1>2, <1>3, <1>10 DEF ExportsInv, HasExport, Finishes
  <2>2. \A k \in Holders : k # h => ~HasExport(k, x) /\ ~Finishes(k, x)
    BY <1>1, <2>1 DEF UntroubledExport, Finishes, RunsAreSound
  <2>3. Sound(x, row)
    BY <2>1 DEF UntroubledExport
  <2>4. \A k \in Holders : /\ ~HasExport(k, x)' /\ ~Finishes(k, x)'
                           /\ ~(exportHand'[k].phase = "write" /\ exportHand'[k].running = x)
    <3>1. \A k \in Holders : k # h => ~(exportHand[k].phase = "write" /\ exportHand[k].running = x)
      BY <1>1, <2>2 DEF RunsAreSound
    <3> QED  BY <1>4, <1>6, <1>7, <2>2, <3>1 DEF HasExport, Finishes
  <2>5. Sound(x, exports[x])'
    BY <1>3, <1>5, <1>7, <2>3 DEF Sound, Whole
  <2>6. \A i \in Instants : Millis(i) = i => sheet'[x][i] <= 1
    BY <1>3, <2>1 DEF UntroubledExport
  <2>7. exports'[x] # Absent
    BY <1>5, <1>7, ExportRowAssumption
  <2> QED  BY <2>4, <2>5, <2>6, <2>7 DEF UntroubledExport, Holders
<1> QED
  <2>1. \A y \in ExportIds \ {x} :
          /\ sheet'[y] = sheet[y] /\ spreadsheets'[y] = spreadsheets[y]
          /\ exports'[y] = exports[y]
          /\ exportHand'[h].copies[y] \in {Absent, exportHand[h].copies[y]}
          /\ Finishes(h, y)' <=> Finishes(h, y)
          /\ ~(exportHand'[h].phase = "write" /\ exportHand'[h].running = y)
    BY <1>2, <1>3, <1>4, <1>6, <1>7 DEF Finishes
  <2>2. \A y \in {x} : ~troubled'[y] => UntroubledExport(y)'
    BY <1>10
  <2>3. /\ UNCHANGED <<clock, stream>> /\ \A y \in ExportIds : troubled[y] => troubled'[y]
        /\ {x} \in SUBSET ExportIds
    BY <1>2, <1>3
  <2> QED  BY <1>7, <1>8, <1>9, <2>1, <2>2, <2>3, HolderGoesOn

LEMMA ExportCrashInv ==
    ASSUME ExportsInv, NEW h \in Holders, ExportCrash(h)
    PROVE  ExportsInv'
<1>1. /\ ExportsTypeOK /\ RunsAreSound /\ exportHand \in [Holders -> ExportHand]
      /\ AtRest \in ExportHand /\ AtRest.phase = "idle" /\ AtRest.copies = NoExports
      /\ \A x \in ExportIds : NoExports[x] = Absent
  BY ExportFields DEF ExportsInv
<1>2. /\ exportHand' = [exportHand EXCEPT ![h] = AtRest] /\ crashes < MaxCrashes /\ crashes' = crashes + 1
      /\ troubled' = [x \in ExportIds |-> troubled[x] \/ exportHand[h].running = x]
      /\ UNCHANGED <<clock, exports, stream, sheet, spreadsheets>>
  BY DEF ExportCrash, OneMoreCrash
<1>3. /\ exportHand' \in [Holders -> ExportHand] /\ exportHand'[h] = AtRest
      /\ \A k \in Holders : k # h => exportHand'[k] = exportHand[k]
  BY <1>1, <1>2
<1>4. ExportsTypeOK'
  <2>1. crashes' \in 0 .. MaxCrashes
    BY <1>1, <1>2, SchedulingAssumption DEF ExportsTypeOK
  <2>2. troubled' \in [ExportIds -> BOOLEAN]
    BY <1>2
  <2> QED  BY <1>1, <1>2, <1>3, <2>1, <2>2 DEF ExportsTypeOK, ExportHand
<1>5. RunsAreSound'
  BY <1>1, <1>2, <1>3 DEF RunsAreSound, HasExport, Holders
<1>6. \A y \in ExportIds \ {} :
          /\ troubled[y] => troubled'[y]
          /\ ~troubled'[y] => /\ exportHand'[h].copies[y] = Absent
                              /\ ~Finishes(h, y)' /\ ~Finishes(h, y)
                              /\ ~(exportHand'[h].phase = "write" /\ exportHand'[h].running = y)
  BY <1>1, <1>2, <1>3 DEF Finishes
<1>7. /\ UNCHANGED <<clock, stream>> /\ {} \in SUBSET ExportIds
      /\ \A y \in ExportIds : troubled[y] => troubled'[y]
      /\ \A y \in {} : ~troubled'[y] => UntroubledExport(y)'
  BY <1>2, <1>6
<1>8. \A y \in ExportIds \ {} : ~troubled'[y] =>
          /\ sheet'[y] = sheet[y] /\ spreadsheets'[y] = spreadsheets[y]
          /\ exports'[y] = exports[y]
          /\ exportHand'[h].copies[y] \in {Absent, exportHand[h].copies[y]}
          /\ Finishes(h, y)' <=> Finishes(h, y)
          /\ ~(exportHand'[h].phase = "write" /\ exportHand'[h].running = y)
  BY <1>2, <1>6
<1> QED  BY <1>3, <1>4, <1>5, <1>7, <1>8, HolderGoesOn

(* A row written now is later than every watermark and every row read. *)
LEMMA ExportTimeInv ==
    ASSUME ExportsInv, NEW written \in BOOLEAN, ExportTime(written)
    PROVE  ExportsInv'
<1>1. /\ ExportsTypeOK /\ RunsAreSound /\ clock \in Nat /\ MaxClock \in Nat
      /\ stream \subseteq Instants /\ exportHand \in [Holders -> ExportHand]
      /\ \A i \in stream : i \in Nat /\ i <= clock
  BY ExportFields DEF ExportsInv, ExportsTypeOK, RunsAreSound, Instants
<1>2. /\ clock' = clock + 1 /\ clock < MaxClock /\ (written => clock' >= Resolution)
      /\ stream' = IF written THEN stream \cup {clock'} ELSE stream
      /\ UNCHANGED <<crashes, exports, sheet, spreadsheets, exportHand, troubled>>
  BY DEF ExportTime, TimePasses
<1>3. clock' \in Instants /\ clock' > clock
  BY <1>1, <1>2 DEF Instants
<1>4. \A i \in stream' : i \in stream \/ i = clock'
  BY <1>2
<1>5. ExportsTypeOK'
  <2>1. stream' \subseteq Instants
    BY <1>1, <1>3, <1>4
  <2> QED  BY <1>1, <1>2, <1>3, <2>1 DEF ExportsTypeOK, Instants
<1>6. RunsAreSound'
  <2>1. stream' \subseteq {i \in Instants : Resolution <= i /\ i <= clock'}
    <3>1. Resolution \in Nat
      BY ExportsAssumption
    <3>2. ASSUME NEW i \in stream'  PROVE  i \in Instants /\ Resolution <= i /\ i <= clock'
      <4>1. CASE i \in stream
        BY <1>1, <1>2, <4>1 DEF RunsAreSound
      <4>2. CASE i = clock' /\ written
        BY <1>2, <1>3, <3>1, <4>2
      <4> QED  BY <1>2, <3>2, <4>1, <4>2
    <3> QED  BY <3>2
  <2> QED  BY <1>1, <1>2, <2>1 DEF RunsAreSound, HasExport, Instants, Holders
<1>7. ASSUME NEW x \in ExportIds, NEW row \in ExportRow, Sound(x, row)
      PROVE  Sound(x, row)'
  <2>1. row.lastExportedAt <= clock /\ row.lastExportedAt \in Nat
    BY <1>1, <1>7 DEF Sound, ExportRow
  <2>2. row.dataset = "event_stream" => Whole(x, row.lastExportedAt)'
    <3>1. ASSUME NEW i \in stream', i <= row.lastExportedAt  PROVE  i \in stream
      BY <1>1, <1>2, <1>4, <2>1, <3>1
    <3> QED  BY <1>2, <1>7, <3>1 DEF Sound, Whole, Instants
  <2> QED  BY <1>1, <1>2, <1>7, <2>1, <2>2 DEF Sound, Instants
<1>8. ASSUME NEW x \in ExportIds, ~troubled'[x]  PROVE  UntroubledExport(x)'
  <2>1. UntroubledExport(x)
    BY <1>2, <1>8 DEF ExportsInv
  <2>2. \A h \in Holders : (HasExport(h, x)' <=> HasExport(h, x)) /\ (Finishes(h, x)' <=> Finishes(h, x))
    BY <1>2 DEF HasExport, Finishes
  <2>3. ASSUME NEW h \in Holders, HasExport(h, x)
        PROVE  LET copy == exportHand'[h].copies[x]
               IN  IF Finishes(h, x)
                   THEN /\ Sound(x, exportHand[h].copies[x])' /\ copy.dataset = exports'[x].dataset
                        /\ exports'[x].lastExportedAt <= copy.lastExportedAt
                   ELSE copy = exports'[x]
    <3>1. PICK copy : copy = exportHand[h].copies[x]
      OBVIOUS
    <3>2. copy \in ExportRow
      BY <1>1, <2>3, <3>1 DEF HasExport, ExportHand
    <3>3. CASE Finishes(h, x)
      <4>1. Sound(x, copy)' /\ copy.dataset = exports[x].dataset
            /\ exports[x].lastExportedAt <= copy.lastExportedAt
        BY <1>7, <2>1, <2>3, <3>1, <3>2, <3>3 DEF UntroubledExport
      <4>2. exportHand'[h].copies[x] = copy
        BY <1>2, <3>1
      <4>3. Sound(x, exportHand[h].copies[x])'
        BY <4>1, <4>2 DEF Sound, Whole
      <4> QED  BY <1>2, <3>3, <4>1, <4>2, <4>3
    <3>4. CASE ~Finishes(h, x)
      BY <1>2, <2>1, <2>3, <3>4 DEF UntroubledExport
    <3> QED  BY <3>3, <3>4
  <2>4. ASSUME exports[x] # Absent, ~(\E h \in Holders : Finishes(h, x))
        PROVE  Sound(x, exports[x])'
    <3>1. PICK row : row = exports[x]
      OBVIOUS
    <3>2. row \in ExportRow /\ Sound(x, row)
      BY <1>1, <2>1, <2>4, <3>1 DEF ExportsTypeOK, UntroubledExport
    <3>3. Sound(x, row)'
      BY <1>7, <3>2
    <3> QED  BY <1>2, <3>1, <3>3 DEF Sound, Whole
  <2>5. ASSUME NEW h \in Holders, exportHand[h].phase = "write", exportHand[h].running = x
        PROVE  IsNext(exportHand[h], exports[x])'
    <3>1. IsNext(exportHand[h], exports[x])
      BY <2>1, <2>5 DEF UntroubledExport
    <3>2. exportHand[h].startedAt \in Nat /\ exportHand[h].table \subseteq stream
          /\ exportHand[h].startedAt <= clock
      BY <1>1, <3>1 DEF ExportHand, IsNext
    <3>3. /\ exportHand[h].startedAt < clock'
          /\ \A k \in exportHand[h].table : k < clock'
      BY <1>1, <1>2, <3>2
    <3>4. \A k \in exportHand[h].table : k \in Nat
      BY <1>1, <3>2
    <3>5. ASSUME NEW i \in stream', NEW k \in exportHand[h].table, i <= k  PROVE  i \in stream
      BY <1>1, <1>2, <1>4, <3>3, <3>4, <3>5
    <3>6. \A i \in stream' : i \in stream \/ i > exportHand[h].startedAt
      BY <1>4, <3>3
    <3>7. exportHand[h].startedAt <= clock' /\ exportHand[h].table \subseteq stream'
      BY <1>1, <1>2, <3>2
    <3> QED  BY <1>2, <3>1, <3>5, <3>6, <3>7 DEF IsNext
  <2>6. /\ exports[x] = Absent => (\A h \in Holders : ~HasExport(h, x)) /\ spreadsheets[x] = 0
        /\ \A h, k \in Holders : HasExport(h, x) /\ HasExport(k, x) => h = k
        /\ \A i \in Instants : Millis(i) = i => sheet[x][i] <= 1
    BY <2>1 DEF UntroubledExport
  <2> QED  BY <1>2, <2>2, <2>3, <2>4, <2>5, <2>6 DEF UntroubledExport, Holders, Instants
<1> QED  BY <1>5, <1>6, <1>8 DEF ExportsInv

LEMMA NextExportsInv == ExportsInv /\ [ExportsNext]_exportVars => ExportsInv'
<1> SUFFICES ASSUME ExportsInv, [ExportsNext]_exportVars PROVE ExportsInv'
    OBVIOUS
<1>1. ASSUME UNCHANGED exportVars  PROVE ExportsInv'
  <2>1. ExportsTypeOK' /\ RunsAreSound'
    BY <1>1 DEF exportVars, ExportsInv, ExportsTypeOK, RunsAreSound, HasExport
  <2>2. ASSUME NEW x \in ExportIds, ~troubled'[x]  PROVE  UntroubledExport(x)'
    <3>1. UntroubledExport(x)
      BY <1>1, <2>2 DEF exportVars, ExportsInv
    <3> QED  BY <1>1, <2>1, <3>1, ExportUntouched DEF exportVars, Finishes
  <2> QED  BY <2>1, <2>2 DEF ExportsInv
<1>2. ASSUME NEW s \in Servers, ExportTickStart(s)  PROVE ExportsInv'
  <2>1. s \in Holders /\ DueExports \in SUBSET ExportIds /\ \A x \in DueExports : exports[x] # Absent
    BY DEF Holders, DueExports, IsDue
  <2>2. PICK yes \in BOOLEAN : yes = TRUE
    OBVIOUS
  <2>3. StartRun(s, DueExports, yes)
    BY <1>2, <2>2 DEF ExportTickStart
  <2> QED  BY <2>1, <2>3, StartRunInv
<1>3. ASSUME NEW r \in Requests, NEW x \in ExportIds, RunExportNow(r, x)  PROVE ExportsInv'
  <2>1. r \in Holders /\ {x} \in SUBSET ExportIds /\ \A y \in {x} : exports[y] # Absent
    BY <1>3 DEF Holders, RunExportNow
  <2>2. PICK no \in BOOLEAN : no = FALSE
    OBVIOUS
  <2>3. StartRun(r, {x}, no)
    BY <1>3, <2>2 DEF RunExportNow
  <2> QED  BY <2>1, <2>3, StartRunInv
<1>4. ASSUME NEW h \in Holders,
             \/ \E x \in ExportIds : Build(h, x)
             \/ Write(h)
             \/ \E made, landed \in BOOLEAN : RunFails(h, made, landed)
             \/ SaveExport(h) \/ ExportCrash(h)
      PROVE  ExportsInv'
  BY <1>4, BuildInv, WriteInv, RunFailsInv, SaveExportInv, ExportCrashInv
<1>5. ASSUME NEW r \in Requests, NEW x \in ExportIds, NEW active \in BOOLEAN, SetExportActive(r, x, active)
      PROVE  ExportsInv'
  BY <1>5, SetExportActiveInv
<1> QED  BY <1>1, <1>2, <1>3, <1>4, <1>5, MemberExportsInv, ExportTimeInv DEF ExportsNext

(* What the watermark of an export means, and what a run has in memory, holds in
   every reachable state. *)
THEOREM ExportsInvariant == ExportsSpec => []ExportsInv
<1>1. ExportsInit => ExportsInv
  BY InitExportsInv
<1>2. ExportsInv /\ [ExportsNext]_exportVars => ExportsInv'
  BY NextExportsInv
<1> QED  BY <1>1, <1>2, PTL DEF ExportsSpec

(* For every stream, limit and interleaving of runs with new rows: nothing up to
   the watermark is missing from the sheet, and what a date can hold is there
   once (exports.service.ts: runExport, buildTable). *)
THEOREM NothingIsSkipped == ExportsSpec => []ExportedExactlyOnce
<1>1. ExportsInv => ExportedExactlyOnce
  <2> SUFFICES ASSUME ExportsInv PROVE ExportedExactlyOnce
      OBVIOUS
  <2>1. ASSUME NEW x \in ExportIds, ~troubled[x]
        PROVE  /\ spreadsheets[x] <= 1
               /\ exports[x] # Absent /\ exports[x].dataset = "event_stream" =>
                    \A i \in stream, j \in Instants :
                        i <= exports[x].lastExportedAt /\ j <= i /\ sheet[x][j] > 0 => sheet[x][i] > 0
    <3>1. UntroubledExport(x) /\ ExportsTypeOK /\ RunsAreSound
      BY <2>1 DEF ExportsInv
    <3>2. CASE exports[x] = Absent
      BY <3>1, <3>2 DEF UntroubledExport
    <3>3. CASE exports[x] # Absent /\ \E h \in Holders : Finishes(h, x)
      <4>1. PICK h \in Holders : Finishes(h, x)
        BY <3>3
      <4>2. HasExport(h, x)
        BY <3>1, <4>1 DEF Finishes, RunsAreSound
      <4> DEFINE copy == exportHand[h].copies[x]
      <4>3. /\ Sound(x, copy) /\ copy.dataset = exports[x].dataset
            /\ exports[x].lastExportedAt <= copy.lastExportedAt
        BY <3>1, <4>1, <4>2 DEF UntroubledExport
      <4>4. /\ copy.lastExportedAt \in Nat /\ exports[x].lastExportedAt \in Nat
            /\ \A i \in stream : i \in Nat
        BY <3>1, <3>3, <4>2, ExportFields
           DEF HasExport, ExportHand, ExportRow, ExportsTypeOK, Instants
      <4>5. spreadsheets[x] <= 1
        BY <4>3 DEF Sound
      <4>6. exports[x].dataset = "event_stream" => Whole(x, copy.lastExportedAt)
        BY <4>3 DEF Sound
      <4> HIDE DEF copy
      <4> QED  BY <4>3, <4>4, <4>5, <4>6 DEF Whole
    <3>4. CASE exports[x] # Absent /\ ~\E h \in Holders : Finishes(h, x)
      BY <3>1, <3>4 DEF UntroubledExport, Sound, Whole
    <3> QED  BY <3>2, <3>3, <3>4
  <2>2. HistoryOncePerMilli
    BY <2>1 DEF HistoryOncePerMilli, ExportsInv, UntroubledExport
  <2>3. NothingSkipped
    BY <2>1 DEF NothingSkipped
  <2> QED  BY <2>2, <2>3 DEF ExportedExactlyOnce
<1> QED  BY <1>1, ExportsInvariant, PTL

----------------------------------------------------------------------------
(***************************************************************************)
(* The sum of exports, monitoring and the webhooks.                        *)
(***************************************************************************)
(* The invariant of what a behaviour follows; it says nothing of the rest. *)
FocusInv ==
    /\ focus \in {"exports", "monitoring", "billing"}
    /\ focus = "exports" => ExportsInv
    /\ focus = "monitoring" => MonitoringInv
    /\ focus = "billing" => BillingTyped

(* Each part starts in its own invariant. *)
LEMMA InitFocusInv == Init => FocusInv
BY InitExportsInv, InitMonitoringInv, InitBillingTyped DEF Init, FocusInv

(* A step of the sum is a step of the part that is followed. *)
LEMMA NextFocusInv ==
    FocusInv /\ [Next]_<<focus, clock, crashes, exportOwn, sweepOwn, billingVars>> => FocusInv'
<1> SUFFICES ASSUME FocusInv,
                    [Next]_<<focus, clock, crashes, exportOwn, sweepOwn, billingVars>>
             PROVE  FocusInv'
    OBVIOUS
<1>1. focus' = focus BY DEF Next
<1>2. CASE focus = "exports"
    <2>1. [ExportsNext]_exportVars BY <1>2 DEF Next, exportOwn, exportVars
    <2> QED BY <1>1, <1>2, <2>1, NextExportsInv DEF FocusInv
<1>3. CASE focus = "monitoring"
    <2>1. [MonitoringNext]_sweepVars BY <1>3 DEF Next, sweepOwn, sweepVars
    <2> QED BY <1>1, <1>3, <2>1, NextMonitoringInv DEF FocusInv
<1>4. CASE focus = "billing"
    <2>1. [BillingNext]_billingVars BY <1>4 DEF Next
    <2> QED BY <1>1, <1>4, <2>1, NextBillingTyped DEF FocusInv
<1> QED BY <1>2, <1>3, <1>4 DEF FocusInv

(* The types of what runs unasked: exports and monitoring driven by the clock
   (exports.scheduler.ts, monitoring.scheduler.ts) and the webhooks driven by
   Stripe (billing.service.ts), whichever is followed. *)
THEOREM AutomationTypes == Spec => []AutomationTypeOK
<1>1. FocusInv => AutomationTypeOK
    BY BillingTypesOK DEF FocusInv, AutomationTypeOK, ExportsInv, MonitoringInv
<1> QED BY InitFocusInv, NextFocusInv, <1>1, PTL DEF Spec

=============================================================================
