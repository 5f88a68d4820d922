------------------------------ MODULE Exports ------------------------------
(***************************************************************************)
(* Scheduled exports (exports.service.ts, exports.scheduler.ts) and the    *)
(* sheet they write to (sheets.service.ts).  An export of an event stream  *)
(* resumes from a watermark, the creation time of the newest row it has    *)
(* written, appends the rows after it and only then saves the new          *)
(* watermark.  The table keeps creation times in microseconds; the server  *)
(* reads them into dates of a millisecond.  The clock of this module       *)
(* counts the finer of the two: Resolution of its ticks are a millisecond. *)
(* A row of the stream is named by its creation time.                      *)
(***************************************************************************)
EXTENDS Scheduling

CONSTANTS
    ExportIds,
    Resolution,     \* ticks to a millisecond
    Window,         \* windowDays, in ticks: how far the first run looks back
    MaxRowsPerRun,  \* MAX_ROWS_PER_RUN
    MaxCopies       \* bound: no run starts once a row stands so often in a sheet

\* More rows fit in a run than a millisecond can hold.
ASSUME ExportsAssumption ==
    /\ {Resolution, Window, MaxRowsPerRun} \subseteq Nat \ {0}
    /\ Resolution <= MaxRowsPerRun

VARIABLES
    exports,        \* the scheduled_exports table
    stream,         \* creation times of the rows of the dataset
    sheet,          \* how often each row stands in the spreadsheets of an export
    spreadsheets,   \* spreadsheets created for an export
    exportHand,     \* what each holder has in memory
    troubled        \* ghost: overlapping runs, a crash, or a write that failed
                    \*        after some of it had landed

exportVars == <<clock, crashes, exports, stream, sheet, spreadsheets, exportHand, troubled>>

Datasets == {"event_stream", "campaign_insights"}
Instants == 1 .. MaxClock
ExportRow == [dataset : Datasets, isActive : BOOLEAN, period : Periods, nextRun : Times,
              spreadsheet : BOOLEAN, lastExportedAt : 0 .. MaxClock]
ASSUME ExportRowAssumption == Absent \notin ExportRow /\ Nobody \notin ExportIds

NoExports == [x \in ExportIds |-> Absent]
ExportPhases == {"idle", "next", "write", "save"}
AtRest == [phase |-> "idle", copies |-> NoExports, running |-> Nobody, advance |-> FALSE,
           startedAt |-> 0, table |-> {}]

ExportsTypeOK ==
    /\ clock \in 1 .. MaxClock
    /\ crashes \in 0 .. MaxCrashes
    /\ exports \in [ExportIds -> ExportRow \cup {Absent}]
    /\ stream \subseteq Instants
    /\ sheet \in [ExportIds -> [Instants -> Nat]]
    /\ spreadsheets \in [ExportIds -> Nat]
    /\ exportHand \in [Holders -> [phase : ExportPhases,
            copies : [ExportIds -> ExportRow \cup {Absent}],
            running : ExportIds \cup {Nobody}, advance : BOOLEAN,
            startedAt : 0 .. MaxClock, table : SUBSET Instants]]
    /\ troubled \in [ExportIds -> BOOLEAN]

ExportsInit ==
    /\ SchedulingInit
    /\ exports = NoExports
    /\ stream = {}
    /\ sheet = [x \in ExportIds |-> [i \in Instants |-> 0]]
    /\ spreadsheets = [x \in ExportIds |-> 0]
    /\ exportHand = [h \in Holders |-> AtRest]
    /\ troubled = [x \in ExportIds |-> FALSE]

-----------------------------------------------------------------------------
(* The chat tools.                                                         *)

InRun(x) == \E h \in Holders : exportHand[h].copies[x] # Absent

\* Once per id.  The spreadsheet may be one the member already has.
CreateExport(x, dataset, period, given) ==
    /\ exports[x] = Absent /\ ~InRun(x) /\ clock >= Resolution
    /\ sheet[x] = [i \in Instants |-> 0] /\ spreadsheets[x] = 0
    /\ exports' = [exports EXCEPT ![x] =
            [dataset |-> dataset, isActive |-> TRUE, period |-> period,
             nextRun |-> NextRunFrom(period), spreadsheet |-> given, lastExportedAt |-> NotSet]]
    /\ UNCHANGED <<clock, crashes, stream, sheet, spreadsheets, exportHand, troubled>>

\* setActive finds the row and changes the copy; SaveExport writes it.
SetExportActive(r, x, active) ==
    LET row == exports[x]
        set == [row EXCEPT !.isActive = active,
                           !.nextRun = IF active THEN NextRunFrom(row.period) ELSE row.nextRun]
    IN  /\ exportHand[r].phase = "idle"
        /\ row # Absent
        /\ exportHand' = [exportHand EXCEPT ![r] = [AtRest EXCEPT
                !.phase = "save", !.running = x, !.copies = [NoExports EXCEPT ![x] = set]]]
        /\ troubled' = [troubled EXCEPT ![x] = @ \/ InRun(x)]
        /\ UNCHANGED <<clock, crashes, exports, stream, sheet, spreadsheets>>

RemoveExport(x) ==
    /\ exports[x] # Absent
    /\ exports' = [exports EXCEPT ![x] = Absent]
    /\ troubled' = [troubled EXCEPT ![x] = TRUE]
    /\ UNCHANGED <<clock, crashes, stream, sheet, spreadsheets, exportHand>>

-----------------------------------------------------------------------------
(* Running an export: the tick, or run_export now from the chat.           *)

DueExports == {x \in ExportIds : IsDue(exports[x])}

StartRun(h, xs, advance) ==
    /\ exportHand[h].phase = "idle"
    /\ xs # {}
    /\ \A x \in xs, i \in Instants : sheet[x][i] < MaxCopies
    /\ exportHand' = [exportHand EXCEPT ![h] = [AtRest EXCEPT !.phase = "next", !.advance = advance,
            !.copies = [x \in ExportIds |-> IF x \in xs THEN exports[x] ELSE Absent]]]
    /\ troubled' = [x \in ExportIds |-> troubled[x] \/ (x \in xs /\ InRun(x))]
    /\ UNCHANGED <<clock, crashes, exports, stream, sheet, spreadsheets>>

ExportTickStart(s) == StartRun(s, DueExports, TRUE)
RunExportNow(r, x) == exports[x] # Absent /\ StartRun(r, {x}, FALSE)

\* A date holds milliseconds.
Millis(instant) == (instant \div Resolution) * Resolution

\* Where this run resumes: the watermark, or on the first run the window.
ResumesFrom(row) ==
    IF row.lastExportedAt # NotSet THEN row.lastExportedAt
    ELSE IF clock > Window THEN Millis(clock - Window) ELSE 0

\* Faults: the limit takes the newest rows; the watermark itself is included.
RowsNewest(from) ==
    {i \in stream : i > from /\ Cardinality({j \in stream : j > i}) < MaxRowsPerRun}
RowsFrom(from) ==
    {i \in stream : i >= from /\ Cardinality({j \in stream : j >= from /\ j < i}) < MaxRowsPerRun}

\* snapshotsSince, actionsForWorkspace: the oldest rows strictly after it.
RowsAfter(from) ==
    {i \in stream : i > from /\ Cardinality({j \in stream : j > from /\ j < i}) < MaxRowsPerRun}

\* runExport begins: buildTable.  Campaign insights are not rows of a stream.
Build(h, x) ==
    LET row == exportHand[h].copies[x]
    IN  /\ exportHand[h].phase = "next"
        /\ row # Absent
        /\ exportHand' = [exportHand EXCEPT ![h].phase = "write", ![h].running = x,
                ![h].startedAt = Millis(clock),
                ![h].table = IF row.dataset = "event_stream" THEN RowsAfter(ResumesFrom(row)) ELSE {}]
        /\ UNCHANGED <<clock, crashes, exports, stream, sheet, spreadsheets, troubled>>

\* Fault: a run with nothing new moves the watermark to where it ended.
NewestOrNow(h) ==
    LET table == exportHand[h].table
    IN  IF table = {} THEN clock ELSE Millis(CHOOSE i \in table : \A j \in table : j <= i)

\* newest() of the rows written, or when the run started if there were none.
WatermarkAfter(h) ==
    LET table == exportHand[h].table
    IN  IF table = {} THEN exportHand[h].startedAt
        ELSE Millis(CHOOSE i \in table : \A j \in table : j <= i)

Appended(x, table) == [sheet EXCEPT ![x] = [i \in Instants |-> @[i] + (IF i \in table THEN 1 ELSE 0)]]

\* writeTable: a spreadsheet is made when the copy has none, and the rows are
\* appended to it.
Created(x, has) == IF has THEN spreadsheets ELSE [spreadsheets EXCEPT ![x] = @ + 1]

Write(h) ==
    LET x == exportHand[h].running
        row == exportHand[h].copies[x]
    IN  /\ exportHand[h].phase = "write"
        /\ spreadsheets' = Created(x, row.spreadsheet)
        /\ sheet' = Appended(x, exportHand[h].table)
        /\ exportHand' = [exportHand EXCEPT ![h].phase = "save",
                ![h].copies[x] = [row EXCEPT !.spreadsheet = TRUE,
                                             !.lastExportedAt = WatermarkAfter(h)]]
        /\ UNCHANGED <<clock, crashes, exports, stream, troubled>>

\* The data or the connection is missing, or the write fails: the copy keeps its
\* watermark and its destination, although the spreadsheet may have been made
\* and the append have landed.
RunFails(h, made, landed) ==
    LET x == exportHand[h].running
    IN  /\ exportHand[h].phase = "write"
        /\ landed => made
        /\ OneMoreCrash
        /\ spreadsheets' = Created(x, exportHand[h].copies[x].spreadsheet \/ ~made)
        /\ sheet' = Appended(x, IF landed THEN exportHand[h].table ELSE {})
        /\ troubled' = [troubled EXCEPT ![x] = @ \/ made]
        /\ exportHand' = [exportHand EXCEPT ![h].phase = "save"]
        /\ UNCHANGED <<exports, stream>>

\* The finally block, or setActive: the copy is saved, whole.
SaveExport(h) ==
    LET x == exportHand[h].running
        row == exportHand[h].copies[x]
        left == [exportHand[h].copies EXCEPT ![x] = Absent]
    IN  /\ exportHand[h].phase = "save"
        /\ exports' = [exports EXCEPT ![x] =
                IF exportHand[h].advance THEN [row EXCEPT !.nextRun = NextRunFrom(row.period)] ELSE row]
        /\ exportHand' = [exportHand EXCEPT ![h] =
                IF left = NoExports THEN AtRest
                ELSE [AtRest EXCEPT !.phase = "next", !.advance = exportHand[h].advance, !.copies = left]]
        /\ UNCHANGED <<clock, crashes, stream, sheet, spreadsheets, troubled>>

\* The process dies, or the save fails and ends the tick.
ExportCrash(h) ==
    /\ exportHand[h].phase # "idle"
    /\ OneMoreCrash
    /\ troubled' = [x \in ExportIds |-> troubled[x] \/ exportHand[h].running = x]
    /\ exportHand' = [exportHand EXCEPT ![h] = AtRest]
    /\ UNCHANGED <<exports, stream, sheet, spreadsheets>>

\* Time passes, and the rest of the system may record a row as it does.  Time
\* 0 being NotSet, nothing happens before the first whole millisecond.
ExportTime(written) ==
    /\ TimePasses
    /\ written => clock' >= Resolution
    /\ stream' = IF written THEN stream \cup {clock'} ELSE stream
    /\ UNCHANGED <<exports, sheet, spreadsheets, exportHand, troubled>>

ExportsNext ==
    \/ \E x \in ExportIds :
        \/ \E d \in Datasets, p \in Periods, given \in BOOLEAN : CreateExport(x, d, p, given)
        \/ RemoveExport(x)
        \/ \E r \in Requests : RunExportNow(r, x) \/ \E active \in BOOLEAN : SetExportActive(r, x, active)
    \/ \E s \in Servers : ExportTickStart(s)
    \/ \E h \in Holders :
        \/ \E x \in ExportIds : Build(h, x)
        \/ Write(h)
        \/ \E made, landed \in BOOLEAN : RunFails(h, made, landed)
        \/ SaveExport(h) \/ ExportCrash(h)
    \/ \E written \in BOOLEAN : ExportTime(written)

ExportsSpec == ExportsInit /\ [][ExportsNext]_exportVars

-----------------------------------------------------------------------------
(* Properties.                                                             *)

\* "A daily export never duplicates history" (scheduled-export.entity.ts): no
\* row of the stream stands twice in the sheet, however many runs there were,
\* as long as they did not overlap and no write failed half way.
HistoryOnce ==
    \A x \in ExportIds, i \in Instants : ~troubled[x] => sheet[x][i] <= 1

\* What the code keeps of it: a row created on a whole millisecond, the only
\* kind whose creation time a date holds, is never appended twice, and no more
\* than one spreadsheet is made.
HistoryOncePerMilli ==
    \A x \in ExportIds : ~troubled[x] =>
        /\ \A i \in Instants : Millis(i) = i => sheet[x][i] <= 1
        /\ spreadsheets[x] <= 1

\* buildTable's promise: nothing is skipped.  Every row created up to the
\* watermark, since the first run looked back, stands in the sheet, also when
\* a backlog was cut at the limit or rows were written during a slow run.
NothingSkipped ==
    \A x \in ExportIds :
        LET seen == {j \in Instants : sheet[x][j] > 0}
        IN  (exports[x] # Absent /\ ~troubled[x] /\ exports[x].dataset = "event_stream") =>
                \A i \in stream :
                    (i <= exports[x].lastExportedAt /\ \E j \in seen : j <= i) => sheet[x][i] > 0

\* Every row up to the watermark reaches the spreadsheet, and those whose
\* creation time a date holds reach it once.
ExportedExactlyOnce == HistoryOncePerMilli /\ NothingSkipped

=============================================================================
