----------------------------- MODULE BugReports -----------------------------
(***************************************************************************)
(* Bug reports: filed from the dashboard                                   *)
(* (src/bug-reports/bug-reports.service.ts) and triaged in the owner's     *)
(* panel (updateBugReport of src/super-admin/super-admin.service.ts).      *)
(*                                                                         *)
(* A triage finds the row, changes its copy and saves it.  The save reads  *)
(* the row again and writes the columns in which the copy differs from     *)
(* that reading, so two triages of one report meet at three points.        *)
(***************************************************************************)
EXTENDS Naturals

CONSTANTS
    BugIds,
    Triages,     \* requests to update a report
    NoBug,       \* the row that is not there
    MaxStamps    \* bound on the times the clock is read

Closed == {"resolved", "dismissed"}
BugStatuses == {"open", "in_progress"} \cup Closed

\* NULL in resolvedAt.
Unstamped == 0

ASSUME NoBugAssumption ==
    MaxStamps \in Nat /\ NoBug \notin [status : BugStatuses, resolvedAt : 0..MaxStamps]

VARIABLES
    bugs,      \* bug_reports: status and resolvedAt
    triage,    \* per request, the copy it works on and what save has read
    stamps,    \* how often resolvedAt was taken from the clock
    crossed    \* history: reports written by a save whose reading was old

bugVars == <<bugs, triage, stamps, crossed>>

NoTriage == [pc |-> "unused", bug |-> NoBug, copy |-> NoBug, loaded |-> NoBug]

BugsInit ==
    /\ bugs = [b \in BugIds |-> NoBug]
    /\ triage = [q \in Triages |-> NoTriage]
    /\ stamps = 0
    /\ crossed = {}

\* create: a report is open whoever files it.
FileBug(b) ==
    /\ bugs[b] = NoBug
    /\ bugs' = [bugs EXCEPT ![b] = [status |-> "open", resolvedAt |-> Unstamped]]
    /\ UNCHANGED <<triage, stamps, crossed>>

(* What a change of status makes of resolvedAt.  Faults: reopening leaves
   the stamp; closing again sets a new one. *)
StampedOnceForAll(row, status, clock) ==
    IF row.resolvedAt # Unstamped THEN row.resolvedAt
    ELSE IF status \in Closed THEN clock ELSE Unstamped
StampedAnew(row, status, clock) == IF status \in Closed THEN clock ELSE Unstamped
Stamped(row, status, clock) ==
    IF status \notin Closed THEN Unstamped
    ELSE IF row.resolvedAt # Unstamped THEN row.resolvedAt ELSE clock

(* findOne, and the change made to the copy; without a status only the note
   changes, which nothing here depends on. *)
FindBug(q, b) ==
    /\ triage[q].pc = "unused"
    /\ bugs[b] # NoBug
    /\ \E status \in BugStatuses :
         /\ stamps < MaxStamps
         /\ stamps' = stamps + 1
         /\ triage' = [triage EXCEPT ![q] = [pc |-> "found", bug |-> b, loaded |-> NoBug,
              copy |-> [status |-> status, resolvedAt |-> Stamped(bugs[b], status, stamps + 1)]]]
    /\ UNCHANGED <<bugs, crossed>>

NoteBug(q, b) ==
    /\ triage[q].pc = "unused"
    /\ bugs[b] # NoBug
    /\ triage' = [triage EXCEPT ![q] = [pc |-> "found", bug |-> b, loaded |-> NoBug,
                                        copy |-> bugs[b]]]
    /\ UNCHANGED <<bugs, stamps, crossed>>

LoadBug(q) ==
    /\ triage[q].pc = "found"
    /\ triage' = [triage EXCEPT ![q].pc = "loaded", ![q].loaded = bugs[triage[q].bug]]
    /\ UNCHANGED <<bugs, stamps, crossed>>

\* The columns that differ, over the row as it is by now.
SaveBug(q) ==
    LET t == triage[q]
        row == bugs[t.bug]
    IN  /\ t.pc = "loaded"
        /\ bugs' = [bugs EXCEPT ![t.bug] =
             [status |-> IF t.copy.status # t.loaded.status THEN t.copy.status ELSE row.status,
              resolvedAt |-> IF t.copy.resolvedAt # t.loaded.resolvedAt THEN t.copy.resolvedAt
                             ELSE row.resolvedAt]]
        /\ crossed' = IF row = t.loaded THEN crossed ELSE crossed \cup {t.bug}
        /\ triage' = [triage EXCEPT ![q] = NoTriage]
        /\ UNCHANGED stamps

BugsNext ==
    \/ \E b \in BugIds : FileBug(b) \/ \E q \in Triages : FindBug(q, b) \/ NoteBug(q, b)
    \/ \E q \in Triages : LoadBug(q) \/ SaveBug(q)

BugsSpec == BugsInit /\ [][BugsNext]_bugVars

----------------------------------------------------------------------------
BugsTypeOK ==
    /\ \A b \in BugIds : bugs[b] # NoBug =>
          bugs[b].status \in BugStatuses /\ bugs[b].resolvedAt \in 0..MaxStamps
    /\ \A q \in Triages : triage[q].pc \in {"unused", "found", "loaded"}
    /\ stamps \in 0..MaxStamps /\ crossed \subseteq BugIds

(* Status and stamp are "the same fact said twice": a report has a time of
   resolution exactly while it is closed, also after two triages that both
   read it before either saved, unless one wrote over a row that had changed
   since its own save read it. *)
ClosedIffStamped ==
    \A b \in BugIds : bugs[b] # NoBug /\ b \notin crossed =>
        (bugs[b].status \in Closed <=> bugs[b].resolvedAt # Unstamped)

=============================================================================
