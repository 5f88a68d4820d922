------------------------------- MODULE Rules -------------------------------
(***************************************************************************)
(* Automated ad rules (rules.service.ts, rules.scheduler.ts).  The tick    *)
(* reads the due rules, measures each against the Meta metrics and alerts  *)
(* about, pauses or scales the campaigns that breach it, within a cap per  *)
(* run and a rolling daily cap counted over the audit table; every change  *)
(* goes to Meta first and to the audit table after.  Breaching campaigns   *)
(* are counted, not named; the metric that makes one breach is the choice  *)
(* of the environment.                                                     *)
(***************************************************************************)
EXTENDS Scheduling, Functions

CONSTANTS
    RuleIds,
    RuleKinds,          \* the kinds of rule members ask for: see Kinds
    MaxActionsPerRun,   \* guardrails of the rule (ad-rule.entity.ts)
    DailyActionCap,
    MaxBreaches         \* bound: campaigns breaching at once

\* action, scope and autoExecute of a rule.  Metrics and comparators are the
\* environment's choice, and the scopes adset and campaign behave alike.
Kinds == [action : {"alert", "pause", "scale"}, scope : {"account", "campaign"},
          autoExecute : BOOLEAN]

ASSUME RulesAssumption ==
    /\ RuleKinds \subseteq Kinds
    /\ {MaxActionsPerRun, DailyActionCap, MaxBreaches} \subseteq Nat

VARIABLES
    rules,          \* the ad_rules table
    audit,          \* ad_rule_actions: successful changes recorded, by time;
                    \*        they go with their rule
    ruleHand,       \* the tick of each server
    altered,        \* ghost: changes made to the ad account, by time
    wished,         \* ghost: the rules as members last asked for them
    disputed        \* ghost: two threads had the row at once, or a failure, a
                    \*        crash or a lost answer came between a change and
                    \*        its record

ruleVars == <<clock, crashes, rules, audit, ruleHand, altered, wished, disputed>>

RuleRow == [kind : Kinds, isActive : BOOLEAN, period : Periods, nextRun : Times]
ASSUME RuleRowAssumption == Absent \notin RuleRow /\ Nobody \notin RuleIds

NoRules == [r \in RuleIds |-> Absent]
NoneYet == [i \in 1 .. MaxClock |-> 0]
RulePhases == {"idle", "next", "measure", "apply", "record", "save"}
RestingTick == [phase |-> "idle", copies |-> NoRules, running |-> Nobody,
                todo |-> 0, success |-> FALSE]

RulesTypeOK ==
    /\ clock \in 1 .. MaxClock
    /\ crashes \in 0 .. MaxCrashes
    /\ rules \in [RuleIds -> RuleRow \cup {Absent}]
    /\ audit \in [RuleIds -> [1 .. MaxClock -> Nat]]
    /\ ruleHand \in [Servers -> [phase : RulePhases, copies : [RuleIds -> RuleRow \cup {Absent}],
                                 running : RuleIds \cup {Nobody}, todo : 0 .. MaxBreaches,
                                 success : BOOLEAN]]
    /\ altered \in [RuleIds -> [1 .. MaxClock -> Nat]]
    /\ wished \in [RuleIds -> RuleRow \cup {Absent}]
    /\ disputed \in [RuleIds -> BOOLEAN]

RulesInit ==
    /\ SchedulingInit
    /\ rules = NoRules
    /\ audit = [r \in RuleIds |-> NoneYet]
    /\ ruleHand = [s \in Servers |-> RestingTick]
    /\ altered = [r \in RuleIds |-> NoneYet]
    /\ wished = NoRules
    /\ disputed = [r \in RuleIds |-> FALSE]

-----------------------------------------------------------------------------
(* The chat tools (AiService): create_ad_rule, pause, resume, delete.      *)

\* validate: an account can only be alerted about.
ValidRule(kind) == kind.scope = "account" => kind.action = "alert"

InTick(r) == \E s \in Servers : ruleHand[s].copies[r] # Absent

\* A rule that is created has done nothing yet.
CreateRule(r, kind, period) ==
    LET row == [kind |-> kind, isActive |-> TRUE, period |-> period,
                nextRun |-> NextRunFrom(period)]
    IN  /\ ValidRule(kind)
        /\ rules[r] = Absent /\ wished[r] = Absent /\ ~InTick(r)
        /\ rules' = [rules EXCEPT ![r] = row]
        /\ wished' = [wished EXCEPT ![r] = row]
        /\ altered' = [altered EXCEPT ![r] = NoneYet]
        /\ UNCHANGED <<clock, crashes, audit, ruleHand, disputed>>

\* Resuming starts from the next time of the schedule; pausing leaves it.
SetRuleActive(r, active) ==
    LET row == [rules[r] EXCEPT !.isActive = active,
                                !.nextRun = IF active THEN NextRunFrom(rules[r].period) ELSE @]
    IN  /\ rules[r] # Absent
        /\ rules' = [rules EXCEPT ![r] = row]
        /\ wished' = [wished EXCEPT ![r] = row]
        /\ disputed' = [disputed EXCEPT ![r] = @ \/ InTick(r)]
        /\ UNCHANGED <<clock, crashes, audit, ruleHand, altered>>

\* The delete cascades to ad_rule_actions.
RemoveRule(r) ==
    /\ rules[r] # Absent
    /\ rules' = [rules EXCEPT ![r] = Absent]
    /\ audit' = [audit EXCEPT ![r] = NoneYet]
    /\ wished' = [wished EXCEPT ![r] = Absent]
    /\ disputed' = [disputed EXCEPT ![r] = @ \/ InTick(r)]
    /\ UNCHANGED <<clock, crashes, ruleHand, altered>>

-----------------------------------------------------------------------------
(* The scheduler: runDueRules and what it calls.                           *)

DueRules == {r \in RuleIds : IsDue(rules[r])}

RuleTickStart(s) ==
    /\ ruleHand[s].phase = "idle"
    /\ DueRules # {}
    /\ ruleHand' = [ruleHand EXCEPT ![s].phase = "next",
            ![s].copies = [r \in RuleIds |-> IF r \in DueRules THEN rules[r] ELSE Absent]]
    /\ disputed' = [r \in RuleIds |-> disputed[r] \/ (r \in DueRules /\ InTick(r))]
    /\ UNCHANGED <<clock, crashes, rules, audit, altered, wished>>

NextRule(s, r) ==
    /\ ruleHand[s].phase = "next"
    /\ ruleHand[s].copies[r] # Absent
    /\ ruleHand' = [ruleHand EXCEPT ![s].phase = "measure", ![s].running = r]
    /\ UNCHANGED <<clock, crashes, rules, audit, altered, wished, disputed>>

\* Pauses and scales of this rule recorded in the last 24 hours.
Recent == {i \in 1 .. MaxClock : i + Day > clock}
UsedToday(r) == SumFunctionOnSet(audit[r], Recent)

Least(a, b) == IF a < b THEN a ELSE b

\* Fault: the daily cap is not reduced by what was already done.
RunCapForgets(r) == Least(MaxActionsPerRun, DailyActionCap)

\* executeMutations: how many changes this run may make.
RunCap(r) ==
    IF UsedToday(r) >= DailyActionCap THEN 0
    ELSE Least(MaxActionsPerRun, DailyActionCap - UsedToday(r))

\* Fault: rules whose owner switched autonomous changes off make them.
MutatesAlways(row) == row.kind.action # "alert" /\ row.kind.scope # "account"

\* Alert rules, account scope and autoExecute off never touch the account.
Mutates(row) ==
    row.kind.action # "alert" /\ row.kind.autoExecute /\ row.kind.scope # "account"

\* evaluateRule found n breaches.  None, a missing connection, an error of the
\* API or an unverifiable ROAS end the evaluation here (n = 0).
Measure(s, n) ==
    LET r == ruleHand[s].running
        row == ruleHand[s].copies[r]
        todo == Least(n, IF Mutates(row) THEN RunCap(r) ELSE MaxActionsPerRun)
    IN  /\ ruleHand[s].phase = "measure"
        /\ ruleHand' = [ruleHand EXCEPT ![s].todo = todo, ![s].success = TRUE,
                ![s].phase = IF todo = 0 THEN "save" ELSE IF Mutates(row) THEN "apply" ELSE "record"]
        /\ UNCHANGED <<clock, crashes, rules, audit, altered, wished, disputed>>

\* applyAction: one call to Meta, which makes the change or refuses it; a scale
\* of a campaign without a daily budget at its level throws before the call.
Apply(s, done) ==
    /\ ruleHand[s].phase = "apply"
    /\ ruleHand' = [ruleHand EXCEPT ![s].phase = "record", ![s].success = done]
    /\ altered' = IF done THEN [altered EXCEPT ![ruleHand[s].running][clock] = @ + 1] ELSE altered
    /\ UNCHANGED <<clock, crashes, rules, audit, wished, disputed>>

\* Meta makes the change and its answer is lost: fetch throws, and the catch
\* records a failure.
ApplyUnheard(s) ==
    LET r == ruleHand[s].running
    IN  /\ ruleHand[s].phase = "apply"
        /\ OneMoreCrash
        /\ ruleHand' = [ruleHand EXCEPT ![s].phase = "record", ![s].success = FALSE]
        /\ altered' = [altered EXCEPT ![r][clock] = @ + 1]
        /\ disputed' = [disputed EXCEPT ![r] = TRUE]
        /\ UNCHANGED <<rules, audit, wished>>

\* Fault: the loop goes on after its last breach.
AfterRecordOver(s, row) ==
    [ruleHand EXCEPT ![s].todo = @ - 1, ![s].success = TRUE,
        ![s].phase = IF ruleHand[s].todo = 0 THEN "save"
                     ELSE IF Mutates(row) THEN "apply" ELSE "record"]

\* The tick after one of its records: the next breach, or the save of the rule.
AfterRecord(s, row) ==
    [ruleHand EXCEPT ![s].todo = @ - 1, ![s].success = TRUE,
        ![s].phase = IF ruleHand[s].todo = 1 THEN "save"
                     ELSE IF Mutates(row) THEN "apply" ELSE "record"]

\* Fault: attempts that Meta refused are recorded as changes.
CountsAttempts(s, row) == Mutates(row)

\* What the daily cap counts: successful changes, no alerts.
Counts(s, row) == Mutates(row) /\ ruleHand[s].success

\* recordAction: a row that refers to the rule's.
Record(s) ==
    LET r == ruleHand[s].running
        row == ruleHand[s].copies[r]
    IN  /\ ruleHand[s].phase = "record"
        /\ rules[r] # Absent
        /\ audit' = IF Counts(s, row) THEN [audit EXCEPT ![r][clock] = @ + 1] ELSE audit
        /\ ruleHand' = AfterRecord(s, row)
        /\ UNCHANGED <<clock, crashes, rules, altered, wished, disputed>>

\* The record cannot be saved, as none can once the rule is deleted.  After a
\* change the catch records a failure instead; when that is what fails, the
\* evaluation is abandoned.
RecordFails(s) ==
    LET r == ruleHand[s].running
        retried == Mutates(ruleHand[s].copies[r]) /\ ruleHand[s].success
    IN  /\ ruleHand[s].phase = "record"
        /\ IF rules[r] = Absent THEN UNCHANGED <<clock, crashes>> ELSE OneMoreCrash
        /\ ruleHand' = IF retried THEN [ruleHand EXCEPT ![s].success = FALSE]
                       ELSE [ruleHand EXCEPT ![s].todo = 0, ![s].phase = "save"]
        /\ disputed' = [disputed EXCEPT ![r] = TRUE]
        /\ UNCHANGED <<rules, audit, altered, wished>>

\* The finally block saves the copy; after the last one the reports go out.
SaveRule(s) ==
    LET r == ruleHand[s].running
        row == ruleHand[s].copies[r]
        left == [ruleHand[s].copies EXCEPT ![r] = Absent]
    IN  /\ ruleHand[s].phase = "save"
        /\ rules' = [rules EXCEPT ![r] = [row EXCEPT !.nextRun = NextRunFrom(row.period)]]
        /\ ruleHand' = [ruleHand EXCEPT ![s] =
                IF left = NoRules THEN RestingTick
                ELSE [RestingTick EXCEPT !.phase = "next", !.copies = left]]
        /\ UNCHANGED <<clock, crashes, audit, altered, wished, disputed>>

\* A failed save leaves runDueRules, and every report of the tick is lost; a
\* crash loses the same.
RuleTickLost(s) ==
    /\ ruleHand[s].phase # "idle"
    /\ OneMoreCrash
    /\ ruleHand' = [ruleHand EXCEPT ![s] = RestingTick]
    /\ disputed' = [r \in RuleIds |-> disputed[r] \/ ruleHand[s].running = r]
    /\ UNCHANGED <<rules, audit, altered, wished>>

RuleTime ==
    /\ TimePasses
    /\ UNCHANGED <<rules, audit, ruleHand, altered, wished, disputed>>

RulesNext ==
    \/ \E r \in RuleIds :
        \/ \E kind \in RuleKinds, p \in Periods : CreateRule(r, kind, p)
        \/ \E active \in BOOLEAN : SetRuleActive(r, active)
        \/ RemoveRule(r)
    \/ \E s \in Servers :
        \/ RuleTickStart(s)
        \/ \E r \in RuleIds : NextRule(s, r)
        \/ \E n \in 0 .. MaxBreaches : Measure(s, n)
        \/ \E done \in BOOLEAN : Apply(s, done)
        \/ ApplyUnheard(s) \/ Record(s) \/ RecordFails(s) \/ SaveRule(s) \/ RuleTickLost(s)
    \/ RuleTime

RulesSpec == RulesInit /\ [][RulesNext]_ruleVars

-----------------------------------------------------------------------------
(* Properties.                                                             *)

\* The changes a rule made in the ticks from i to j.
ChangesIn(r, i, j) == SumFunctionOnSet(altered[r], (1 .. MaxClock) \cap (i .. j))

\* executeMutations' rolling cap: in any window of a day a rule makes no more
\* than dailyActionCap changes, whatever the runs, pauses and resumes, as long
\* as one server at a time evaluates it and its changes are recorded.
DailyCapHolds ==
    \A r \in RuleIds : \A i \in {k \in 1 .. MaxClock : altered[r][k] > 0} :
        ~disputed[r] => ChangesIn(r, i, i + Day - 1) <= DailyActionCap

\* A change made without a human in the loop is one the rule's owner allows:
\* the rule is still there, active and autonomous.
ChangesAreAuthorised ==
    \A s \in Servers :
        LET r == ruleHand[s].running
        IN  (ruleHand[s].phase = "apply" /\ ~disputed[r]) =>
                /\ rules[r] # Absent /\ rules[r].isActive /\ rules[r].kind.autoExecute
                /\ rules[r].kind.action \in {"pause", "scale"}
                /\ rules[r].kind.scope = "campaign"
                /\ wished[r] # Absent /\ wished[r].isActive

Recording(r) == \E s \in Servers :
    /\ ruleHand[s].running = r /\ ruleHand[s].phase = "record" /\ ruleHand[s].success
    /\ Mutates(ruleHand[s].copies[r])

\* "Recording every action ... for audit": the audit table never claims a
\* change that was not made, and tells of every change an existing rule made,
\* except the one a tick is about to record and those of a rule with a failure,
\* a lost answer or a second server between a change and its record.  What a
\* deleted rule did is deleted with it.
AuditTellsTheTruth ==
    \A r \in RuleIds :
        LET made == ChangesIn(r, 1, MaxClock)
            told == SumFunction(audit[r])
        IN  /\ told <= made
            /\ (rules[r] # Absent /\ ~disputed[r]) => made = told + (IF Recording(r) THEN 1 ELSE 0)

=============================================================================
