----------------------------- MODULE Monitoring -----------------------------
(***************************************************************************)
(* Proactive monitoring (monitoring.service.ts, monitoring.scheduler.ts):  *)
(* an hourly sweep over the ad accounts of a workspace.  An anomaly is     *)
(* first inserted into anomaly_alerts, whose unique index over account,    *)
(* metric and day decides which sweep reports it; the reports of a sweep   *)
(* are posted to the alerts channel after all accounts were checked.       *)
(***************************************************************************)
EXTENDS Scheduling

CONSTANTS
    Accounts,       \* the ad accounts examined
    Readings,       \* what Meta may say of a day: see Reading
    NotMeasured     \* a metric the insights do not contain

VARIABLES
    alerts,         \* anomaly_alerts: the rows inserted
    posted,         \* how often an alert was posted to the channel
    sweepHand,      \* the sweep of each server
    lost            \* ghost: alerts whose report was lost to a crash or an error

sweepVars == <<clock, crashes, alerts, posted, sweepHand, lost>>

Metrics == {"cpa_spike", "roas_drop", "spend_spike"}
Today == clock \div Day
Days == 0 .. MaxClock \div Day
Alerts == [account : Accounts, metric : Metrics, day : Days]
\* spend, cost per purchase and return of a span of days, in small units
Reading == [spend : Nat, cpa : Nat \cup {NotMeasured}, roas : Nat \cup {NotMeasured}]
NoSweep == [phase |-> "idle", left |-> {}, account |-> Nobody, findings |-> {}, reports |-> {}]

ASSUME MonitoringAssumption ==
    /\ NotMeasured \notin Nat /\ Readings \subseteq Reading
    /\ Accounts # {} /\ Nobody \notin Accounts

MonitoringTypeOK ==
    /\ clock \in 1 .. MaxClock
    /\ crashes \in 0 .. MaxCrashes
    /\ alerts \subseteq Alerts
    /\ posted \in [Alerts -> Nat]
    /\ sweepHand \in [Servers -> [phase : {"idle", "check", "record", "post"},
            left : SUBSET Accounts, account : Accounts \cup {Nobody},
            findings : SUBSET Metrics, reports : SUBSET Alerts]]
    /\ lost \subseteq Alerts

MonitoringInit ==
    /\ SchedulingInit
    /\ alerts = {}
    /\ posted = [a \in Alerts |-> 0]
    /\ sweepHand = [s \in Servers |-> NoSweep]
    /\ lost = {}

-----------------------------------------------------------------------------
(* MIN_SPEND_TODAY, DEVIATION_THRESHOLD (30%), SPEND_SPIKE_MULTIPLE.       *)
MinSpendToday == 10

CpaSpike(today, base) ==
    /\ base.cpa # NotMeasured /\ base.cpa > 0
    /\ today.cpa # NotMeasured => 10 * today.cpa > 13 * base.cpa

RoasDrop(today, base) ==
    /\ base.roas # NotMeasured /\ base.roas > 0
    /\ today.roas # NotMeasured /\ 10 * today.roas < 7 * base.roas

\* more than twice a seventh of the week before
SpendSpike(today, base) == 7 * today.spend > 2 * base.spend

\* checkAccount: today against the seven days before it.
Findings(today, base) ==
    IF today.spend < MinSpendToday \/ base.spend = 0 THEN {}
    ELSE {m \in Metrics : \/ m = "cpa_spike" /\ CpaSpike(today, base)
                          \/ m = "roas_drop" /\ RoasDrop(today, base)
                          \/ m = "spend_spike" /\ SpendSpike(today, base)}

-----------------------------------------------------------------------------
\* A server whose last sweep is over starts one.  A workspace without an
\* alerts channel or a Meta connection has no accounts to check.
SweepStart(s) ==
    /\ sweepHand[s].phase = "idle"
    /\ sweepHand' = [sweepHand EXCEPT ![s].phase = "check", ![s].left = Accounts]
    /\ UNCHANGED <<clock, crashes, alerts, posted, lost>>

\* The sweep with what it has left to do: the findings of this account, the
\* other accounts, and at last the reports.
Goes(s, left, account, findings, reports) ==
    sweepHand' = [sweepHand EXCEPT ![s] =
        IF findings = {} /\ left = {} /\ reports = {} THEN NoSweep
        ELSE [left |-> left, findings |-> findings, reports |-> reports,
              account |-> IF findings = {} THEN Nobody ELSE account,
              phase |-> IF findings # {} THEN "record" ELSE IF left # {} THEN "check" ELSE "post"]]

\* The next account of the list, which Meta always gives in the same order.
CheckAccount(s, today, base) ==
    LET a == CHOOSE a \in sweepHand[s].left : TRUE
    IN  /\ sweepHand[s].phase = "check"
        /\ Goes(s, sweepHand[s].left \ {a}, a, Findings(today, base), sweepHand[s].reports)
        /\ UNCHANGED <<clock, crashes, alerts, posted, lost>>

\* Fault: an alert that is already there is reported again.
ReportsEvenIfThere(s, alert) == {alert}

\* What recordOnce's insert leaves this sweep to report: nothing when the
\* unique index refuses the row.
Fresh(s, alert) == IF alert \in alerts THEN {} ELSE {alert}

RecordOnce(s, m) ==
    LET a == sweepHand[s].account
        alert == [account |-> a, metric |-> m, day |-> Today]
    IN  /\ sweepHand[s].phase = "record"
        /\ m \in sweepHand[s].findings
        /\ alerts' = alerts \cup {alert}
        /\ Goes(s, sweepHand[s].left, a, sweepHand[s].findings \ {m},
                sweepHand[s].reports \cup Fresh(s, alert))
        /\ UNCHANGED <<clock, crashes, posted, lost>>

\* The insert fails, or its answer is lost once the row went in.  recordOnce
\* takes any error for the index, so this sweep has nothing to report.
RecordFails(s, m, inserted) ==
    LET a == sweepHand[s].account
        alert == [account |-> a, metric |-> m, day |-> Today]
        added == IF inserted THEN {alert} \ alerts ELSE {}
    IN  /\ sweepHand[s].phase = "record"
        /\ m \in sweepHand[s].findings
        /\ OneMoreCrash
        /\ alerts' = alerts \cup added
        /\ lost' = lost \cup added
        /\ Goes(s, sweepHand[s].left, a, sweepHand[s].findings \ {m}, sweepHand[s].reports)
        /\ UNCHANGED posted

\* The next report of the list goes to the channel.
Post(s, delivered) ==
    LET alert == CHOOSE alert \in sweepHand[s].reports : TRUE
    IN  /\ sweepHand[s].phase = "post"
        /\ IF delivered
           THEN /\ posted' = [posted EXCEPT ![alert] = @ + 1]
                /\ UNCHANGED <<crashes, lost>>
           ELSE /\ crashes < MaxCrashes /\ crashes' = crashes + 1
                /\ lost' = lost \cup {alert}
                /\ UNCHANGED posted
        /\ Goes(s, {}, Nobody, {}, sweepHand[s].reports \ {alert})
        /\ UNCHANGED <<clock, alerts>>

\* The process dies, or the insights of an account cannot be read: then
\* sweepWorkspace throws, and what it had to report of the accounts before is
\* dropped with it.
SweepLost(s) ==
    /\ sweepHand[s].phase # "idle"
    /\ OneMoreCrash
    /\ lost' = lost \cup sweepHand[s].reports
    /\ sweepHand' = [sweepHand EXCEPT ![s] = NoSweep]
    /\ UNCHANGED <<alerts, posted>>

SweepTime == TimePasses /\ UNCHANGED <<alerts, posted, sweepHand, lost>>

MonitoringNext ==
    \/ \E s \in Servers :
        \/ SweepStart(s)
        \/ \E today, base \in Readings : CheckAccount(s, today, base)
        \/ \E m \in Metrics : RecordOnce(s, m) \/ \E inserted \in BOOLEAN : RecordFails(s, m, inserted)
        \/ \E delivered \in BOOLEAN : Post(s, delivered)
        \/ SweepLost(s)
    \/ SweepTime

MonitoringSpec == MonitoringInit /\ [][MonitoringNext]_sweepVars

-----------------------------------------------------------------------------
(* Properties.                                                             *)

\* "Each anomaly notifies at most once per day (enforced by a unique index, so
\* concurrent instances can't double-post)", and it does notify: an alert in
\* the table was posted or is about to be, by exactly one sweep, unless a
\* crash or an error lost its report.
AlertsAreToldOnce ==
    \A alert \in Alerts :
        LET holders == {s \in Servers : alert \in sweepHand[s].reports}
            told == posted[alert] + Cardinality(holders)
        IN  told = (IF alert \in alerts \ lost THEN 1 ELSE 0)

=============================================================================
