--------------------------- MODULE CreditLedger ---------------------------
(***************************************************************************)
(* The credit ledger of one workspace: grants come in, metered AI runs     *)
(* draw them down (src/usage/usage.service.ts, gated and metered by        *)
(* src/ai/ai.service.ts).                                                  *)
(*                                                                         *)
(* A run is a process.  Every repository call it awaits is a step of its   *)
(* own, because other runs, grants and the clock move in between: the      *)
(* balance is read at the gate, the event is saved, the live grants are    *)
(* read, and the allocations planned from that read are saved last.        *)
(* Nothing ties these steps together: no transaction and no lock.          *)
(*                                                                         *)
(* Workspaces never share a row (every query filters on workspaceId), so   *)
(* one workspace is the whole system.                                      *)
(***************************************************************************)
EXTENDS Credits, Sequences, Functions

CONSTANTS
    Runs,       \* the AI runs that may happen, each metered at most once
    Costs,      \* what a run may cost in credits (creditsFor is at least 1)
    Refs,       \* Stripe sessions and invoices a grant may name
    NoRef,      \* NULL in those columns
    NewGrants,  \* grants GrantCredits may insert
    MaxGrants,  \* bound on the grants table
    MaxTime     \* bound on the clock

GrantIds == 1..MaxGrants

CreditGrant == [bucket : Buckets, credits : Nat \ {0}, expiresAt : Nat,
                ref : Refs \cup {NoRef}]

ASSUME CostsAssumption == Costs \subseteq Nat \ {0}
ASSUME BoundsAssumption == MaxGrants \in Nat /\ MaxTime \in Nat \ {0}
ASSUME NewGrantsAssumption == NewGrants \subseteq CreditGrant
ASSUME RunsAssumption == IsFiniteSet(Runs)

VARIABLES
    now,        \* the database clock, NOW()
    grants,     \* credit_grants, in createdAt order; a row never changes
    spent,      \* per grant, SUM(allocation.credits) of the rows naming it
    allocated,  \* per run, its event's allocation rows: grant id -> credits
    charge,     \* per run, creditsUsed of the event it saved (0: no event)
    run,        \* per run, where its process is and the snapshot it holds
    overtaken   \* history: some run saved allocations planned from a read
                \* that another run's allocations had made out of date

ledgerVars == <<now, grants, spent, allocated, charge, run, overtaken>>

----------------------------------------------------------------------------
(* The two terminal program counters: "over" after a run that answered or
   was refused, "lost" after one whose metering failed part way. *)
Ended == {"over", "lost"}
PCs == {"idle", "admitted", "metered", "planned"} \cup Ended

NoRows == [g \in {} |-> 0]

(* A function from some of the grants to credits. *)
IsRows(f) == DOMAIN f \subseteq GrantIds /\ f \in [DOMAIN f -> Nat]

IsRunState(p) ==
    /\ p = [pc |-> p.pc, live |-> p.live, readAt |-> p.readAt]
    /\ p.pc \in PCs /\ IsRows(p.live) /\ p.readAt \in Nat

Granted == 1..Len(grants)

(* The join of a grant with credit_allocations has a row per run that drew
   on it; COALESCE(SUM(allocation.credits), 0) over them is `spent`. *)
Drawers(g) == {r \in Runs : g \in DOMAIN allocated[r] /\ allocated[r][g] > 0}
TimesDrawn(g) == Cardinality(Drawers(g))

(* What is left on a grant.  Fault: the query sums what the events charged
   and not what they allocated to this grant. *)
RemainingByCharge(g) == grants[g].credits - SumFunctionOnSet(charge, Drawers(g))
Remaining(g) == grants[g].credits - spent[g]

(* liveGrantsForSpending: WHERE unexpired HAVING credits > spent.
   Fault: the expiry filter is forgotten. *)
SpendableDead(g) == grants[g].credits > spent[g]
Spendable(g) == IsLive(grants[g].expiresAt, now) /\ grants[g].credits > spent[g]

(* getBalance, one row per grant: what is live and what died unspent.
   Fault of RowRemaining: the query groups by bucket, so the join counts a
   grant's credits once per allocation row. *)
RowRemainingJoined(g) == Greater(0, grants[g].credits * Greater(1, TimesDrawn(g)) - spent[g])
RowRemaining(g) == Greater(0, Remaining(g))

Remainders == [g \in Granted |-> RowRemaining(g)]

BalanceOf(bucket) ==
    SumFunctionOnSet(Remainders,
        {g \in Granted : grants[g].bucket = bucket /\ IsLive(grants[g].expiresAt, now)})

Balance == SumFunction([bucket \in Buckets |-> BalanceOf(bucket)])

(* Fault: grants without an expiry are reported as expired too. *)
ExpiredWithNull == SumFunctionOnSet(Remainders, {g \in Granted : grants[g].expiresAt <= now})
Expired == SumFunctionOnSet(Remainders, {g \in Granted : ~IsLive(grants[g].expiresAt, now)})

(* creditsByWorkspace, the row the super-admin panel shows of the workspace:
   the grants joined with what was allocated to each, summed beforehand.
   Fault: joined with the allocation rows themselves, a grant counts once per
   run that drew on it. *)
PanelGrantedPerDraw == SumFunction([g \in Granted |-> grants[g].credits * Greater(1, TimesDrawn(g))])
PanelGranted == SumFunction([g \in Granted |-> grants[g].credits])
PanelBalance ==
    SumFunction([g \in Granted |-> IF IsLive(grants[g].expiresAt, now)
                                   THEN Greater(0, grants[g].credits - spent[g]) ELSE 0])
PanelUsed == SumFunction(charge)

----------------------------------------------------------------------------
LedgerInit ==
    /\ now = 1
    /\ grants = <<>>
    /\ spent = [g \in GrantIds |-> 0]
    /\ allocated = [r \in Runs |-> NoRows]
    /\ charge = [r \in Runs |-> 0]
    /\ run = [r \in Runs |-> [pc |-> "idle", live |-> NoRows, readAt |-> 0]]
    /\ overtaken = FALSE

Goto(r, from, to) == run[r].pc = from /\ run' = [run EXCEPT ![r].pc = to]

(* The credit gate at the top of AiService.run. *)
Admit(r) ==
    /\ Goto(r, "idle", "admitted")
    /\ Balance > 0
    /\ UNCHANGED <<now, grants, spent, allocated, charge, overtaken>>

Refuse(r) ==
    /\ Goto(r, "idle", "over")
    /\ Balance <= 0
    /\ UNCHANGED <<now, grants, spent, allocated, charge, overtaken>>

(* The run ends with nothing to meter: an unusable model, a provider error
   that escapes the loop, no tokens used, or the event could not be saved. *)
EndUnmetered(r) ==
    /\ Goto(r, "admitted", "over")
    /\ UNCHANGED <<now, grants, spent, allocated, charge, overtaken>>

(* recordEvent: the provider loop is done and the event is saved. *)
RecordEvent(r) ==
    /\ Goto(r, "admitted", "metered")
    /\ \E c \in Costs : charge' = [charge EXCEPT ![r] = c]
    /\ UNCHANGED <<now, grants, spent, allocated, overtaken>>

(* allocate, first half: read what can be spent.  With no live grant
   nothing is planned and the run is over, its charge unpaid. *)
ReadLiveGrants(r) ==
    LET ids == {g \in Granted : Spendable(g)}
    IN  /\ run[r].pc = "metered"
        /\ run' = [run EXCEPT ![r] = [pc     |-> IF ids = {} THEN "over" ELSE "planned",
                                      live   |-> [g \in ids |-> Remaining(g)],
                                      readAt |-> now]]
        /\ UNCHANGED <<now, grants, spent, allocated, charge, overtaken>>

OutOfDate(r) == \E g \in DOMAIN run[r].live : run[r].live[g] # Remaining(g)

(* allocate, second half: plan from the snapshot and save the rows. *)
SaveAllocations(r) ==
    /\ Goto(r, "planned", "over")
    /\ \E take \in planAllocations(grants, DOMAIN run[r].live, run[r].live, charge[r]) :
         /\ allocated' = [allocated EXCEPT ![r] = take]
         /\ spent' = [g \in GrantIds |-> IF g \in DOMAIN take THEN spent[g] + take[g]
                                                              ELSE spent[g]]
    /\ overtaken' = (overtaken \/ OutOfDate(r))
    /\ UNCHANGED <<now, grants, charge>>

(* The process dies between two of these calls, or a query of `allocate`
   throws, which AiService.recordUsage logs and swallows. *)
LoseRun(r) ==
    /\ run[r].pc \in {"metered", "planned"}
    /\ Goto(r, run[r].pc, "lost")
    /\ UNCHANGED <<now, grants, spent, allocated, charge, overtaken>>

(* grantCredits: insert rows.  Shared with the callers that insert several
   in one transaction. *)
InsertGrants(rows) ==
    /\ Len(grants) + Len(rows) <= MaxGrants
    /\ grants' = grants \o rows

GrantCredits ==
    /\ \E row \in NewGrants : InsertGrants(<<row>>)
    /\ UNCHANGED <<now, spent, allocated, charge, run, overtaken>>

Tick ==
    /\ now < MaxTime
    /\ now' = now + 1
    /\ UNCHANGED <<grants, spent, allocated, charge, run, overtaken>>

RunStep(r) ==
    \/ Admit(r)
    \/ Refuse(r)
    \/ EndUnmetered(r)
    \/ RecordEvent(r)
    \/ ReadLiveGrants(r)
    \/ SaveAllocations(r)
    \/ LoseRun(r)

LedgerNext ==
    \/ \E r \in Runs : RunStep(r)
    \/ GrantCredits
    \/ Tick

LedgerSpec == LedgerInit /\ [][LedgerNext]_ledgerVars

----------------------------------------------------------------------------
LedgerTypeOK ==
    /\ now \in 1..MaxTime
    /\ grants \in Seq(CreditGrant) /\ Len(grants) <= MaxGrants
    /\ spent \in [GrantIds -> Nat]
    /\ DOMAIN allocated = Runs /\ \A r \in Runs : IsRows(allocated[r])
    /\ charge \in [Runs -> Nat]
    /\ DOMAIN run = Runs /\ \A r \in Runs : IsRunState(run[r])
    /\ overtaken \in BOOLEAN

(* "A grant's remaining balance is its credits minus the allocations against
   it": allocations never exceed the credits of the grant they name. *)
NoOverdraw == \A g \in Granted : spent[g] <= grants[g].credits

(* The only way to overdraw a grant is a save planned from a read that other
   allocations have overtaken; read and save with nothing between, the plan
   is exact. *)
OverdrawNeedsOvertaking == ~overtaken => NoOverdraw

(* A run pays what it costs, or everything it saw if that is less: never
   more, and never less while a spendable grant it read had credits left. *)
PaysWhatItCan ==
    \A r \in Runs : run[r].pc = "over" /\ charge[r] > 0 =>
        SumFunction(allocated[r]) = Lesser(charge[r], SumFunction(run[r].live))

(* What the runs' events drew, as their allocation rows have it. *)
Drawn == SumFunction([r \in Runs |-> SumFunction(allocated[r])])

(* Every credit granted is spendable, expired, or paid to some event, as
   long as no run was overtaken: what the balance reports and what the
   events' allocations add up to never drift apart.  And whatever happened,
   the panel's row and the workspace's own balance never disagree. *)
Reconciles ==
    /\ PanelBalance = Balance
    /\ ~overtaken => PanelGranted = Balance + Expired + Drawn
    /\ Drawn <= PanelUsed

(* The reported balance climbs only when credits are granted: spending and
   the passage of time never raise it. *)
BalanceClimbsOnlyByGrant ==
    [][grants' = grants /\ <<spent, now>>' # <<spent, now>> => Balance' <= Balance]_ledgerVars

(* Credits are drawn only from a grant that had not expired when the drawing
   run read it: expired credits are gone, whatever the clock does later. *)
ExpiredCreditsStayUnspent ==
    [][\A g \in Granted : spent'[g] > spent[g] =>
         \E r \in Runs : /\ run[r].pc = "planned" /\ run'[r].pc = "over"
                         /\ \/ grants[g].expiresAt = Never
                            \/ grants[g].expiresAt > run[r].readAt]_ledgerVars

=============================================================================
