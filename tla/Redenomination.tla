---------------------------- MODULE Redenomination ----------------------------
(***************************************************************************)
(* The migration to the credit model of CreditLedger                       *)
(* (migrations/1731000000000-SubscriptionCreditModel.ts), up and down:     *)
(* credits are redenominated, and what a workspace had spent is laid over  *)
(* its grants, oldest first, as allocations.  Before it, a balance was     *)
(* what was granted less what was used; after it, it is what is left on    *)
(* the grants.  Nothing is metered while a migration runs; it is reverted  *)
(* here before anything has been metered in the new unit.                  *)
(***************************************************************************)
EXTENDS Integers, FiniteSets, Functions

CONSTANTS
    OldGrants,          \* rows of credit_grants before the migration
    Tenant,             \* the workspaces that own them
    FACTOR,             \* new credits for an old one
    MaxUsed             \* bound: credits used by a workspace before it

ASSUME RedenominationAssumption ==
    /\ IsFiniteSet(OldGrants) /\ OldGrants \subseteq Nat
    /\ FACTOR \in Nat \ {0}
    /\ MaxUsed \in Nat

VARIABLES
    version,            \* "old", "new" or "reverted"
    owned,              \* credit_grants: [workspaceId, credits, createdAt]
    used,               \* SUM(creditsUsed) of credit_events, by workspace
    backfilled,         \* credit_allocations: credits drawn from each grant
    before              \* ghost: the balances the migration found

migrationVars == <<version, owned, used, backfilled, before>>

RedenominationTypeOK ==
    /\ version \in {"old", "new", "reverted"}
    /\ owned \in [OldGrants -> [workspaceId : Tenant, credits : Nat, createdAt : Nat]]
    /\ used \in [Tenant -> Nat]
    /\ backfilled \in [OldGrants -> Nat]
    /\ before \in [Tenant -> Int]

-----------------------------------------------------------------------------
GrantsOf(w) == {g \in OldGrants : owned[g].workspaceId = w}
GrantedTo(w) == SumFunction([g \in GrantsOf(w) |-> owned[g].credits])
DrawnFrom(w) == SumFunctionOnSet(backfilled, GrantsOf(w))

OldBalance(w) == GrantedTo(w) - used[w]
NewBalance(w) == GrantedTo(w) - DrawnFrom(w)

\* ORDER BY "createdAt", "id" within a workspace.
OlderThan(g, h) ==
    /\ owned[g].workspaceId = owned[h].workspaceId
    /\ \/ owned[g].createdAt < owned[h].createdAt
       \/ owned[g].createdAt = owned[h].createdAt /\ g < h

Redenominated == [g \in OldGrants |-> owned[g].credits * FACTOR]

\* Fault: ROWS BETWEEN UNBOUNDED PRECEDING AND CURRENT ROW.
PriorAndOwn(g) == SumFunctionOnSet(Redenominated, {g} \cup {h \in OldGrants : OlderThan(h, g)})

\* The window sum of the grants before g, in the new unit.
Prior(g) == SumFunctionOnSet(Redenominated, {h \in OldGrants : OlderThan(h, g)})

\* LEAST(credits, GREATEST(0, used - prior)); 0 stands for no row.
Backfill(g) ==
    LET spent == used[owned[g].workspaceId] * FACTOR - Prior(g)
        credits == Redenominated[g]
    IN  IF spent <= 0 THEN 0 ELSE IF spent < credits THEN spent ELSE credits

RedenominationInit ==
    /\ version = "old"
    /\ owned \in [OldGrants -> [workspaceId : Tenant, credits : 1 .. 2, createdAt : 1 .. 2]]
    /\ used \in [Tenant -> 0 .. MaxUsed]
    /\ backfilled = [g \in OldGrants |-> 0]
    /\ before = [w \in Tenant |-> OldBalance(w)]

\* up, in one transaction.
MigrateUp ==
    /\ version = "old"
    /\ version' = "new"
    /\ owned' = [g \in OldGrants |-> [owned[g] EXCEPT !.credits = Redenominated[g]]]
    /\ used' = [w \in Tenant |-> used[w] * FACTOR]
    /\ backfilled' = [g \in OldGrants |-> Backfill(g)]
    /\ UNCHANGED before

\* down: integers are divided, so what was used is rounded down.
MigrateDown ==
    /\ version = "new"
    /\ version' = "reverted"
    /\ owned' = [g \in OldGrants |-> [owned[g] EXCEPT !.credits = @ \div FACTOR]]
    /\ used' = [w \in Tenant |-> used[w] \div FACTOR]
    /\ backfilled' = [g \in OldGrants |-> 0]
    /\ UNCHANGED before

RedenominationNext == MigrateUp \/ MigrateDown

RedenominationSpec == RedenominationInit /\ [][RedenominationNext]_migrationVars

-----------------------------------------------------------------------------
(* Properties.                                                             *)

\* "Every stored figure is multiplied by four so no workspace gains or loses
\* value", "a grant absorbs whatever part of the running total falls inside its
\* own slice" (SubscriptionCreditModel): a balance read off the grants is the old
\* one in the new unit, or nothing when the workspace had overdrawn, and every
\* grant older than one with credits left is used up; reverting restores it.
BalancesSurvive ==
    /\ \A w \in Tenant :
        /\ version = "new" => NewBalance(w) = IF before[w] > 0 THEN before[w] * FACTOR ELSE 0
        /\ version = "reverted" => OldBalance(w) = before[w]
    /\ \A g, h \in OldGrants : version = "new" /\ OlderThan(g, h) /\ backfilled[h] > 0
                                 => backfilled[g] = owned[g].credits

=============================================================================
