----------------------------- MODULE SpendPlan -----------------------------
(***************************************************************************)
(* planAllocations of src/usage/usage.service.ts as the loop it is: one    *)
(* step per iteration.  Where Credits!planAllocations says what the loop   *)
(* returns, this module says how, so that what the rule promises (which    *)
(* grant pays, and what a shortfall means) can be proved for every list of *)
(* grants and every charge.                                                *)
(***************************************************************************)
EXTENDS Credits, Sequences, Functions

CONSTANTS
    Inputs,     \* lists of spendable grants the function is called with
    Charges     \* values of its `credits` parameter, negative ones included

SpendableGrant == [bucket : Buckets, remaining : Nat]

ASSUME InputsAssumption == \A s \in Inputs : s \in Seq(SpendableGrant)
ASSUME ChargesAssumption == \A c \in Charges : c \in Int

VARIABLES
    offered,      \* the parameter `grants`, in the order the query returned them
    credits,      \* the parameter: what the run costs
    ordered,      \* the sorted copy, as positions of `offered`
    i,            \* the iteration the `for` is about to start
    outstanding,  \* what is still to be paid
    take          \* what each grant was made to pay (0: not in `out`)

vars == <<offered, credits, ordered, i, outstanding, take>>

(***************************************************************************)
(* [...grants].sort(by SPEND_ORDER): Array.prototype.sort is stable, so    *)
(* the result is the one arrangement in which earlier positions drain      *)
(* first.  Fault: the sort is dropped and grants are taken as delivered.   *)
(***************************************************************************)
StableSortsDropped(gs) == {[k \in DOMAIN gs |-> k]}

StableSorts(gs) ==
    { p \in [DOMAIN gs -> DOMAIN gs] :
        /\ \A a, b \in DOMAIN gs : a < b => DrainsBefore(gs, p[a], p[b])
        /\ \A g \in DOMAIN gs : \E a \in DOMAIN gs : p[a] = g }

(* Math.max(0, credits).  Fault: a negative charge is not clamped. *)
OpeningUnclamped(c) == c
Opening(c) == Greater(0, c)

Init ==
    /\ offered \in Inputs
    /\ credits \in Charges
    /\ ordered \in StableSorts(offered)
    /\ i = 1
    /\ outstanding = Opening(credits)
    /\ take = [g \in DOMAIN offered |-> 0]

Current == ordered[i]
Due == Take(outstanding, offered[Current].remaining)

(* `if (outstanding <= 0) break` was not taken for the current iteration. *)
Iterating == i <= Len(offered) /\ outstanding > 0

(* An iteration that pushes an allocation.
   Fault: the grant's whole remainder is subtracted, not what was taken. *)
DrawOversubtracts ==
    /\ Iterating
    /\ Due > 0
    /\ take' = [take EXCEPT ![Current] = Due]
    /\ outstanding' = outstanding - offered[Current].remaining
    /\ i' = i + 1
    /\ UNCHANGED <<offered, credits, ordered>>

Draw ==
    /\ Iterating
    /\ Due > 0
    /\ take' = [take EXCEPT ![Current] = Due]
    /\ outstanding' = outstanding - Due
    /\ i' = i + 1
    /\ UNCHANGED <<offered, credits, ordered>>

(* `if (take <= 0) continue`.  Fault: an empty grant ends the loop. *)
SkipBreaks ==
    /\ Iterating
    /\ Due <= 0
    /\ i' = Len(offered) + 1
    /\ UNCHANGED <<offered, credits, ordered, outstanding, take>>

Skip ==
    /\ Iterating
    /\ Due <= 0
    /\ i' = i + 1
    /\ UNCHANGED <<offered, credits, ordered, outstanding, take>>

Next == Draw \/ Skip

Spec == Init /\ [][Next]_vars

Returned == ~Iterating

----------------------------------------------------------------------------
(* The variables have the types planAllocations gives them; in particular
   `outstanding` is never negative, although `credits` may be. *)
TypeOK ==
    /\ offered \in Seq(SpendableGrant)
    /\ credits \in Int
    /\ ordered \in [DOMAIN offered -> DOMAIN offered]
    /\ i \in 1..(Len(offered) + 1)
    /\ outstanding \in Nat
    /\ take \in [DOMAIN offered -> Nat]

(* No grant pays more than it holds. *)
WithinRemaining == \A g \in DOMAIN offered : take[g] <= offered[g].remaining

(* A grant pays only once every grant that drains before it is empty:
   top-up and reward credits are reached only when the subscription
   allowance is exhausted, and older grants go first within a bucket. *)
SpendsInOrder ==
    \A g, h \in DOMAIN offered :
        take[g] > 0 /\ DrainsBefore(offered, h, g) => take[h] = offered[h].remaining

(* A charge is left partly unpaid only by a workspace drained to zero. *)
ShortfallOnlyWhenDrained ==
    Returned /\ outstanding > 0
        => \A g \in DOMAIN offered : take[g] = offered[g].remaining

(* What a caller of the planner may rely on, at every iteration. *)
PlanKeepsPromises == WithinRemaining /\ SpendsInOrder /\ ShortfallOnlyWhenDrained

(* Paid plus outstanding is the charge, at every iteration: the shortfall is
   exactly the gap between the event and its allocations. *)
AccountsForCharge ==
    SumFunction(take) + outstanding = Greater(0, credits)

(* The loop returns what Credits!planAllocations says, the operator the
   ledger is built on. *)
LedgerPlanIsLoop ==
    Returned => planAllocations(offered, DOMAIN offered,
                                [g \in DOMAIN offered |-> offered[g].remaining],
                                Greater(0, credits)) = {take}

=============================================================================
