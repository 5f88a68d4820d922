------------------------------ MODULE Credits ------------------------------
(***************************************************************************)
(* The vocabulary and the pure rules of the credit system: buckets, the    *)
(* order they are drained in, how a run's charge is split over grants      *)
(* (planAllocations) and the sizes of the grants the services hand out.    *)
(*                                                                         *)
(* A grant is named by its position in the table: ids grow with createdAt. *)
(* `expiresAt` is a time, or Never for the column's NULL.                  *)
(***************************************************************************)
EXTENDS Integers, FiniteSets

Buckets == {"rollover", "plan", "topup", "reward"}

SPEND_ORDER == <<"rollover", "plan", "topup", "reward">>

\* NULL in the expiresAt column.  Time starts at 1.
Never == 0

Lesser(a, b) == IF a <= b THEN a ELSE b
Greater(a, b) == IF a >= b THEN a ELSE b

----------------------------------------------------------------------------
(* Where a grant lands when the caller does not name a bucket. *)
bucketForReason(reason) ==
    CASE reason = "topup"        -> "topup"
      [] reason = "subscription" -> "plan"
      [] reason = "rollover"     -> "rollover"
      [] OTHER                   -> "reward"

(* SPEND_ORDER.indexOf(bucket) *)
SpendRank(bucket) == CHOOSE k \in 1..4 : SPEND_ORDER[k] = bucket

(* `expiresAt IS NULL OR expiresAt > NOW()`: the filter of every query that
   looks for spendable credits. *)
IsLive(expiresAt, now) == expiresAt = Never \/ expiresAt > now

----------------------------------------------------------------------------
(* planAllocations sorts by bucket with a stable sort, on rows the query
   delivers oldest first. *)
DrainsBefore(grants, g, h) ==
    LET rg == SpendRank(grants[g].bucket)
        rh == SpendRank(grants[h].bucket)
    IN  rg < rh \/ (rg = rh /\ g < h)

(* Math.min(outstanding, grant.remaining).
   Fault: the plan ignores what is left on the grant. *)
TakeUnclamped(outstanding, remaining) == outstanding
Take(outstanding, remaining) == Lesser(outstanding, remaining)

(***************************************************************************)
(* What each grant of `live` pays of a charge: the takes of the loop, for  *)
(* the snapshot `remaining` of what was left on each.  The loop's variable *)
(* `outstanding` is a function here: outstanding[g] is its value when the  *)
(* loop reaches grant g, so the first grant sees the whole charge and each *)
(* other one what its predecessor left.  Exactly one function satisfies    *)
(* the equations, so the result is a singleton.  A take of 0 is the loop's *)
(* `continue` or `break`: no allocation row.                               *)
(*                                                                         *)
(* Fault: every grant is charged as if it were the first.                  *)
(***************************************************************************)
planForgetsOutstanding(grants, live, remaining, credits) ==
    {[g \in live |-> Take(credits, remaining[g])]}

planAllocations(grants, live, remaining, credits) ==
    LET Earlier(g) == {h \in live : DrainsBefore(grants, h, g)}
        Previous(g) == CHOOSE h \in Earlier(g) :
                         \A k \in Earlier(g) : k = h \/ DrainsBefore(grants, k, h)
        Loops(outstanding) ==
            \A g \in live :
                outstanding[g] =
                    IF Earlier(g) = {} THEN credits
                    ELSE LET h == Previous(g)
                         IN  outstanding[h] - Take(outstanding[h], remaining[h])
    IN  { [g \in live |-> Take(outstanding[g], remaining[g])] :
            outstanding \in {o \in [live -> 0..credits] : Loops(o)} }

----------------------------------------------------------------------------
(* The per-period team bonus: paid on seats above the threshold, capped. *)
seatBonusFor(seats, freeSeats, perSeat, cap) ==
    Lesser(Greater(0, seats - freeSeats) * perSeat, cap)

=============================================================================
