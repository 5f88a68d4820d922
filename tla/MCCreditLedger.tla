--------------------------- MODULE MCCreditLedger ---------------------------
(* Two concurrent runs over up to three grants: one that expires, two that
   do not, small enough that a run drains one grant and reaches the next. *)
EXTENDS CreditLedger, TLC

CONSTANTS r1, r2

MCRuns == {r1, r2}
MCSymmetry == Permutations(MCRuns)

MCNewGrants == {[bucket |-> "plan",   credits |-> 2, expiresAt |-> 2, ref |-> NoRef],
                [bucket |-> "topup",  credits |-> 2, expiresAt |-> Never, ref |-> NoRef],
                [bucket |-> "reward", credits |-> 1, expiresAt |-> Never, ref |-> NoRef]}

=============================================================================
