----------------------------- MODULE MCBilling -----------------------------
(* Constants for the webhook models.  A Stripe reference is a session or an
   invoice of the instance; handlers are interchangeable. *)
EXTENDS Billing, TLC

MCRefs == Sessions \cup Invoices
MCSymmetry == Permutations(Handlers)

=============================================================================
