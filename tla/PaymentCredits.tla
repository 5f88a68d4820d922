--------------------------- MODULE PaymentCredits ---------------------------
(***************************************************************************)
(* What the billing webhooks promise, with nothing said about how: money   *)
(* that arrives is turned into credits exactly once.  Deliveries, retries, *)
(* races and crashes have no place here; Billing has all of them and is    *)
(* shown to implement this.                                                *)
(***************************************************************************)
EXTENDS Naturals

CONSTANT Payments   \* what a customer may pay: top-up sessions and renewals

VARIABLES
    paid,       \* the payments that have been made
    credited    \* per payment, how many grants it has bought

paymentVars == <<paid, credited>>

PaymentInit == paid = {} /\ credited = [p \in Payments |-> 0]

Pay(p) ==
    /\ p \notin paid
    /\ paid' = paid \cup {p}
    /\ UNCHANGED credited

Credit(p) ==
    /\ p \in paid
    /\ credited[p] = 0
    /\ credited' = [credited EXCEPT ![p] = 1]
    /\ UNCHANGED paid

PaymentNext == \E p \in Payments : Pay(p) \/ Credit(p)

PaymentSpec == PaymentInit /\ [][PaymentNext]_paymentVars

(* No payment is lost. *)
PaymentsAreCredited == \A p \in Payments : p \in paid ~> credited[p] = 1

=============================================================================
