---------------------------- MODULE MCAutomation ----------------------------
(***************************************************************************)
(* What goes on without a customer asking, on one small instance: exports  *)
(* and monitoring driven by the clock, and the webhooks driven by Stripe.  *)
(* They share servers and nothing that a property reads, so each behaviour *)
(* follows one of them: the states add up instead of multiplying.  The     *)
(* handlers of the webhooks and the servers are the same two elements, so  *)
(* that one symmetry serves all.                                           *)
(***************************************************************************)
EXTENDS Exports, Monitoring, Billing, TLC

VARIABLE focus

\* an ordinary day, and one with money spent and nothing bought
MCReadings == {[spend |-> 10, cpa |-> 10, roas |-> 10],
               [spend |-> 10, cpa |-> NotMeasured, roas |-> 10]}
MCRefs == Sessions \cup Invoices
MCSymmetry == Permutations(Servers)

\* A top-up, and a charge that starts no period, are each followed beside the
\* first version of the subscription.
MCExtras == {e \in events : \/ e.kind = "checkout.session.completed"
                            \/ e.kind = "invoice.paid" /\ ~IsRenewal(e)}
MCFewPayments ==
    MCExtras = {} \/ (Cardinality(MCExtras) = 1 /\ \A s \in Subs : stripe[s].version <= 1)

exportOwn == <<exports, stream, sheet, spreadsheets, exportHand, troubled>>
sweepOwn == <<alerts, posted, sweepHand, lost>>

Init ==
    /\ ExportsInit /\ MonitoringInit /\ BillingInit
    /\ focus \in {"exports", "monitoring", "billing"}

Next ==
    /\ UNCHANGED focus
    /\ \/ focus = "exports" /\ ExportsNext /\ UNCHANGED <<sweepOwn, billingVars>>
       \/ focus = "monitoring" /\ MonitoringNext /\ UNCHANGED <<exportOwn, billingVars>>
       \/ /\ focus = "billing" /\ BillingNext
          /\ UNCHANGED <<clock, crashes, exportOwn, sweepOwn>>

Spec ==
    Init /\ [][Next]_<<focus, clock, crashes, exportOwn, sweepOwn, billingVars>>

\* What is not followed stays as it started.
AutomationTypeOK ==
    CASE focus = "exports"    -> ExportsTypeOK
      [] focus = "monitoring" -> MonitoringTypeOK
      [] focus = "billing"    -> BillingTypeOK

=============================================================================
