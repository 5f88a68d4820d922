----------------------------- MODULE MCLiveness -----------------------------
(***************************************************************************)
(* What must eventually happen, on one small instance: the scheduled tasks *)
(* are run and the payments are credited.  The two share nothing, so each  *)
(* behaviour follows one of them; the fairness of the other one asks for   *)
(* nothing, as none of its steps is ever enabled.                          *)
(***************************************************************************)
EXTENDS Tasks, Billing, TLC

VARIABLE focus

MCRefs == Sessions \cup Invoices

Init == TasksInit /\ BillingInit /\ focus \in {"tasks", "webhooks"}

Next ==
    /\ UNCHANGED focus
    /\ \/ focus = "tasks" /\ TasksNext /\ UNCHANGED billingVars
       \/ focus = "webhooks" /\ BillingNext /\ UNCHANGED taskVars

\* What follows from BillingFairness and is enough: as long as there are
\* invoices to retry, one of them is, and so for the other events.  That each
\* event is retried implies it, there being finitely many of them.
RetryOf(ids) == \E id \in ids : Retry(id)
InvoiceIds == {id \in EventIds : id[1] = "invoice"}
WebhookFairness ==
    /\ \A h \in Handlers : WF_billingVars(HandlerStep(h))
    /\ SF_billingVars(RetryOf(InvoiceIds)) /\ SF_billingVars(RetryOf(EventIds \ InvoiceIds))

Spec ==
    /\ Init /\ [][Next]_<<focus, taskVars, billingVars>>
    /\ TasksFairness /\ WebhookFairness

=============================================================================
