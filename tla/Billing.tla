------------------------------ MODULE Billing ------------------------------
(***************************************************************************)
(* Stripe and the webhook that turns its events into credit grants         *)
(* (src/billing/billing.service.ts and subscriptions.service.ts), composed *)
(* with the credit ledger the grants land in.                              *)
(*                                                                         *)
(* Stripe delivers every event at least once, in any order, several at a   *)
(* time and again after an acknowledgement that was lost.  A delivery is   *)
(* handled by one of Handlers, a request with its own program counter;     *)
(* each repository call it awaits is a step, and it may die at any of      *)
(* them.  A handler that answers 5xx leaves the event to be redelivered.   *)
(***************************************************************************)
EXTENDS CreditLedger

CONSTANTS
    Sessions,      \* top-up checkout sessions
    Subs,          \* Stripe subscriptions opened for the workspace
    MaxPeriod,     \* bound on the periods of a subscription
    MaxVersion,    \* bound on the changes of a subscription
    MaxFailures,   \* bound on handlers that die or hit a database error
    Handlers,      \* deliveries handled at the same time
    PackCredits,   \* credits of a top-up pack
    PlanCredits,   \* monthlyCredits of the plan
    PeriodLength,  \* length of a billing period
    SeatCounts,    \* active members the workspace may have
    FREE_SEATS, SEAT_BONUS_CREDITS, SEAT_BONUS_CAP

Invoices == Subs \X (1..MaxPeriod) \X {"renewal", "proration"}
Renewal(s, k) == <<s, k, "renewal">>
Payments == Sessions \cup {inv \in Invoices : inv[3] = "renewal"}

ASSUME RefsAssumption == Refs = Sessions \cup Invoices /\ NoRef \notin Refs
ASSUME SizesAssumption == PackCredits \in Nat \ {0} /\ PlanCredits \in Nat \ {0}
ASSUME PeriodsAssumption == MaxPeriod \in Nat
ASSUME CountsAssumption ==
    /\ {MaxVersion, MaxFailures, PeriodLength} \subseteq Nat
    /\ SeatCounts \cup {FREE_SEATS, SEAT_BONUS_CREDITS, SEAT_BONUS_CAP} \subseteq Nat

(* SubscriptionStatus; Stripe has more. *)
Statuses == {"trialing", "active", "past_due", "canceled", "incomplete"}
StripeStatuses == Statuses \cup {"unpaid", "none"}

(* toStatus.  Fault: a status Stripe has and the enum has not is stored. *)
toStatusUnchecked(raw) == raw
toStatus(raw) == IF raw \in Statuses THEN raw ELSE "canceled"

VARIABLES
    stripe,        \* Stripe's own subscriptions
    events,        \* the webhook events Stripe has emitted
    acked,         \* those it was answered 2xx for
    subscription,  \* the workspace's row in `subscriptions`, or NoRow
    handler,       \* per handler, the request it is working on
    failures       \* how many handlers have died so far

stripeVars == <<stripe, events>>
webhookVars == <<acked, subscription, handler, failures>>
billingVars == <<ledgerVars, stripeVars, webhookVars>>

NoRow == [stripeId |-> NoRef, status |-> "canceled", end |-> 0, seats |-> 0]
NoEvent == [id |-> <<"none">>, kind |-> "none"]
Free == [pc |-> "free", event |-> NoEvent, row |-> NoRow, rolledOver |-> 0, seats |-> 0]

BillingInit ==
    /\ LedgerInit
    /\ stripe = [s \in Subs |-> [status |-> "none", period |-> 0, end |-> 0, version |-> 0]]
    /\ events = {}
    /\ acked = {}
    /\ subscription = NoRow
    /\ handler = [h \in Handlers |-> Free]
    /\ failures = 0

----------------------------------------------------------------------------
(* Stripe: the service the webhooks come from. *)

CheckoutEvent(c, isPaid) ==
    [id |-> <<"checkout", c>>, kind |-> "checkout.session.completed", ref |-> c, paid |-> isPaid]
InvoiceEvent(inv, end) ==
    [id |-> <<"invoice", inv>>, kind |-> "invoice.paid", ref |-> inv, end |-> end]
SubscriptionEvent(s, kind) ==
    [id |-> <<"subscription", s, stripe'[s].version>>, kind |-> kind, sub |-> s,
     status |-> stripe'[s].status, end |-> stripe'[s].end]

Emitted(id) == \E e \in events : e.id = id

(* A customer finishes a top-up checkout; with a delayed payment method the
   session completes before the money arrives. *)
CompleteCheckout(c) ==
    /\ ~Emitted(<<"checkout", c>>)
    /\ \E isPaid \in BOOLEAN : events' = events \cup {CheckoutEvent(c, isPaid)}
    /\ UNCHANGED <<stripe, ledgerVars, webhookVars>>

ChangeSubscription(s, status, period, end) ==
    /\ stripe[s].version < MaxVersion
    /\ stripe' = [stripe EXCEPT ![s] = [status |-> status, period |-> period, end |-> end,
                                         version |-> stripe[s].version + 1]]

(* The first payment of a subscription, or the one that starts a period. *)
PayPeriod(s) ==
    LET next == stripe[s].period + 1
        end  == IF stripe[s].status = "none" THEN now + PeriodLength
                ELSE stripe[s].end + PeriodLength
    IN  /\ \/ stripe[s].status = "none"
           \/ stripe[s].status \in {"active", "past_due", "unpaid"} /\ now >= stripe[s].end
        /\ next <= MaxPeriod
        /\ ChangeSubscription(s, "active", next, end)
        /\ events' = events \cup {SubscriptionEvent(s, "customer.subscription.updated"),
                                  InvoiceEvent(Renewal(s, next), end)}
        /\ UNCHANGED <<ledgerVars, webhookVars>>

(* A charge inside a period: paid, but not the start of a period. *)
PayProration(s) ==
    LET inv == <<s, stripe[s].period, "proration">>
    IN  /\ stripe[s].status = "active"
        /\ ~Emitted(<<"invoice", inv>>)
        /\ events' = events \cup {InvoiceEvent(inv, stripe[s].end)}
        /\ UNCHANGED <<stripe, ledgerVars, webhookVars>>

(* A card fails: Stripe retries it, or has given up on it. *)
LapseSubscription(s) ==
    /\ stripe[s].status = "active"
    /\ \E status \in {"past_due", "unpaid"} :
         ChangeSubscription(s, status, stripe[s].period, stripe[s].end)
    /\ events' = events \cup {SubscriptionEvent(s, "customer.subscription.updated")}
    /\ UNCHANGED <<ledgerVars, webhookVars>>

(* The customer ends the subscription in the portal, or Stripe does. *)
CancelSubscription(s) ==
    /\ stripe[s].status \in {"active", "past_due", "unpaid"}
    /\ ChangeSubscription(s, "canceled", stripe[s].period, stripe[s].end)
    /\ events' = events \cup {SubscriptionEvent(s, "customer.subscription.deleted")}
    /\ UNCHANGED <<ledgerVars, webhookVars>>

StripeStep ==
    \/ \E c \in Sessions : CompleteCheckout(c)
    \/ \E s \in Subs : PayPeriod(s) \/ PayProration(s) \/ LapseSubscription(s)
                       \/ CancelSubscription(s)

----------------------------------------------------------------------------
(* The webhook. *)

At(h, pc) == handler[h].pc = pc
Kind(h) == handler[h].event.kind
HandlerTo(h, pc) == handler' = [handler EXCEPT ![h].pc = pc]

HasGrant(ref) == \E g \in Granted : grants[g].ref = ref

(* The delivery of an event, for the first time or again. *)
Deliver(h, e) ==
    /\ At(h, "free")
    /\ handler' = [handler EXCEPT ![h] = [Free EXCEPT !.pc = "received", !.event = e]]
    /\ UNCHANGED <<ledgerVars, stripeVars, acked, subscription, failures>>

(* The 2xx that ends a handled delivery. *)
Acknowledge(h) ==
    /\ At(h, "done")
    /\ acked' = acked \cup {handler[h].event}
    /\ handler' = [handler EXCEPT ![h] = Free]
    /\ UNCHANGED <<ledgerVars, stripeVars, subscription, failures>>

(* The process dies, or a query fails, at any point up to the answer. *)
FailHandler(h) ==
    /\ ~At(h, "free")
    /\ failures < MaxFailures
    /\ failures' = failures + 1
    /\ handler' = [handler EXCEPT ![h] = Free]
    /\ UNCHANGED <<ledgerVars, stripeVars, acked, subscription>>

(* onCheckoutCompleted up to its insert: a session that is not paid, or is
   already credited, is acknowledged.  Fault: payment_status is not read. *)
CheckSessionUnread(h) ==
    /\ At(h, "received") /\ Kind(h) = "checkout.session.completed"
    /\ HandlerTo(h, IF ~HasGrant(handler[h].event.ref) THEN "topup" ELSE "done")
    /\ UNCHANGED <<ledgerVars, stripeVars, acked, subscription, failures>>

CheckSession(h) ==
    /\ At(h, "received") /\ Kind(h) = "checkout.session.completed"
    /\ HandlerTo(h, IF handler[h].event.paid /\ ~HasGrant(handler[h].event.ref)
                    THEN "topup" ELSE "done")
    /\ UNCHANGED <<ledgerVars, stripeVars, acked, subscription, failures>>

Grant(bucket, credits, expiresAt, ref) ==
    [bucket |-> bucket, credits |-> credits, expiresAt |-> expiresAt, ref |-> ref]

(* An insert, or a transaction of inserts, under the unique indexes on
   stripeSessionId and stripeInvoiceId: a duplicate `ref` inserts nothing.
   Fault: the index is missing and only the earlier check protects. *)
InsertUnindexed(ref, rows) == InsertGrants(rows)
InsertUnique(ref, rows) ==
    IF HasGrant(ref) THEN UNCHANGED grants ELSE InsertGrants(rows)

(* The top-up grant; a unique violation is acknowledged like a success. *)
GrantTopup(h) ==
    LET ref == handler[h].event.ref
    IN  /\ At(h, "topup")
        /\ InsertUnique(ref, <<Grant(bucketForReason("topup"), PackCredits, Never, ref)>>)
        /\ HandlerTo(h, "done")
        /\ UNCHANGED <<now, spent, allocated, charge, run, overtaken,
                       stripeVars, acked, subscription, failures>>

IsRenewal(e) == e.ref[3] = "renewal"

(* An invoice whose subscription has no row yet is answered 503, so that it
   is sent again.  Fault: it is acknowledged. *)
UnknownAcked(h) == HandlerTo(h, "done")
UnknownSubscription(h) == handler' = [handler EXCEPT ![h] = Free]

(* onInvoicePaid up to applyRenewal.  An invoice that starts no period is
   acknowledged. *)
FindSubscription(h) ==
    /\ At(h, "received") /\ Kind(h) = "invoice.paid"
    /\ \/ ~IsRenewal(handler[h].event) /\ HandlerTo(h, "done")
       \/ /\ IsRenewal(handler[h].event)
          /\ subscription.stripeId = handler[h].event.ref[1]
          /\ handler' = [handler EXCEPT ![h].pc = "found", ![h].row = subscription]
       \/ /\ IsRenewal(handler[h].event)
          /\ subscription.stripeId # handler[h].event.ref[1]
          /\ UnknownSubscription(h)
    /\ UNCHANGED <<ledgerVars, stripeVars, acked, subscription, failures>>

(* applyRenewal: the pre-check on the invoice id. *)
CheckInvoice(h) ==
    /\ At(h, "found")
    /\ HandlerTo(h, IF HasGrant(handler[h].event.ref) THEN "done" ELSE "unapplied")
    /\ UNCHANGED <<ledgerVars, stripeVars, acked, subscription, failures>>

(* unspentPlanCredits: one SUM over the join of the plan grants with their
   allocations.  A grant drawn on n times is in the join n times. *)
unspentPlanCredits ==
    LET plan == {g \in Granted : grants[g].bucket = "plan" /\ IsLive(grants[g].expiresAt, now)}
    IN  Greater(0, SumFunction([g \in plan |-> grants[g].credits * Greater(1, TimesDrawn(g))])
                   - SumFunctionOnSet(spent, plan))

(* applyRenewal: seats are counted and the rollover is measured. *)
MeasureRollover(h) ==
    /\ At(h, "unapplied")
    /\ \E seats \in SeatCounts :
         handler' = [handler EXCEPT ![h].pc = "measured", ![h].seats = seats,
                                    ![h].rolledOver = unspentPlanCredits]
    /\ UNCHANGED <<ledgerVars, stripeVars, acked, subscription, failures>>

RenewalRows(h) ==
    LET e == handler[h].event
        seatBonus == seatBonusFor(handler[h].seats, FREE_SEATS, SEAT_BONUS_CREDITS,
                                  SEAT_BONUS_CAP)
    IN  (IF handler[h].rolledOver > 0
         THEN <<Grant("rollover", handler[h].rolledOver, e.end, NoRef)>> ELSE <<>>)
        \o <<Grant("plan", PlanCredits, e.end, e.ref)>>
        \o (IF seatBonus > 0 THEN <<Grant("reward", seatBonus, Never, NoRef)>> ELSE <<>>)

(* The renewal's transaction commits: all its grants and the row's new
   period, or nothing when the unique index on the invoice fires.
   Fault: the inserts are not in a transaction, so the rollover and the
   bonus of a delivery that loses the race stay. *)
CommitRenewalPiecemeal(h) ==
    LET e == handler[h].event
        rows == RenewalRows(h)
    IN  /\ At(h, "measured")
        /\ InsertGrants(IF HasGrant(e.ref) THEN SelectSeq(rows, LAMBDA g : g.ref = NoRef)
                                           ELSE rows)
        /\ subscription' = [subscription EXCEPT !.end = e.end, !.seats = handler[h].seats]
        /\ HandlerTo(h, "done")
        /\ UNCHANGED <<now, spent, allocated, charge, run, overtaken,
                       stripeVars, acked, failures>>

CommitRenewal(h) ==
    LET e == handler[h].event
    IN  /\ At(h, "measured")
        /\ InsertUnique(e.ref, RenewalRows(h))
        /\ subscription' = IF HasGrant(e.ref) THEN subscription
                           ELSE [subscription EXCEPT !.end = e.end, !.seats = handler[h].seats]
        /\ HandlerTo(h, "done")
        /\ UNCHANGED <<now, spent, allocated, charge, run, overtaken,
                       stripeVars, acked, failures>>

(* syncFromStripe: look the row up by its Stripe id. *)
FindExisting(h) ==
    /\ At(h, "received") /\ Kind(h) = "customer.subscription.updated"
    /\ handler' = [handler EXCEPT ![h].pc = "syncing",
                     ![h].row = IF subscription.stripeId = handler[h].event.sub
                                THEN subscription ELSE NoRow]
    /\ UNCHANGED <<ledgerVars, stripeVars, acked, subscription, failures>>

(* syncFromStripe: save the entity built from that row and the event.  An
   insert that meets the unique index on workspaceId throws. *)
SaveSubscription(h) ==
    LET e == handler[h].event
        row == handler[h].row
    IN  /\ At(h, "syncing")
        /\ IF row = NoRow /\ subscription # NoRow
           THEN handler' = [handler EXCEPT ![h] = Free] /\ UNCHANGED subscription
           ELSE /\ subscription' = [stripeId |-> e.sub, status |-> toStatus(e.status),
                                    end |-> e.end, seats |-> row.seats]
                /\ HandlerTo(h, "done")
        /\ UNCHANGED <<ledgerVars, stripeVars, acked, failures>>

(* onSubscriptionDeleted: one UPDATE, of no row if there is none yet. *)
MarkCanceled(h) ==
    /\ At(h, "received") /\ Kind(h) = "customer.subscription.deleted"
    /\ subscription' = IF subscription.stripeId = handler[h].event.sub
                       THEN [subscription EXCEPT !.status = "canceled"] ELSE subscription
    /\ HandlerTo(h, "done")
    /\ UNCHANGED <<ledgerVars, stripeVars, acked, failures>>

HandlerStep(h) ==
    \/ CheckSession(h)
    \/ GrantTopup(h)
    \/ FindSubscription(h)
    \/ CheckInvoice(h)
    \/ MeasureRollover(h)
    \/ CommitRenewal(h)
    \/ FindExisting(h)
    \/ SaveSubscription(h)
    \/ MarkCanceled(h)
    \/ Acknowledge(h)

----------------------------------------------------------------------------
BillingNext ==
    \/ StripeStep
    \/ \E h \in Handlers : \/ \E e \in events : Deliver(h, e)
                           \/ HandlerStep(h)
                           \/ FailHandler(h)
    \/ (Tick \/ \E r \in Runs : RunStep(r)) /\ UNCHANGED <<stripeVars, webhookVars>>

BillingSpec == BillingInit /\ [][BillingNext]_billingVars

EventIds == {<<"checkout", c>> : c \in Sessions} \cup {<<"invoice", inv>> : inv \in Invoices}
            \cup {<<"subscription", s, v>> : s \in Subs, v \in 1..MaxVersion}

Retry(id) == \E h \in Handlers, e \in events : e.id = id /\ e \notin acked /\ Deliver(h, e)

(* A handler that runs makes progress, and Stripe retries each event on a
   schedule of its own until it is acknowledged: strong fairness, because
   the cap on handlers is the model's and other deliveries come and go. *)
BillingFairness ==
    /\ \A h \in Handlers : WF_billingVars(HandlerStep(h))
    /\ \A id \in EventIds : SF_billingVars(Retry(id))

FairBillingSpec == BillingSpec /\ BillingFairness

----------------------------------------------------------------------------
HandlerPCs == {"free", "received", "topup", "found", "unapplied", "measured", "syncing", "done"}

IsRowState(row) ==
    /\ DOMAIN row = DOMAIN NoRow
    /\ row.stripeId \in Subs \cup {NoRef} /\ row.status \in Statuses
    /\ row.end \in Nat /\ row.seats \in SeatCounts \cup {0}

BillingTypeOK ==
    /\ LedgerTypeOK
    /\ \A s \in Subs : /\ stripe[s].status \in StripeStatuses
                       /\ stripe[s].period \in 0..MaxPeriod
                       /\ stripe[s].version \in 0..MaxVersion
    /\ acked \subseteq events
    /\ IsRowState(subscription)
    /\ \A h \in Handlers : /\ handler[h].pc \in HandlerPCs
                           /\ handler[h].event \in events \cup {NoEvent}
                           /\ IsRowState(handler[h].row)
                           /\ handler[h].rolledOver \in Nat
    /\ failures \in 0..MaxFailures

(* The payments behind the events: paid sessions, and invoices that start a
   period. *)
EarnsCredits(e) ==
    \/ e.kind = "checkout.session.completed" /\ e.paid
    \/ e.kind = "invoice.paid" /\ IsRenewal(e)
PaidFor == {e.ref : e \in {x \in events : EarnsCredits(x)}}
TimesCredited == [p \in Payments |-> Cardinality({g \in Granted : grants[g].ref = p})]

Promise == INSTANCE PaymentCredits WITH paid <- PaidFor, credited <- TimesCredited

(* Every payment is credited at most once and only if it was made, whatever
   Stripe delivers twice, late, concurrently or again after a crash. *)
CreditsAtMostOnce == Promise!PaymentSpec

(* No payment is lost: each one is eventually credited. *)
PaymentsAreCredited == Promise!PaymentsAreCredited

(* An event Stripe will not send again has had its effect. *)
AckedMeansCredited == \A e \in acked : EarnsCredits(e) => HasGrant(e.ref)

(* The grants of one renewal stand or fall together: with a team above the
   free seats, there is one seat bonus for each plan allowance, and never
   more rollovers than allowances. *)
InBucket(bucket) == {g \in Granted : grants[g].bucket = bucket}
RenewalIsAtomic ==
    /\ Cardinality(InBucket("reward")) = Cardinality(InBucket("plan"))
    /\ Cardinality(InBucket("rollover")) <= Cardinality(InBucket("plan"))

----------------------------------------------------------------------------
(* What the code's comments say and the code does not do. *)

Quiescent == events = acked /\ \A h \in Handlers : At(h, "free")

(* Plan credits left from the period an invoice replaces. *)
LeftOver(inv) ==
    SumFunctionOnSet(Remainders,
        {g \in Granted : grants[g].ref = Renewal(inv[1], inv[2] - 1)})

(* "Last period's unspent plan credits, carried forward": a renewal rolls
   over what is left of the allowance it replaces. *)
RolloverCarriesUnspent ==
    [][\A h \in Handlers : At(h, "unapplied") /\ handler'[h].pc = "measured" =>
         handler'[h].rolledOver >= LeftOver(handler[h].event.ref)]_billingVars

(* Once every event is acknowledged, the local row has Stripe's status and
   its current period. *)
MirrorAgrees ==
    Quiescent /\ subscription # NoRow =>
        LET original == stripe[subscription.stripeId]
        IN  subscription.status = toStatus(original.status) /\ subscription.end = original.end

=============================================================================
