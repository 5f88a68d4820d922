--------------------------- MODULE BillingProofs ---------------------------
(***************************************************************************)
(* What the webhook does for any number of sessions, subscriptions,        *)
(* periods, concurrent deliveries and crashes: an event Stripe stops       *)
(* sending has had its effect, a payment is credited at most once and only *)
(* if it was made (the refinement of PaymentCredits), and the grants of a  *)
(* renewal stand or fall together.                                         *)
(*                                                                         *)
(* AckedMeansCredited is not inductive: it needs to know that a handler    *)
(* about to answer 2xx for a payment has seen, or made, its grant          *)
(* (DoneIsCredited), that a handler past its event's dispatch is working   *)
(* on the kind of event its program counter says (OnItsPath), and that the *)
(* grants table is only appended to (GrantsAreRows, a sequence).           *)
(*                                                                         *)
(* The types come last, for they need the ledger's sums: a renewal's       *)
(* rollover is the remainder of the old allowance, and that it is an       *)
(* amount at all is a fact about what was spent of it (BillingTyped).      *)
(***************************************************************************)
EXTENDS Billing, CreditLedgerProofs, FiniteSetTheorems, TLAPS

(* The table is a sequence, of whatever rows. *)
GrantsAreRows == \E S : grants \in Seq(S)

InvoicePCs == {"found", "unapplied", "measured"}

(* A handler follows the path its event's type dispatches to. *)
OnItsPath ==
    \A h \in Handlers :
        /\ At(h, "topup") => Kind(h) = "checkout.session.completed"
        /\ handler[h].pc \in InvoicePCs => Kind(h) = "invoice.paid"
        /\ At(h, "syncing") => Kind(h) = "customer.subscription.updated"

(* A handler about to acknowledge a payment leaves its grant behind. *)
DoneIsCredited ==
    \A h \in Handlers : At(h, "done") /\ EarnsCredits(handler[h].event)
                            => HasGrant(handler[h].event.ref)

DeliveryInv ==
    /\ GrantsAreRows
    /\ DOMAIN handler = Handlers
    /\ \A h \in Handlers : DOMAIN handler[h] = DOMAIN Free
    /\ OnItsPath
    /\ DoneIsCredited
    /\ AckedMeansCredited

----------------------------------------------------------------------------
(* Appending rows keeps every grant and adds the rows' references. *)
LEMMA AppendKeepsGrants ==
    ASSUME GrantsAreRows, NEW T, NEW rows \in Seq(T), grants' = grants \o rows
    PROVE  /\ GrantsAreRows'
           /\ \A ref : HasGrant(ref) => HasGrant(ref)'
           /\ \A k \in 1..Len(rows) : HasGrant(rows[k].ref)'
<1>1. PICK S : grants \in Seq(S)
  BY DEF GrantsAreRows
<1>2. grants \in Seq(S \cup T) /\ rows \in Seq(S \cup T)
  BY <1>1
<1>3. /\ grants' \in Seq(S \cup T) /\ Len(grants') = Len(grants) + Len(rows)
      /\ Len(grants) \in Nat /\ Len(rows) \in Nat
      /\ \A k \in 1..Len(grants) : grants'[k] = grants[k]
      /\ \A k \in 1..Len(rows) : grants'[Len(grants) + k] = rows[k]
  BY <1>2
<1>4. GrantsAreRows'
  BY <1>3 DEF GrantsAreRows
<1>5. \A ref : HasGrant(ref) => HasGrant(ref)'
  BY <1>3 DEF HasGrant, Granted
<1>6. \A k \in 1..Len(rows) : HasGrant(rows[k].ref)'
  <2> SUFFICES ASSUME NEW k \in 1..Len(rows) PROVE HasGrant(rows[k].ref)'
      OBVIOUS
  <2>1. Len(grants) + k \in 1..Len(grants')
    BY <1>3
  <2> QED  BY <1>3, <2>1 DEF HasGrant, Granted
<1> QED  BY <1>4, <1>5, <1>6

(* An insert under the unique index leaves a grant with its reference, made
   now or before, if its rows include one. *)
LEMMA InsertUniqueCredits ==
    ASSUME GrantsAreRows, NEW ref, NEW T, NEW rows \in Seq(T), InsertUnique(ref, rows),
           \E k \in 1..Len(rows) : rows[k].ref = ref
    PROVE  /\ GrantsAreRows'
           /\ \A r : HasGrant(r) => HasGrant(r)'
           /\ HasGrant(ref)'
<1>1. CASE HasGrant(ref)
  BY <1>1 DEF InsertUnique, GrantsAreRows, HasGrant, Granted
<1>2. CASE ~HasGrant(ref)
  <2>1. grants' = grants \o rows
    BY <1>2 DEF InsertUnique, InsertGrants
  <2> QED  BY <2>1, AppendKeepsGrants
<1> QED  BY <1>1, <1>2

(* The rows of a renewal include the plan grant that carries the invoice. *)
LEMMA RenewalRowsCarryInvoice ==
    ASSUME NEW h \in Handlers
    PROVE  /\ \E T : RenewalRows(h) \in Seq(T)
           /\ \E k \in 1..Len(RenewalRows(h)) : RenewalRows(h)[k].ref = handler[h].event.ref
<1> DEFINE e == handler[h].event
           bonus == seatBonusFor(handler[h].seats, FREE_SEATS, SEAT_BONUS_CREDITS,
                                 SEAT_BONUS_CAP)
           g1 == Grant("rollover", handler[h].rolledOver, e.end, NoRef)
           g2 == Grant("plan", PlanCredits, e.end, e.ref)
           g3 == Grant("reward", bonus, Never, NoRef)
           s1 == IF handler[h].rolledOver > 0 THEN <<g1>> ELSE <<>>
           s3 == IF bonus > 0 THEN <<g3>> ELSE <<>>
           T == {g1, g2, g3}
<1> DEFINE rows == RenewalRows(h)
<1>1. rows = s1 \o <<g2>> \o s3
  BY DEF RenewalRows
<1>2. g2.ref = handler[h].event.ref
  BY DEF Grant
<1> HIDE DEF g1, g2, g3, bonus
<1>3. s1 \in Seq(T) /\ s3 \in Seq(T) /\ <<g2>> \in Seq(T)
  <2>1. g1 \in T /\ g2 \in T /\ g3 \in T
    OBVIOUS
  <2> HIDE DEF T
  <2>2. <<>> \in Seq(T) /\ <<g1>> \in Seq(T) /\ <<g2>> \in Seq(T) /\ <<g3>> \in Seq(T)
    BY <2>1
  <2> QED  BY <2>2
<1> HIDE DEF s1, s3, T
<1>4. s1 \o <<g2>> \in Seq(T) /\ Len(s1 \o <<g2>>) = Len(s1) + 1 /\ Len(s1) \in Nat
      /\ (s1 \o <<g2>>)[Len(s1) + 1] = g2
  BY <1>3
<1>5. RenewalRows(h) \in Seq(T) /\ Len(s1) + 1 \in 1..Len(RenewalRows(h))
      /\ RenewalRows(h)[Len(s1) + 1] = g2
  BY <1>1, <1>3, <1>4
<1> QED  BY <1>2, <1>5

----------------------------------------------------------------------------
LEMMA InitDeliveryInv == BillingInit => DeliveryInv
<1> SUFFICES ASSUME BillingInit PROVE DeliveryInv
    OBVIOUS
<1>1. GrantsAreRows
  BY DEF BillingInit, LedgerInit, GrantsAreRows
<1>2. /\ DOMAIN handler = Handlers
      /\ \A h \in Handlers : handler[h] = Free /\ handler[h].pc = "free"
  BY DEF BillingInit, Free
<1>3. OnItsPath /\ DoneIsCredited
  BY <1>2 DEF OnItsPath, DoneIsCredited, At, InvoicePCs
<1>4. AckedMeansCredited
  BY DEF BillingInit, AckedMeansCredited
<1> QED  BY <1>1, <1>2, <1>3, <1>4 DEF DeliveryInv

(* A step that leaves handlers and acknowledgements alone and only appends
   to the grants: Stripe, the clock and the runs. *)
LEMMA OtherStepDeliveryInv ==
    ASSUME DeliveryInv, UNCHANGED <<grants, acked, handler>>
    PROVE  DeliveryInv'
BY DEF DeliveryInv, GrantsAreRows, OnItsPath, DoneIsCredited, AckedMeansCredited,
       HasGrant, Granted, At, Kind

(* A handler moves to a program counter other than "done" with its event's
   kind right for it, or is freed or given an event. *)
LEMMA MoveDeliveryInv ==
    ASSUME DeliveryInv, NEW h \in Handlers, NEW to,
           handler' = [handler EXCEPT ![h] = to], DOMAIN to = DOMAIN Free,
           UNCHANGED <<grants, acked>>,
           to.pc = "topup" => to.event.kind = "checkout.session.completed",
           to.pc \in InvoicePCs => to.event.kind = "invoice.paid",
           to.pc = "syncing" => to.event.kind = "customer.subscription.updated",
           to.pc = "done" /\ EarnsCredits(to.event) => HasGrant(to.event.ref)
    PROVE  DeliveryInv'
<1> USE DEF DeliveryInv
<1>1. handler'[h] = to /\ \A k \in Handlers : k # h => handler'[k] = handler[k]
  OBVIOUS
<1>2. GrantsAreRows' /\ DOMAIN handler' = Handlers
      /\ \A k \in Handlers : DOMAIN handler'[k] = DOMAIN Free
  BY <1>1 DEF GrantsAreRows
<1>3. OnItsPath'
  BY <1>1 DEF OnItsPath, At, Kind
<1>4. DoneIsCredited'
  BY <1>1 DEF DoneIsCredited, At, HasGrant, Granted
<1>5. AckedMeansCredited'
  BY DEF AckedMeansCredited, HasGrant, Granted
<1> QED  BY <1>2, <1>3, <1>4, <1>5

(* The two inserts: the handler is done and its grant is there. *)
LEMMA InsertStepDeliveryInv ==
    ASSUME DeliveryInv, NEW h \in Handlers, HandlerTo(h, "done"), UNCHANGED acked,
           NEW ref, ref = handler[h].event.ref, NEW T, NEW rows \in Seq(T),
           InsertUnique(ref, rows), \E k \in 1..Len(rows) : rows[k].ref = ref
    PROVE  DeliveryInv'
<1>0. GrantsAreRows' /\ (\A r : HasGrant(r) => HasGrant(r)') /\ HasGrant(ref)'
  BY InsertUniqueCredits DEF DeliveryInv
<1> USE DEF DeliveryInv
<1>1. /\ handler'[h].pc = "done" /\ handler'[h].event = handler[h].event
      /\ DOMAIN handler' = Handlers /\ DOMAIN handler'[h] = DOMAIN Free
      /\ \A k \in Handlers : k # h => handler'[k] = handler[k]
  BY DEF HandlerTo, Free
<1>2. OnItsPath'
  BY <1>1 DEF OnItsPath, At, Kind, InvoicePCs
<1>3. DoneIsCredited'
  <2> SUFFICES ASSUME NEW k \in Handlers, handler'[k].pc = "done", NEW r,
                      r = handler'[k].event.ref, EarnsCredits(handler'[k].event)
               PROVE  HasGrant(r)'
      BY DEF DoneIsCredited, At, HasGrant, Granted
  <2>1. CASE k = h
    BY <1>0, <1>1, <2>1
  <2>2. CASE k # h
    BY <1>0, <1>1, <2>2 DEF DoneIsCredited, At
  <2> QED  BY <2>1, <2>2
<1>4. AckedMeansCredited'
  BY <1>0 DEF AckedMeansCredited
<1> QED  BY <1>0, <1>1, <1>2, <1>3, <1>4

(* A handler that only changes its program counter. *)
LEMMA HandlerToDeliveryInv ==
    ASSUME DeliveryInv, NEW h \in Handlers, NEW pc, HandlerTo(h, pc), UNCHANGED <<grants, acked>>,
           pc = "topup" => Kind(h) = "checkout.session.completed",
           pc \in InvoicePCs => Kind(h) = "invoice.paid",
           pc # "syncing",
           pc = "done" /\ EarnsCredits(handler[h].event) => HasGrant(handler[h].event.ref)
    PROVE  DeliveryInv'
<1> DEFINE to == [handler[h] EXCEPT !.pc = pc]
<1>1. handler' = [handler EXCEPT ![h] = to]
  BY DEF HandlerTo
<1>2. DOMAIN to = DOMAIN Free /\ to.pc = pc /\ to.event = handler[h].event
  BY DEF DeliveryInv, Free
<1> HIDE DEF to
<1> QED  BY <1>1, <1>2, MoveDeliveryInv DEF Kind

LEMMA FreedDeliveryInv ==
    ASSUME DeliveryInv, NEW h \in Handlers, handler' = [handler EXCEPT ![h] = Free],
           UNCHANGED <<grants, acked>>
    PROVE  DeliveryInv'
<1>1. Free.pc = "free"
  BY DEF Free
<1> QED  BY <1>1, MoveDeliveryInv DEF InvoicePCs

LEMMA HandlerStepDeliveryInv ==
    ASSUME DeliveryInv, NEW h \in Handlers, HandlerStep(h)
    PROVE  DeliveryInv'
<1>1. CASE CheckSession(h)
  BY <1>1, HandlerToDeliveryInv DEF CheckSession, ledgerVars, EarnsCredits, Kind, InvoicePCs
<1>2. CASE GrantTopup(h)
  <2>1. PICK ref, row : /\ ref = handler[h].event.ref
                        /\ row = Grant(bucketForReason("topup"), PackCredits, Never, ref)
    OBVIOUS
  <2>2. HandlerTo(h, "done") /\ InsertUnique(ref, <<row>>) /\ UNCHANGED acked
    BY <1>2, <2>1 DEF GrantTopup
  <2>3. row.ref = ref
    BY <2>1 DEF Grant
  <2>4. PICK T, rows : rows \in Seq(T) /\ rows = <<row>>
    <3> <<row>> \in Seq({row})
      OBVIOUS
    <3> QED  OBVIOUS
  <2>5. \E k \in 1..Len(rows) : rows[k].ref = ref
    BY <2>3, <2>4
  <2> QED  BY <2>1, <2>2, <2>4, <2>5, InsertStepDeliveryInv
<1>3. CASE FindSubscription(h)
  <2> UNCHANGED <<grants, acked>>
    BY <1>3 DEF FindSubscription, ledgerVars
  <2>1. CASE ~IsRenewal(handler[h].event) /\ HandlerTo(h, "done")
    <3>1. ~EarnsCredits(handler[h].event)
      BY <1>3, <2>1 DEF FindSubscription, EarnsCredits, Kind
    <3> QED  BY <2>1, <3>1, HandlerToDeliveryInv DEF InvoicePCs
  <2>2. CASE handler' = [handler EXCEPT ![h].pc = "found", ![h].row = subscription]
    <3> DEFINE to == [handler[h] EXCEPT !.pc = "found", !.row = subscription]
    <3>1. /\ handler' = [handler EXCEPT ![h] = to]
          /\ DOMAIN to = DOMAIN Free /\ to.pc = "found" /\ to.event.kind = "invoice.paid"
      BY <1>3, <2>2 DEF FindSubscription, Kind, DeliveryInv, Free
    <3> HIDE DEF to
    <3> QED  BY <3>1, MoveDeliveryInv
  <2>3. CASE UnknownSubscription(h)
    BY <2>3, FreedDeliveryInv DEF UnknownSubscription
  <2> QED  BY <1>3, <2>1, <2>2, <2>3 DEF FindSubscription
<1>4. CASE CheckInvoice(h)
  <2>1. Kind(h) = "invoice.paid"
    BY <1>4 DEF CheckInvoice, DeliveryInv, OnItsPath, At, InvoicePCs
  <2> QED  BY <1>4, <2>1, HandlerToDeliveryInv DEF CheckInvoice, ledgerVars, InvoicePCs
<1>5. CASE MeasureRollover(h)
  <2>1. Kind(h) = "invoice.paid" /\ UNCHANGED <<grants, acked>>
    BY <1>5 DEF MeasureRollover, DeliveryInv, OnItsPath, At, InvoicePCs, ledgerVars
  <2>2. PICK seats, credits :
          handler' = [handler EXCEPT ![h].pc = "measured", ![h].seats = seats,
                                     ![h].rolledOver = credits]
    BY <1>5 DEF MeasureRollover
  <2> DEFINE to == [handler[h] EXCEPT !.pc = "measured", !.seats = seats, !.rolledOver = credits]
  <2>3. /\ handler' = [handler EXCEPT ![h] = to]
        /\ DOMAIN to = DOMAIN Free /\ to.pc = "measured" /\ to.event.kind = "invoice.paid"
    BY <2>1, <2>2 DEF Kind, DeliveryInv, Free
  <2> HIDE DEF to
  <2> QED  BY <2>1, <2>3, MoveDeliveryInv
<1>6. CASE CommitRenewal(h)
  <2>1. PICK ref, T, rows : /\ ref = handler[h].event.ref
                            /\ rows = RenewalRows(h) /\ rows \in Seq(T)
                            /\ \E k \in 1..Len(rows) : rows[k].ref = ref
    BY RenewalRowsCarryInvoice
  <2>2. HandlerTo(h, "done") /\ InsertUnique(ref, rows) /\ UNCHANGED acked
    BY <1>6, <2>1 DEF CommitRenewal
  <2> QED  BY <2>1, <2>2, InsertStepDeliveryInv
<1>7. CASE FindExisting(h)
  <2>1. PICK row : handler' = [handler EXCEPT ![h].pc = "syncing", ![h].row = row]
    BY <1>7 DEF FindExisting
  <2> DEFINE to == [handler[h] EXCEPT !.pc = "syncing", !.row = row]
  <2>2. /\ handler' = [handler EXCEPT ![h] = to] /\ UNCHANGED <<grants, acked>>
        /\ DOMAIN to = DOMAIN Free /\ to.pc = "syncing"
        /\ to.event.kind = "customer.subscription.updated"
    BY <1>7, <2>1 DEF FindExisting, Kind, DeliveryInv, Free, ledgerVars
  <2> HIDE DEF to
  <2> QED  BY <2>2, MoveDeliveryInv DEF InvoicePCs
<1>8. CASE SaveSubscription(h)
  <2>1. UNCHANGED <<grants, acked>> /\ ~EarnsCredits(handler[h].event)
    BY <1>8 DEF SaveSubscription, DeliveryInv, OnItsPath, At, Kind, EarnsCredits, ledgerVars
  <2>2. handler' = [handler EXCEPT ![h] = Free] \/ HandlerTo(h, "done")
    BY <1>8 DEF SaveSubscription
  <2> QED  BY <2>1, <2>2, FreedDeliveryInv, HandlerToDeliveryInv DEF InvoicePCs
<1>9. CASE MarkCanceled(h)
  BY <1>9, HandlerToDeliveryInv DEF MarkCanceled, ledgerVars, EarnsCredits, Kind, InvoicePCs
<1>10. CASE Acknowledge(h)
  <2>1. /\ handler' = [handler EXCEPT ![h] = Free] /\ UNCHANGED grants
        /\ acked' = acked \cup {handler[h].event}
        /\ EarnsCredits(handler[h].event) => HasGrant(handler[h].event.ref)
    BY <1>10 DEF Acknowledge, ledgerVars, DeliveryInv, DoneIsCredited
  <2>2. handler'[h] = Free /\ \A k \in Handlers : k # h => handler'[k] = handler[k]
    BY <2>1 DEF DeliveryInv
  <2>3. Free.pc = "free"
    BY DEF Free
  <2>4. GrantsAreRows' /\ DOMAIN handler' = Handlers
        /\ \A k \in Handlers : DOMAIN handler'[k] = DOMAIN Free
    BY <2>1, <2>2 DEF DeliveryInv, GrantsAreRows
  <2>5. OnItsPath'
    BY <2>2, <2>3 DEF DeliveryInv, OnItsPath, At, Kind, InvoicePCs
  <2>6. DoneIsCredited'
    BY <2>1, <2>2, <2>3 DEF DeliveryInv, DoneIsCredited, At, HasGrant, Granted
  <2>7. AckedMeansCredited'
    BY <2>1 DEF DeliveryInv, AckedMeansCredited, HasGrant, Granted
  <2> QED  BY <2>4, <2>5, <2>6, <2>7 DEF DeliveryInv
<1> QED  BY <1>1, <1>2, <1>3, <1>4, <1>5, <1>6, <1>7, <1>8, <1>9, <1>10 DEF HandlerStep

LEMMA NextDeliveryInv ==
    ASSUME DeliveryInv, [BillingNext]_billingVars
    PROVE  DeliveryInv'
<1>1. CASE StripeStep
  <2>1. UNCHANGED <<grants, acked, handler>>
    BY <1>1 DEF StripeStep, CompleteCheckout, PayPeriod, PayProration, LapseSubscription,
                CancelSubscription, ledgerVars, webhookVars
  <2> QED  BY <2>1, OtherStepDeliveryInv
<1>2. ASSUME NEW h \in Handlers, NEW e \in events, Deliver(h, e) PROVE DeliveryInv'
  <2> DEFINE to == [Free EXCEPT !.pc = "received", !.event = e]
  <2>1. /\ handler' = [handler EXCEPT ![h] = to] /\ UNCHANGED <<grants, acked>>
        /\ DOMAIN to = DOMAIN Free /\ to.pc = "received"
    BY <1>2 DEF Deliver, Free, ledgerVars
  <2> HIDE DEF to
  <2> QED  BY <2>1, MoveDeliveryInv DEF InvoicePCs
<1>3. ASSUME NEW h \in Handlers, HandlerStep(h) PROVE DeliveryInv'
  BY <1>3, HandlerStepDeliveryInv
<1>4. ASSUME NEW h \in Handlers, FailHandler(h) PROVE DeliveryInv'
  BY <1>4, FreedDeliveryInv DEF FailHandler, ledgerVars
<1>5. CASE (Tick \/ \E r \in Runs : RunStep(r)) /\ UNCHANGED <<stripeVars, webhookVars>>
  <2>1. UNCHANGED <<grants, acked, handler>>
    BY <1>5 DEF Tick, RunStep, Admit, Refuse, EndUnmetered, RecordEvent, ReadLiveGrants,
                SaveAllocations, LoseRun, webhookVars
  <2> QED  BY <2>1, OtherStepDeliveryInv
<1>6. CASE UNCHANGED billingVars
  BY <1>6, OtherStepDeliveryInv DEF billingVars, ledgerVars, webhookVars
<1> QED  BY <1>1, <1>2, <1>3, <1>4, <1>5, <1>6 DEF BillingNext

(* An event that Stripe will not send again, because it was answered 2xx,
   has been credited: no acknowledgement overtakes the grant it stands for,
   with any number of deliveries, crashes and database errors in between. *)
THEOREM BillingAcked == BillingSpec => []AckedMeansCredited
<1>1. DeliveryInv => AckedMeansCredited
  BY DEF DeliveryInv
<1> QED  BY InitDeliveryInv, NextDeliveryInv, <1>1, PTL DEF BillingSpec

----------------------------------------------------------------------------
(***************************************************************************)
(* The webhook implements PaymentCredits: no payment is credited twice, and *)
(* none is credited that was not made.                                      *)
(*                                                                          *)
(* A step that inserts a grant maps to Credit(p) only if p has been paid,   *)
(* so a handler on its way to an insert must hold an event Stripe emitted   *)
(* for money (HandsHoldPayments), and such an event must name a payment     *)
(* (EventsNamePayments), which it does because Stripe numbers the periods   *)
(* of its subscriptions (PeriodsAreNumbers).                                *)
(***************************************************************************)
Inserting == {"topup"} \cup InvoicePCs

HandsHoldPayments ==
    \A h \in Handlers :
        /\ ~At(h, "free") => handler[h].event \in events
        /\ handler[h].pc \in Inserting => EarnsCredits(handler[h].event)

EventsNamePayments == \A e \in events : EarnsCredits(e) => e.ref \in Payments

PeriodsAreNumbers == DOMAIN stripe = Subs /\ \A s \in Subs : stripe[s].period \in Nat

PromiseInv ==
    /\ GrantsAreRows
    /\ DOMAIN handler = Handlers
    /\ \A h \in Handlers : DOMAIN handler[h] = DOMAIN Free
    /\ OnItsPath
    /\ HandsHoldPayments
    /\ EventsNamePayments
    /\ PeriodsAreNumbers

(* The references of money are never NULL. *)
LEMMA PaymentsAreRefs == NoRef \notin Payments
BY RefsAssumption DEF Payments

(* The rows a renewal inserts: one plan grant, which carries the invoice, at
   most one rollover, and a bonus exactly if the seats earn one. *)
seatBonusOf(h) ==
    seatBonusFor(handler[h].seats, FREE_SEATS, SEAT_BONUS_CREDITS, SEAT_BONUS_CAP)

AreRenewalRows(rows, ref, hasBonus) ==
    /\ \E T : rows \in Seq(T)
    /\ \A k \in 1..Len(rows) :
        /\ rows[k].bucket \in {"rollover", "plan", "reward"}
        /\ rows[k].ref = IF rows[k].bucket = "plan" THEN ref ELSE NoRef
    /\ \A k, l \in 1..Len(rows) : rows[k].bucket = rows[l].bucket => k = l
    /\ \E k \in 1..Len(rows) : rows[k].bucket = "plan"
    /\ hasBonus <=> \E k \in 1..Len(rows) : rows[k].bucket = "reward"

(* What concatenating one-element tuples gives. *)
LEMMA TupleConcatenation ==
    ASSUME NEW T, NEW s \in Seq(T), NEW t \in Seq(T), NEW u \in Seq(T),
           NEW cat, cat = s \o t \o u
    PROVE  /\ cat \in Seq(T) /\ Len(cat) = Len(s) + Len(t) + Len(u)
           /\ \A k \in 1..Len(s) : cat[k] = s[k]
           /\ \A k \in 1..Len(t) : cat[Len(s) + k] = t[k]
           /\ \A k \in 1..Len(u) : cat[Len(s) + Len(t) + k] = u[k]
OBVIOUS

LEMMA OneTuple == \A x, T : x \in T => <<x>> \in Seq(T) /\ Len(<<x>>) = 1 /\ <<x>>[1] = x
OBVIOUS

LEMMA NoTuple == \A T : <<>> \in Seq(T) /\ Len(<<>>) = 0
OBVIOUS

LEMMA RenewalRowsAre ==
    ASSUME NEW h \in Handlers
    PROVE  AreRenewalRows(RenewalRows(h), handler[h].event.ref, seatBonusOf(h) > 0)
<1> DEFINE e == handler[h].event
           ref == e.ref
           g1 == Grant("rollover", handler[h].rolledOver, e.end, NoRef)
           g2 == Grant("plan", PlanCredits, e.end, ref)
           g3 == Grant("reward", seatBonusOf(h), Never, NoRef)
           rolls == handler[h].rolledOver > 0
           bonus == seatBonusOf(h) > 0
           s1 == IF rolls THEN <<g1>> ELSE <<>>
           s3 == IF bonus THEN <<g3>> ELSE <<>>
<1> DEFINE rows == RenewalRows(h)
<1>1. rows = s1 \o <<g2>> \o s3
  BY DEF RenewalRows, seatBonusOf
<1>2. /\ g1.bucket = "rollover" /\ g1.ref = NoRef
      /\ g2.bucket = "plan" /\ g2.ref = ref
      /\ g3.bucket = "reward" /\ g3.ref = NoRef
  BY DEF Grant
<1> DEFINE t == <<g2>>  S == {g1, g2, g3}
<1> HIDE DEF g1, g2, g3, rolls, bonus, ref, rows
<1>3. /\ s1 \in Seq(S) /\ t \in Seq(S) /\ s3 \in Seq(S)
      /\ IF rolls THEN Len(s1) = 1 /\ s1[1] = g1 ELSE Len(s1) = 0
      /\ Len(t) = 1 /\ t[1] = g2
      /\ IF bonus THEN Len(s3) = 1 /\ s3[1] = g3 ELSE Len(s3) = 0
  BY OneTuple, NoTuple
<1> HIDE DEF s1, t, s3, S
<1>4. /\ rows \in Seq(S) /\ Len(rows) = Len(s1) + Len(t) + Len(s3)
      /\ \A k \in 1..Len(s1) : rows[k] = s1[k]
      /\ \A k \in 1..Len(t) : rows[Len(s1) + k] = t[k]
      /\ \A k \in 1..Len(s3) : rows[Len(s1) + Len(t) + k] = s3[k]
  <2>1. rows = s1 \o t \o s3
    BY <1>1 DEF t
  <2>2. s1 \in Seq(S) /\ t \in Seq(S) /\ s3 \in Seq(S)
    BY <1>3
  <2> QED  BY ONLY <2>1, <2>2, TupleConcatenation
<1>5. IF rolls THEN Len(s1) = 1 /\ rows[1] = g1 ELSE Len(s1) = 0
  BY <1>3, <1>4
<1>6. rows[Len(s1) + 1] = g2
  BY <1>3, <1>4
<1>7. IF bonus THEN Len(rows) = Len(s1) + 2 /\ rows[Len(s1) + 2] = g3
               ELSE Len(rows) = Len(s1) + 1
  <2>1. Len(s1) \in Nat /\ Len(s1) + Len(t) + 1 = Len(s1) + 2
    BY <1>3
  <2>2. bonus => rows[Len(s1) + Len(t) + 1] = g3
    BY <1>3, <1>4
  <2> QED  BY <1>3, <1>4, <2>1, <2>2
<1>8. AreRenewalRows(rows, ref, bonus)
  <2>1. CASE rolls /\ bonus
    <3>1. Len(s1) = 1 /\ Len(s1) + 1 = 2 /\ Len(s1) + 2 = 3
      BY <1>5, <2>1
    <3>2. Len(rows) = 3
      BY <1>7, <2>1, <3>1
    <3>3. rows[1] = g1 /\ rows[2] = g2 /\ rows[3] = g3
      BY <1>5, <1>6, <1>7, <2>1, <3>1
    <3>4. 1..Len(rows) = 1..3 /\ 1..3 = {1, 2, 3}
      BY <3>2
    <3> QED  BY <1>2, <1>4, <2>1, <3>3, <3>4 DEF AreRenewalRows
  <2>2. CASE rolls /\ ~bonus
    <3>1. Len(s1) = 1 /\ Len(s1) + 1 = 2
      <4>1. Len(s1) = 1
        BY <1>5, <2>2
      <4> QED  BY <4>1
    <3>2. Len(rows) = 2
      BY <1>7, <2>2, <3>1
    <3>3. rows[1] = g1 /\ rows[2] = g2
      BY <1>5, <1>6, <1>7, <2>2, <3>1
    <3>4. 1..Len(rows) = 1..2 /\ 1..2 = {1, 2}
      BY <3>2
    <3> QED  BY <1>2, <1>4, <2>2, <3>3, <3>4 DEF AreRenewalRows
  <2>3. CASE ~rolls /\ bonus
    BY <1>2, <1>4, <1>5, <1>6, <1>7, <2>3 DEF AreRenewalRows
  <2>4. CASE ~rolls /\ ~bonus
    BY <1>2, <1>4, <1>5, <1>6, <1>7, <2>4 DEF AreRenewalRows
  <2> QED  BY <2>1, <2>2, <2>3, <2>4
<1> QED  BY <1>8 DEF rows, ref, bonus

(* Of these rows row k names payment p, and the others name none. *)
NamesOnly(rows, k, p) ==
    /\ rows[k].ref = p
    /\ \A l \in 1..Len(rows) : l # k => rows[l].ref \notin Payments

(* Rows of which exactly one names a payment credit that payment once more,
   and no other. *)
LEMMA AppendCreditsOnce ==
    ASSUME GrantsAreRows, NEW T, NEW rows \in Seq(T), grants' = grants \o rows,
           NEW p \in Payments, ~HasGrant(p),
           NEW k \in 1..Len(rows), NamesOnly(rows, k, p)
    PROVE  TimesCredited[p] = 0 /\ TimesCredited' = [TimesCredited EXCEPT ![p] = 1]
<1> DEFINE Naming(q) == {g \in Granted : grants[g].ref = q}
<1>1. PICK S : grants \in Seq(S)
  BY DEF GrantsAreRows
<1>2. grants \in Seq(S \cup T) /\ rows \in Seq(S \cup T)
  BY <1>1
<1>3. /\ Len(grants') = Len(grants) + Len(rows)
      /\ Len(grants) \in Nat /\ Len(rows) \in Nat
      /\ \A j \in 1..Len(grants) : grants'[j] = grants[j]
      /\ \A j \in 1..Len(rows) : grants'[Len(grants) + j] = rows[j]
  BY <1>2
<1>4. Naming(p) = {}
  BY DEF HasGrant
<1>5. Naming(p)' = {Len(grants) + k}
  <2>1. Len(grants) + k \in Naming(p)'
    BY <1>3 DEF Granted, NamesOnly
  <2>2. ASSUME NEW g \in Naming(p)' PROVE g = Len(grants) + k
    <3>1. g \in 1..(Len(grants) + Len(rows)) /\ grants'[g].ref = p
      BY <1>3 DEF Granted
    <3>2. CASE g \in 1..Len(grants)
      BY <1>3, <1>4, <3>1, <3>2 DEF Granted
    <3>3. CASE g \notin 1..Len(grants)
      <4>1. g - Len(grants) \in 1..Len(rows) /\ g = Len(grants) + (g - Len(grants))
        BY <1>3, <3>1, <3>3
      <4>2. rows[g - Len(grants)].ref = p
        BY <1>3, <3>1, <4>1
      <4> QED  BY <4>1, <4>2 DEF NamesOnly
    <3> QED  BY <3>2, <3>3
  <2> QED  BY <2>1, <2>2
<1>6. ASSUME NEW q \in Payments, q # p PROVE Naming(q)' = Naming(q)
  <2>1. ASSUME NEW g \in Naming(q) PROVE g \in Naming(q)'
    BY <1>3, <2>1 DEF Granted
  <2>2. ASSUME NEW g \in Naming(q)' PROVE g \in Naming(q)
    <3>1. g \in 1..(Len(grants) + Len(rows)) /\ grants'[g].ref = q
      BY <1>3 DEF Granted
    <3>2. CASE g \in 1..Len(grants)
      BY <1>3, <3>1, <3>2 DEF Granted
    <3>3. CASE g \notin 1..Len(grants)
      <4>1. g - Len(grants) \in 1..Len(rows) /\ g = Len(grants) + (g - Len(grants))
        BY <1>3, <3>1, <3>3
      <4>2. rows[g - Len(grants)].ref = q
        BY <1>3, <3>1, <4>1
      <4> QED  BY <1>6, <4>1, <4>2 DEF NamesOnly
    <3> QED  BY <3>2, <3>3
  <2> QED  BY <2>1, <2>2
<1>7. /\ TimesCredited = [q \in Payments |-> Cardinality(Naming(q))]
      /\ TimesCredited' = [q \in Payments |-> Cardinality(Naming(q)')]
  BY DEF TimesCredited
<1> HIDE DEF Naming
<1>8. Cardinality(Naming(p)) = 0 /\ Cardinality(Naming(p)') = 1
  BY <1>4, <1>5, FS_EmptySet, FS_Singleton
<1> QED  BY <1>6, <1>7, <1>8

(* A session's grant is one row that names it. *)
TopupRow(ref) == Grant(bucketForReason("topup"), PackCredits, Never, ref)

(* What an insert for a payment does to the promise: nothing, or Credit. *)
LEMMA InsertKeepsPromise ==
    ASSUME GrantsAreRows, NEW p \in Payments, NEW T, NEW rows \in Seq(T), InsertUnique(p, rows),
           UNCHANGED events, p \in PaidFor,
           NEW k \in 1..Len(rows), NamesOnly(rows, k, p)
    PROVE  [Promise!PaymentNext]_Promise!paymentVars
<1>1. PaidFor' = PaidFor
  BY DEF PaidFor
<1>2. CASE HasGrant(p)
  <2>1. TimesCredited' = TimesCredited
    BY <1>2 DEF InsertUnique, TimesCredited, Granted
  <2> QED  BY <1>1, <2>1 DEF Promise!paymentVars
<1>3. CASE ~HasGrant(p)
  <2>1. grants' = grants \o rows
    BY <1>3 DEF InsertUnique, InsertGrants
  <2>2. TimesCredited[p] = 0 /\ TimesCredited' = [TimesCredited EXCEPT ![p] = 1]
    BY <1>3, <2>1, AppendCreditsOnce
  <2>3. Promise!Credit(p)
    BY <1>1, <2>2 DEF Promise!Credit
  <2> QED  BY <2>3 DEF Promise!PaymentNext
<1> QED  BY <1>2, <1>3

(* What an event of Stripe does to the promise: nothing, or Pay. *)
LEMMA EventsKeepPromise ==
    ASSUME NEW E, events' = events \cup E, UNCHANGED grants, NEW p,
           \A e \in E : EarnsCredits(e) => e.ref = p /\ p \in Payments
    PROVE  [Promise!PaymentNext]_Promise!paymentVars
<1>1. TimesCredited' = TimesCredited
  BY DEF TimesCredited, Granted
<1>2. PaidFor' = PaidFor \/ (PaidFor' = PaidFor \cup {p} /\ p \in Payments)
  BY DEF PaidFor
<1>3. CASE PaidFor' = PaidFor
  BY <1>1, <1>3 DEF Promise!paymentVars
<1>4. CASE PaidFor' # PaidFor
  <2>1. PaidFor' = PaidFor \cup {p} /\ p \in Payments /\ p \notin PaidFor
    BY <1>2, <1>4
  <2>2. Promise!Pay(p)
    BY <1>1, <2>1 DEF Promise!Pay
  <2> QED  BY <2>1, <2>2 DEF Promise!PaymentNext
<1> QED  BY <1>3, <1>4

(* A new event brings its payments along, and stays. *)
LEMMA StripeKeepsPromise ==
    ASSUME PromiseInv, StripeStep
    PROVE  PromiseInv' /\ [Promise!PaymentNext]_Promise!paymentVars
<1> DEFINE Emits(E, p) == /\ events' = events \cup E /\ UNCHANGED <<grants, handler>>
                          /\ \A e \in E : EarnsCredits(e) => e.ref = p /\ p \in Payments
<1>1. \E E, p : Emits(E, p)
  <2>1. ASSUME NEW c \in Sessions, CompleteCheckout(c) PROVE \E E, p : Emits(E, p)
    <3>1. PICK isPaid \in BOOLEAN : events' = events \cup {CheckoutEvent(c, isPaid)}
      BY <2>1 DEF CompleteCheckout
    <3>2. CheckoutEvent(c, isPaid).ref = c /\ c \in Payments
      BY DEF CheckoutEvent, Payments
    <3>3. Emits({CheckoutEvent(c, isPaid)}, c)
      BY <2>1, <3>1, <3>2 DEF CompleteCheckout, ledgerVars, webhookVars
    <3> HIDE DEF Emits
    <3> QED  BY <3>3
  <2>2. ASSUME NEW s \in Subs, PayPeriod(s) PROVE \E E, p : Emits(E, p)
    <3> DEFINE k == stripe[s].period + 1
    <3>1. PICK end : events' = events \cup
                       {SubscriptionEvent(s, "customer.subscription.updated"),
                        InvoiceEvent(Renewal(s, k), end)}
      BY <2>2 DEF PayPeriod
    <3>2. k \in 1..MaxPeriod
      BY <2>2, PeriodsAssumption DEF PayPeriod, PromiseInv, PeriodsAreNumbers
    <3>3. Renewal(s, k) \in Payments
      BY <3>2 DEF Payments, Invoices, Renewal
    <3>4. InvoiceEvent(Renewal(s, k), end).ref = Renewal(s, k)
      BY DEF InvoiceEvent
    <3>5. ~EarnsCredits(SubscriptionEvent(s, "customer.subscription.updated"))
      BY DEF EarnsCredits, SubscriptionEvent
    <3> DEFINE E == {SubscriptionEvent(s, "customer.subscription.updated"),
                     InvoiceEvent(Renewal(s, k), end)}
    <3>6. Emits(E, Renewal(s, k))
      <4>1. events' = events \cup E /\ UNCHANGED <<grants, handler>>
        BY <2>2, <3>1 DEF PayPeriod, ledgerVars, webhookVars
      <4>2. ASSUME NEW e \in E, EarnsCredits(e)
            PROVE  e.ref = Renewal(s, k) /\ Renewal(s, k) \in Payments
        BY <3>3, <3>4, <3>5, <4>2
      <4> QED  BY <4>1, <4>2
    <3> HIDE DEF Emits
    <3> QED  BY <3>6
  <2>3. ASSUME NEW s \in Subs, PayProration(s) PROVE \E E, p : Emits(E, p)
    <3>1. PICK e : /\ e = InvoiceEvent(<<s, stripe[s].period, "proration">>, stripe[s].end)
                   /\ events' = events \cup {e}
      BY <2>3 DEF PayProration
    <3>2. ~EarnsCredits(e)
      BY <3>1 DEF EarnsCredits, InvoiceEvent, IsRenewal
    <3>3. Emits({e}, NoRef)
      BY <2>3, <3>1, <3>2 DEF PayProration, ledgerVars, webhookVars
    <3> HIDE DEF Emits
    <3> QED  BY <3>3
  <2>4. ASSUME NEW s \in Subs, LapseSubscription(s) \/ CancelSubscription(s)
        PROVE  \E E, p : Emits(E, p)
    <3>1. PICK kind \in {"customer.subscription.updated", "customer.subscription.deleted"} :
            events' = events \cup {SubscriptionEvent(s, kind)}
      BY <2>4 DEF LapseSubscription, CancelSubscription
    <3>2. ~EarnsCredits(SubscriptionEvent(s, kind))
      BY DEF EarnsCredits, SubscriptionEvent
    <3>3. Emits({SubscriptionEvent(s, kind)}, NoRef)
      BY <2>4, <3>1, <3>2 DEF LapseSubscription, CancelSubscription, ledgerVars, webhookVars
    <3> HIDE DEF Emits
    <3> QED  BY <3>3
  <2> QED  BY <2>1, <2>2, <2>3, <2>4 DEF StripeStep
<1>2. PICK E, p : Emits(E, p)
  BY <1>1
<1>3. [Promise!PaymentNext]_Promise!paymentVars
  BY <1>2, EventsKeepPromise
<1>4. EventsNamePayments' /\ HandsHoldPayments'
  BY <1>2 DEF PromiseInv, EventsNamePayments, HandsHoldPayments, At, EarnsCredits, IsRenewal
<1>5. PeriodsAreNumbers'
  <2>1. ASSUME NEW s \in Subs, NEW status, NEW k \in Nat, NEW end,
               ChangeSubscription(s, status, k, end)
        PROVE  PeriodsAreNumbers'
    <3>1. \A x \in Subs : stripe'[x].period = IF x = s THEN k ELSE stripe[x].period
      BY <2>1 DEF ChangeSubscription, PromiseInv, PeriodsAreNumbers
    <3> QED  BY <2>1, <3>1 DEF ChangeSubscription, PromiseInv, PeriodsAreNumbers
  <2>2. CASE UNCHANGED stripe
    BY <2>2 DEF PromiseInv, PeriodsAreNumbers
  <2>3. ASSUME NEW s \in Subs, PayPeriod(s) PROVE PeriodsAreNumbers'
    <3>1. stripe[s].period + 1 \in Nat
      BY DEF PromiseInv, PeriodsAreNumbers
    <3> QED  BY <2>1, <2>3, <3>1 DEF PayPeriod
  <2>4. ASSUME NEW s \in Subs, LapseSubscription(s) \/ CancelSubscription(s)
        PROVE  PeriodsAreNumbers'
    <3>1. stripe[s].period \in Nat
      BY DEF PromiseInv, PeriodsAreNumbers
    <3> QED  BY <2>1, <2>4, <3>1 DEF LapseSubscription, CancelSubscription
  <2> QED  BY <2>2, <2>3, <2>4 DEF StripeStep, CompleteCheckout, PayProration
<1>6. /\ GrantsAreRows' /\ DOMAIN handler' = Handlers
      /\ \A h \in Handlers : DOMAIN handler'[h] = DOMAIN Free
      /\ OnItsPath'
  BY <1>2 DEF PromiseInv, GrantsAreRows, OnItsPath, At, Kind
<1> QED  BY <1>3, <1>4, <1>5, <1>6 DEF PromiseInv

(* A handler moves, and whatever it will insert has been paid for. *)
LEMMA MoveKeepsPromise ==
    ASSUME PromiseInv, NEW h \in Handlers, NEW to,
           handler' = [handler EXCEPT ![h] = to], DOMAIN to = DOMAIN Free,
           GrantsAreRows', UNCHANGED stripeVars,
           to.pc = "topup" => to.event.kind = "checkout.session.completed",
           to.pc \in InvoicePCs => to.event.kind = "invoice.paid",
           to.pc = "syncing" => to.event.kind = "customer.subscription.updated",
           to.pc # "free" => to.event \in events,
           to.pc \in Inserting => EarnsCredits(to.event)
    PROVE  PromiseInv'
<1> USE DEF PromiseInv
<1>1. /\ handler'[h] = to /\ \A k \in Handlers : k # h => handler'[k] = handler[k]
      /\ DOMAIN handler' = Handlers
  OBVIOUS
<1>2. \A k \in Handlers : DOMAIN handler'[k] = DOMAIN Free
  BY <1>1
<1>3. OnItsPath'
  BY <1>1 DEF OnItsPath, At, Kind
<1>4. HandsHoldPayments'
  <2> SUFFICES ASSUME NEW k \in Handlers
               PROVE  /\ handler'[k].pc # "free" => handler'[k].event \in events
                      /\ handler'[k].pc \in Inserting => EarnsCredits(handler'[k].event)
      BY DEF HandsHoldPayments, At, EarnsCredits, IsRenewal, stripeVars
  <2>1. CASE k = h
    BY <1>1, <2>1
  <2>2. CASE k # h
    BY <1>1, <2>2 DEF HandsHoldPayments, At
  <2> QED  BY <2>1, <2>2
<1>5. EventsNamePayments' /\ PeriodsAreNumbers'
  BY DEF EventsNamePayments, PeriodsAreNumbers, stripeVars, EarnsCredits, IsRenewal
<1> QED  BY <1>1, <1>2, <1>3, <1>4, <1>5

(* A step that inserts nothing leaves the promise as it was. *)
LEMMA NoInsertStutters ==
    ASSUME UNCHANGED <<grants, events>> PROVE UNCHANGED Promise!paymentVars
BY DEF Promise!paymentVars, PaidFor, TimesCredited, Granted

LEMMA PaidForHolds ==
    ASSUME PromiseInv, NEW h \in Handlers, handler[h].pc \in Inserting
    PROVE  handler[h].event.ref \in PaidFor /\ handler[h].event.ref \in Payments
<1>1. handler[h].event \in events /\ EarnsCredits(handler[h].event)
  BY DEF PromiseInv, HandsHoldPayments, At, Inserting, InvoicePCs
<1> QED  BY <1>1 DEF PaidFor, PromiseInv, EventsNamePayments

(* The two inserts. *)
LEMMA TopupKeepsPromise ==
    ASSUME PromiseInv, NEW h \in Handlers, GrantTopup(h)
    PROVE  PromiseInv' /\ [Promise!PaymentNext]_Promise!paymentVars
<1> DEFINE p == handler[h].event.ref  rows == <<TopupRow(p)>>
<1>1. /\ InsertUnique(p, rows) /\ HandlerTo(h, "done") /\ handler[h].pc = "topup"
      /\ UNCHANGED stripeVars
  BY DEF GrantTopup, TopupRow, At
<1>2. p \in PaidFor /\ p \in Payments
  BY <1>1, PaidForHolds DEF Inserting
<1>3. TopupRow(p).ref = p
  BY DEF TopupRow, Grant
<1>4. rows \in Seq({TopupRow(p)}) /\ Len(rows) = 1 /\ rows[1] = TopupRow(p)
  BY OneTuple
<1> HIDE DEF rows
<1>5. 1 \in 1..Len(rows) /\ NamesOnly(rows, 1, p)
  BY <1>3, <1>4 DEF NamesOnly
<1>6. [Promise!PaymentNext]_Promise!paymentVars
  BY <1>1, <1>2, <1>4, <1>5, InsertKeepsPromise DEF PromiseInv, stripeVars
<1>7. GrantsAreRows'
  BY <1>1, <1>3, <1>4, <1>5, InsertUniqueCredits DEF PromiseInv
<1> DEFINE to == [handler[h] EXCEPT !.pc = "done"]
<1>8. /\ handler' = [handler EXCEPT ![h] = to] /\ DOMAIN to = DOMAIN Free
      /\ to.pc = "done" /\ to.event = handler[h].event /\ to.event \in events
  BY <1>1 DEF HandlerTo, PromiseInv, HandsHoldPayments, At, Free
<1> HIDE DEF to
<1>9. PromiseInv'
  BY <1>1, <1>7, <1>8, MoveKeepsPromise DEF InvoicePCs, Inserting
<1> QED  BY <1>6, <1>9

LEMMA RenewalKeepsPromise ==
    ASSUME PromiseInv, NEW h \in Handlers, CommitRenewal(h)
    PROVE  PromiseInv' /\ [Promise!PaymentNext]_Promise!paymentVars
<1> DEFINE p == handler[h].event.ref  rows == RenewalRows(h)
<1>1. /\ InsertUnique(p, rows) /\ HandlerTo(h, "done") /\ handler[h].pc = "measured"
      /\ UNCHANGED stripeVars
  BY DEF CommitRenewal, At
<1>2. p \in PaidFor /\ p \in Payments
  BY <1>1, PaidForHolds DEF Inserting, InvoicePCs
<1>3. AreRenewalRows(rows, p, seatBonusOf(h) > 0)
  BY RenewalRowsAre
<1> HIDE DEF rows
<1>4. PICK T, k : /\ rows \in Seq(T) /\ k \in 1..Len(rows) /\ rows[k].bucket = "plan"
                  /\ rows[k].ref = p
  BY <1>3 DEF AreRenewalRows
<1>5. NamesOnly(rows, k, p)
  BY <1>3, <1>4, PaymentsAreRefs DEF AreRenewalRows, NamesOnly
<1>6. [Promise!PaymentNext]_Promise!paymentVars
  BY <1>1, <1>2, <1>4, <1>5, InsertKeepsPromise DEF PromiseInv, stripeVars
<1>7. GrantsAreRows'
  BY <1>1, <1>4, InsertUniqueCredits DEF PromiseInv
<1> DEFINE to == [handler[h] EXCEPT !.pc = "done"]
<1>8. /\ handler' = [handler EXCEPT ![h] = to] /\ DOMAIN to = DOMAIN Free
      /\ to.pc = "done" /\ to.event = handler[h].event /\ to.event \in events
  BY <1>1 DEF HandlerTo, PromiseInv, HandsHoldPayments, At, Free
<1> HIDE DEF to
<1>9. PromiseInv'
  BY <1>1, <1>7, <1>8, MoveKeepsPromise DEF InvoicePCs, Inserting
<1> QED  BY <1>6, <1>9

(* A handler that only changes its program counter, on the way it is on. *)
LEMMA HandlerToKeepsPromise ==
    ASSUME PromiseInv, NEW h \in Handlers, NEW pc, HandlerTo(h, pc),
           UNCHANGED <<grants, stripeVars>>, ~At(h, "free"),
           pc = "topup" => Kind(h) = "checkout.session.completed",
           pc \in InvoicePCs => Kind(h) = "invoice.paid",
           pc # "syncing",
           pc \in Inserting => EarnsCredits(handler[h].event)
    PROVE  PromiseInv'
<1> DEFINE to == [handler[h] EXCEPT !.pc = pc]
<1>1. /\ handler' = [handler EXCEPT ![h] = to] /\ GrantsAreRows'
      /\ DOMAIN to = DOMAIN Free /\ to.pc = pc /\ to.event = handler[h].event
      /\ handler[h].event \in events
  BY DEF HandlerTo, PromiseInv, HandsHoldPayments, Free, GrantsAreRows
<1> HIDE DEF to
<1> QED  BY <1>1, MoveKeepsPromise DEF Kind

LEMMA FreedKeepsPromise ==
    ASSUME PromiseInv, NEW h \in Handlers, handler' = [handler EXCEPT ![h] = Free],
           UNCHANGED <<grants, stripeVars>>
    PROVE  PromiseInv'
<1>1. Free.pc = "free" /\ GrantsAreRows'
  BY DEF Free, PromiseInv, GrantsAreRows
<1> QED  BY <1>1, MoveKeepsPromise DEF InvoicePCs, Inserting

(* Any other move of a handler. *)
LEMMA QuietHandlerKeepsPromise ==
    ASSUME PromiseInv, NEW h \in Handlers,
           \/ CheckSession(h) \/ FindSubscription(h) \/ CheckInvoice(h) \/ MeasureRollover(h)
           \/ FindExisting(h) \/ SaveSubscription(h) \/ MarkCanceled(h) \/ Acknowledge(h)
           \/ FailHandler(h) \/ \E e \in events : Deliver(h, e)
    PROVE  PromiseInv' /\ UNCHANGED <<grants, events>>
<1>1. UNCHANGED <<grants, stripeVars, events>>
  BY DEF CheckSession, FindSubscription, CheckInvoice, MeasureRollover, FindExisting,
         SaveSubscription, MarkCanceled, Acknowledge, FailHandler, Deliver, ledgerVars, stripeVars
<1>2. GrantsAreRows'
  BY <1>1 DEF PromiseInv, GrantsAreRows
<1>3. CASE CheckSession(h)
  <2>1. PICK pc : /\ HandlerTo(h, pc) /\ pc \in {"topup", "done"}
                  /\ pc = "topup" => handler[h].event.paid
    BY <1>3 DEF CheckSession
  <2>2. Kind(h) = "checkout.session.completed" /\ ~At(h, "free")
    BY <1>3 DEF CheckSession, At
  <2> QED  BY <1>1, <2>1, <2>2, HandlerToKeepsPromise DEF InvoicePCs, Inserting, EarnsCredits, Kind
<1>4. CASE FindSubscription(h)
  <2>0. ~At(h, "free") /\ Kind(h) = "invoice.paid"
    BY <1>4 DEF FindSubscription, At
  <2>1. CASE HandlerTo(h, "done")
    BY <1>1, <2>0, <2>1, HandlerToKeepsPromise DEF InvoicePCs, Inserting
  <2>2. CASE IsRenewal(handler[h].event)
             /\ handler' = [handler EXCEPT ![h].pc = "found", ![h].row = subscription]
    <3> DEFINE to == [handler[h] EXCEPT !.pc = "found", !.row = subscription]
    <3>1. /\ handler' = [handler EXCEPT ![h] = to] /\ DOMAIN to = DOMAIN Free
          /\ to.pc = "found" /\ to.event = handler[h].event /\ to.event \in events
          /\ to.event.kind = "invoice.paid"
      BY <2>0, <2>2 DEF PromiseInv, HandsHoldPayments, Free, Kind
    <3>2. EarnsCredits(to.event)
      BY <2>2, <3>1 DEF EarnsCredits
    <3> HIDE DEF to
    <3> QED  BY <1>1, <1>2, <3>1, <3>2, MoveKeepsPromise
  <2>3. CASE UnknownSubscription(h)
    BY <1>1, <2>3, FreedKeepsPromise DEF UnknownSubscription
  <2> QED  BY <1>1, <1>4, <2>1, <2>2, <2>3 DEF FindSubscription
<1>5. CASE CheckInvoice(h)
  <2>1. /\ ~At(h, "free") /\ Kind(h) = "invoice.paid" /\ EarnsCredits(handler[h].event)
    BY <1>5 DEF CheckInvoice, PromiseInv, HandsHoldPayments, OnItsPath, At, InvoicePCs, Inserting
  <2>2. PICK pc \in {"done", "unapplied"} : HandlerTo(h, pc)
    BY <1>5 DEF CheckInvoice
  <2> QED  BY <1>1, <2>1, <2>2, HandlerToKeepsPromise
<1>6. CASE MeasureRollover(h)
  <2>1. /\ ~At(h, "free") /\ Kind(h) = "invoice.paid" /\ EarnsCredits(handler[h].event)
    BY <1>6 DEF MeasureRollover, PromiseInv, HandsHoldPayments, OnItsPath, At, InvoicePCs,
                Inserting
  <2>2. PICK seats, credits :
          handler' = [handler EXCEPT ![h].pc = "measured", ![h].seats = seats,
                                     ![h].rolledOver = credits]
    BY <1>6 DEF MeasureRollover
  <2> DEFINE to == [handler[h] EXCEPT !.pc = "measured", !.seats = seats, !.rolledOver = credits]
  <2>3. /\ handler' = [handler EXCEPT ![h] = to] /\ DOMAIN to = DOMAIN Free
        /\ to.pc = "measured" /\ to.event = handler[h].event /\ to.event \in events
    BY <2>1, <2>2 DEF PromiseInv, HandsHoldPayments, Free
  <2> HIDE DEF to
  <2> QED  BY <1>1, <1>2, <2>1, <2>3, MoveKeepsPromise DEF Kind
<1>7. CASE FindExisting(h)
  <2>1. PICK row : handler' = [handler EXCEPT ![h].pc = "syncing", ![h].row = row]
    BY <1>7 DEF FindExisting
  <2> DEFINE to == [handler[h] EXCEPT !.pc = "syncing", !.row = row]
  <2>2. /\ handler' = [handler EXCEPT ![h] = to] /\ DOMAIN to = DOMAIN Free
        /\ to.pc = "syncing" /\ to.event \in events
        /\ to.event.kind = "customer.subscription.updated"
    BY <1>7, <2>1 DEF FindExisting, PromiseInv, HandsHoldPayments, Free, Kind, At
  <2> HIDE DEF to
  <2> QED  BY <1>1, <1>2, <2>2, MoveKeepsPromise DEF InvoicePCs, Inserting
<1>8. CASE SaveSubscription(h)
  <2>1. ~At(h, "free") /\ (handler' = [handler EXCEPT ![h] = Free] \/ HandlerTo(h, "done"))
    BY <1>8 DEF SaveSubscription, At
  <2> QED  BY <1>1, <2>1, FreedKeepsPromise, HandlerToKeepsPromise DEF InvoicePCs, Inserting
<1>9. CASE MarkCanceled(h)
  <2>1. ~At(h, "free") /\ HandlerTo(h, "done")
    BY <1>9 DEF MarkCanceled, At
  <2> QED  BY <1>1, <2>1, HandlerToKeepsPromise DEF InvoicePCs, Inserting
<1>10. CASE Acknowledge(h) \/ FailHandler(h)
  BY <1>1, <1>10, FreedKeepsPromise DEF Acknowledge, FailHandler
<1>11. ASSUME NEW e \in events, Deliver(h, e) PROVE PromiseInv'
  <2> DEFINE to == [Free EXCEPT !.pc = "received", !.event = e]
  <2>1. /\ handler' = [handler EXCEPT ![h] = to] /\ DOMAIN to = DOMAIN Free
        /\ to.pc = "received" /\ to.event = e
    BY <1>11 DEF Deliver, Free
  <2> HIDE DEF to
  <2> QED  BY <1>1, <1>2, <2>1, MoveKeepsPromise DEF InvoicePCs, Inserting
<1> QED  BY <1>1, <1>3, <1>4, <1>5, <1>6, <1>7, <1>8, <1>9, <1>10, <1>11

LEMMA InitKeepsPromise == BillingInit => PromiseInv /\ Promise!PaymentInit
<1> SUFFICES ASSUME BillingInit PROVE PromiseInv /\ Promise!PaymentInit
    OBVIOUS
<1>1. /\ grants = <<>> /\ events = {} /\ DOMAIN handler = Handlers
      /\ \A h \in Handlers : handler[h] = Free /\ handler[h].pc = "free"
      /\ DOMAIN stripe = Subs /\ \A s \in Subs : stripe[s].period = 0
  BY DEF BillingInit, LedgerInit, Free
<1>2. PromiseInv
  BY <1>1 DEF PromiseInv, GrantsAreRows, OnItsPath, HandsHoldPayments, EventsNamePayments,
              PeriodsAreNumbers, At, InvoicePCs, Inserting
<1>3. PaidFor = {}
  BY <1>1 DEF PaidFor
<1>4. \A p \in Payments : {g \in Granted : grants[g].ref = p} = {}
  BY <1>1 DEF Granted
<1>5. TimesCredited = [p \in Payments |-> 0]
  BY <1>4, FS_EmptySet DEF TimesCredited
<1> QED  BY <1>2, <1>3, <1>5 DEF Promise!PaymentInit

LEMMA NextKeepsPromise ==
    ASSUME PromiseInv, [BillingNext]_billingVars
    PROVE  PromiseInv' /\ [Promise!PaymentNext]_Promise!paymentVars
<1>1. CASE StripeStep
  BY <1>1, StripeKeepsPromise
<1>2. ASSUME NEW h \in Handlers, GrantTopup(h)
      PROVE  PromiseInv' /\ [Promise!PaymentNext]_Promise!paymentVars
  BY <1>2, TopupKeepsPromise
<1>3. ASSUME NEW h \in Handlers, CommitRenewal(h)
      PROVE  PromiseInv' /\ [Promise!PaymentNext]_Promise!paymentVars
  BY <1>3, RenewalKeepsPromise
<1>4. ASSUME NEW h \in Handlers,
             \/ CheckSession(h) \/ FindSubscription(h) \/ CheckInvoice(h) \/ MeasureRollover(h)
             \/ FindExisting(h) \/ SaveSubscription(h) \/ MarkCanceled(h) \/ Acknowledge(h)
             \/ FailHandler(h) \/ \E e \in events : Deliver(h, e)
      PROVE  PromiseInv' /\ [Promise!PaymentNext]_Promise!paymentVars
  BY <1>4, QuietHandlerKeepsPromise, NoInsertStutters
<1>5. ASSUME UNCHANGED <<grants, handler, stripeVars>>
      PROVE  PromiseInv' /\ [Promise!PaymentNext]_Promise!paymentVars
  <2>1. PromiseInv'
    BY <1>5 DEF PromiseInv, GrantsAreRows, OnItsPath, HandsHoldPayments, EventsNamePayments,
                PeriodsAreNumbers, At, Kind, EarnsCredits, IsRenewal, stripeVars
  <2> QED  BY <1>5, <2>1, NoInsertStutters DEF stripeVars
<1>6. CASE (Tick \/ \E r \in Runs : RunStep(r)) /\ UNCHANGED <<stripeVars, webhookVars>>
  BY <1>5, <1>6 DEF Tick, RunStep, Admit, Refuse, EndUnmetered, RecordEvent, ReadLiveGrants,
                    SaveAllocations, LoseRun, webhookVars
<1>7. CASE UNCHANGED billingVars
  BY <1>5, <1>7 DEF billingVars, ledgerVars, webhookVars
<1> QED  BY <1>1, <1>2, <1>3, <1>4, <1>6, <1>7 DEF BillingNext, HandlerStep

(* The webhook implements the promise of PaymentCredits: with any number of
   deliveries of an event, lost, repeated, overtaking one another and dying
   between any two queries, a payment is credited at most once, and only if
   the customer made it. *)
THEOREM BillingKeepsPromise == BillingSpec => CreditsAtMostOnce
<1>1. BillingInit => Promise!PaymentInit
  BY InitKeepsPromise
<1>2. BillingInit => PromiseInv
  BY InitKeepsPromise
<1>3. PromiseInv /\ [BillingNext]_billingVars => PromiseInv'
  BY NextKeepsPromise
<1>4. PromiseInv /\ [BillingNext]_billingVars => [Promise!PaymentNext]_Promise!paymentVars
  BY NextKeepsPromise
<1> QED  BY <1>1, <1>2, <1>3, <1>4, PTL DEF BillingSpec, CreditsAtMostOnce, Promise!PaymentSpec

----------------------------------------------------------------------------
(***************************************************************************)
(* A renewal's grants stand or fall together.  The table is compared with  *)
(* itself: each insert under the invoice's index adds one plan grant, at   *)
(* most one rollover, and a bonus exactly if the seats the handler counted *)
(* earn one, so the counts move together or not at all.  The handler must  *)
(* still hold a count of seats when it inserts (SeatsWereCounted).         *)
(***************************************************************************)
CountOf(bucket) == Cardinality(InBucket(bucket))

(* Every team is above the free seats, and the bonus is not capped at none. *)
SeatBonusIsEarned ==
    \A n \in SeatCounts : seatBonusFor(n, FREE_SEATS, SEAT_BONUS_CREDITS, SEAT_BONUS_CAP) > 0

SeatsWereCounted == \A h \in Handlers : At(h, "measured") => handler[h].seats \in SeatCounts

(* Whatever the seats, no plan allowance has two bonuses or two rollovers. *)
OneOfEachAtMost ==
    /\ CountOf("reward") <= CountOf("plan")
    /\ CountOf("rollover") <= CountOf("plan")

WholeInv ==
    /\ GrantsAreRows
    /\ DOMAIN handler = Handlers
    /\ \A h \in Handlers : DOMAIN handler[h] = DOMAIN Free
    /\ SeatsWereCounted
    /\ OneOfEachAtMost
    /\ SeatBonusIsEarned => CountOf("reward") = CountOf("plan")

LEMMA BucketsAreFinite ==
    ASSUME GrantsAreRows, NEW b
    PROVE  IsFiniteSet(InBucket(b)) /\ CountOf(b) \in Nat
<1>1. Len(grants) \in Nat
  BY DEF GrantsAreRows
<1>2. IsFiniteSet(1..Len(grants))
  BY <1>1, FS_Interval
<1>3. InBucket(b) \in SUBSET (1..Len(grants))
  BY DEF InBucket, Granted
<1>4. IsFiniteSet(InBucket(b))
  BY <1>2, <1>3, FS_Subset
<1> QED  BY <1>4, FS_CardinalityType DEF CountOf

(* Appending rows of which at most one is in a bucket adds that one. *)
LEMMA AppendCounts ==
    ASSUME GrantsAreRows, NEW T, NEW rows \in Seq(T), grants' = grants \o rows, NEW b,
           \A k, l \in 1..Len(rows) : rows[k].bucket = b /\ rows[l].bucket = b => k = l
    PROVE  CountOf(b)' = IF \E k \in 1..Len(rows) : rows[k].bucket = b
                         THEN CountOf(b) + 1 ELSE CountOf(b)
<1>1. PICK S : grants \in Seq(S)
  BY DEF GrantsAreRows
<1>2. grants \in Seq(S \cup T) /\ rows \in Seq(S \cup T)
  BY <1>1
<1>3. /\ Len(grants') = Len(grants) + Len(rows)
      /\ Len(grants) \in Nat /\ Len(rows) \in Nat
      /\ \A j \in 1..Len(grants) : grants'[j] = grants[j]
      /\ \A j \in 1..Len(rows) : grants'[Len(grants) + j] = rows[j]
  BY <1>2
<1>4. ASSUME NEW g \in InBucket(b)'
      PROVE  \/ g \in InBucket(b)
             \/ \E k \in 1..Len(rows) : g = Len(grants) + k /\ rows[k].bucket = b
  <2>1. g \in 1..(Len(grants) + Len(rows)) /\ grants'[g].bucket = b
    BY <1>3 DEF InBucket, Granted
  <2>2. CASE g \in 1..Len(grants)
    BY <1>3, <2>1, <2>2 DEF InBucket, Granted
  <2>3. CASE g \notin 1..Len(grants)
    <3>1. g - Len(grants) \in 1..Len(rows) /\ g = Len(grants) + (g - Len(grants))
      BY <1>3, <2>1, <2>3
    <3>2. rows[g - Len(grants)].bucket = b
      BY <1>3, <2>1, <3>1
    <3> QED  BY <3>1, <3>2
  <2> QED  BY <2>2, <2>3
<1>5. ASSUME NEW g \in InBucket(b) PROVE g \in InBucket(b)' /\ g \in 1..Len(grants)
  BY <1>3 DEF InBucket, Granted
<1>6. CASE \E k \in 1..Len(rows) : rows[k].bucket = b
  <2>1. PICK k \in 1..Len(rows) : rows[k].bucket = b
    BY <1>6
  <2>2. Len(grants) + k \in InBucket(b)' /\ Len(grants) + k \notin InBucket(b)
    <3>1. Len(grants) + k \in 1..(Len(grants) + Len(rows)) /\ Len(grants) + k \notin 1..Len(grants)
      BY <1>3
    <3>2. grants'[Len(grants) + k].bucket = b
      BY <1>3, <2>1
    <3> QED  BY <1>3, <1>5, <3>1, <3>2 DEF InBucket, Granted
  <2>3. InBucket(b)' = InBucket(b) \cup {Len(grants) + k}
    BY <1>4, <1>5, <2>1, <2>2
  <2>4. IsFiniteSet(InBucket(b))
    BY BucketsAreFinite
  <2> QED  BY <1>6, <2>2, <2>3, <2>4, FS_AddElement DEF CountOf
<1>7. CASE ~\E k \in 1..Len(rows) : rows[k].bucket = b
  <2>1. InBucket(b)' = InBucket(b)
    BY <1>4, <1>5, <1>7
  <2> QED  BY <1>7, <2>1 DEF CountOf
<1> QED  BY <1>6, <1>7

(* Steps that insert nothing and count no seats. *)
LEMMA QuietStaysWhole ==
    ASSUME WholeInv, UNCHANGED grants, DOMAIN handler' = Handlers,
           \A h \in Handlers : DOMAIN handler'[h] = DOMAIN Free, SeatsWereCounted'
    PROVE  WholeInv'
BY DEF WholeInv, GrantsAreRows, OneOfEachAtMost, CountOf, InBucket, Granted

(* A handler that moves, and has counted the seats if it is going to insert. *)
LEMMA MoveStaysWhole ==
    ASSUME WholeInv, NEW h \in Handlers, NEW to,
           handler' = [handler EXCEPT ![h] = to], DOMAIN to = DOMAIN Free,
           to.pc = "measured" => to.seats \in SeatCounts
    PROVE  /\ DOMAIN handler' = Handlers
           /\ \A k \in Handlers : DOMAIN handler'[k] = DOMAIN Free
           /\ SeatsWereCounted'
<1>1. /\ handler'[h] = to /\ \A k \in Handlers : k # h => handler'[k] = handler[k]
      /\ DOMAIN handler' = Handlers
  BY DEF WholeInv
<1>2. \A k \in Handlers : DOMAIN handler'[k] = DOMAIN Free
  BY <1>1 DEF WholeInv
<1> QED  BY <1>1, <1>2 DEF WholeInv, SeatsWereCounted, At

LEMMA HandlerToStaysWhole ==
    ASSUME WholeInv, NEW h \in Handlers, NEW pc, HandlerTo(h, pc), pc # "measured"
    PROVE  /\ DOMAIN handler' = Handlers
           /\ \A k \in Handlers : DOMAIN handler'[k] = DOMAIN Free
           /\ SeatsWereCounted'
<1> DEFINE to == [handler[h] EXCEPT !.pc = pc]
<1>1. handler' = [handler EXCEPT ![h] = to] /\ DOMAIN to = DOMAIN Free /\ to.pc = pc
  BY DEF HandlerTo, WholeInv, Free
<1> HIDE DEF to
<1> QED  BY <1>1, MoveStaysWhole

LEMMA TopupStaysWhole ==
    ASSUME WholeInv, NEW h \in Handlers, GrantTopup(h)
    PROVE  WholeInv'
<1> DEFINE p == handler[h].event.ref  rows == <<TopupRow(p)>>
<1>1. InsertUnique(p, rows) /\ HandlerTo(h, "done")
  BY DEF GrantTopup, TopupRow
<1>2. /\ DOMAIN handler' = Handlers /\ SeatsWereCounted'
      /\ \A k \in Handlers : DOMAIN handler'[k] = DOMAIN Free
  BY <1>1, HandlerToStaysWhole
<1>3. CASE UNCHANGED grants
  BY <1>2, <1>3, QuietStaysWhole
<1>4. CASE grants' = grants \o rows
  <2>1. TopupRow(p).bucket = "topup" /\ TopupRow(p).ref = p
    BY DEF TopupRow, Grant, bucketForReason
  <2>2. rows \in Seq({TopupRow(p)}) /\ Len(rows) = 1 /\ rows[1] = TopupRow(p)
    BY OneTuple
  <2> HIDE DEF rows
  <2>3. \A k \in 1..Len(rows) : rows[k].bucket = "topup"
    BY <2>1, <2>2
  <2>4. /\ CountOf("plan")' = CountOf("plan")
        /\ CountOf("reward")' = CountOf("reward")
        /\ CountOf("rollover")' = CountOf("rollover")
    <3>1. ASSUME NEW b, b # "topup" PROVE CountOf(b)' = CountOf(b)
      BY <1>4, <2>2, <2>3, <3>1, AppendCounts, SMTT(40) DEF WholeInv
    <3> QED  BY <3>1
  <2>5. GrantsAreRows'
    BY <1>4, <2>2, AppendKeepsGrants DEF WholeInv
  <2> QED  BY <1>2, <2>4, <2>5 DEF WholeInv, OneOfEachAtMost
<1> QED  BY <1>1, <1>3, <1>4 DEF InsertUnique, InsertGrants

LEMMA RenewalStaysWhole ==
    ASSUME WholeInv, NEW h \in Handlers, CommitRenewal(h)
    PROVE  WholeInv'
<1> DEFINE p == handler[h].event.ref  rows == RenewalRows(h)
<1>1. InsertUnique(p, rows) /\ HandlerTo(h, "done") /\ handler[h].seats \in SeatCounts
  BY DEF CommitRenewal, WholeInv, SeatsWereCounted
<1>2. /\ DOMAIN handler' = Handlers /\ SeatsWereCounted'
      /\ \A k \in Handlers : DOMAIN handler'[k] = DOMAIN Free
  BY <1>1, HandlerToStaysWhole
<1>3. CASE UNCHANGED grants
  BY <1>2, <1>3, QuietStaysWhole
<1>4. CASE grants' = grants \o rows
  <2>1. AreRenewalRows(rows, p, seatBonusOf(h) > 0)
    BY RenewalRowsAre
  <2> HIDE DEF rows
  <2>2. PICK T : rows \in Seq(T)
    BY <2>1 DEF AreRenewalRows
  <2>3. ASSUME NEW b
        PROVE  CountOf(b)' = IF \E k \in 1..Len(rows) : rows[k].bucket = b
                             THEN CountOf(b) + 1 ELSE CountOf(b)
    <3>1. \A k, l \in 1..Len(rows) : rows[k].bucket = b /\ rows[l].bucket = b => k = l
      BY <2>1 DEF AreRenewalRows
    <3> QED  BY <1>4, <2>2, <3>1, AppendCounts DEF WholeInv
  <2>4. CountOf("plan")' = CountOf("plan") + 1
    BY <2>1, <2>3 DEF AreRenewalRows
  <2>5. CountOf("reward")' \in {CountOf("reward"), CountOf("reward") + 1}
    BY <2>3
  <2>6. CountOf("rollover")' \in {CountOf("rollover"), CountOf("rollover") + 1}
    BY <2>3
  <2>7. SeatBonusIsEarned => CountOf("reward")' = CountOf("reward") + 1
    <3>1. SeatBonusIsEarned => seatBonusOf(h) > 0
      BY <1>1 DEF SeatBonusIsEarned, seatBonusOf
    <3>2. SeatBonusIsEarned => \E k \in 1..Len(rows) : rows[k].bucket = "reward"
      BY <2>1, <3>1 DEF AreRenewalRows
    <3> QED  BY <2>3, <3>2
  <2>8. CountOf("plan") \in Nat /\ CountOf("reward") \in Nat /\ CountOf("rollover") \in Nat
    BY BucketsAreFinite DEF WholeInv
  <2>9. GrantsAreRows'
    BY <1>4, <2>2, AppendKeepsGrants DEF WholeInv
  <2>10. OneOfEachAtMost'
    BY <2>4, <2>5, <2>6, <2>8 DEF WholeInv, OneOfEachAtMost
  <2>11. SeatBonusIsEarned => CountOf("reward")' = CountOf("plan")'
    BY <2>4, <2>7 DEF WholeInv
  <2> QED  BY <1>2, <2>9, <2>10, <2>11 DEF WholeInv, SeatBonusIsEarned
<1> QED  BY <1>1, <1>3, <1>4 DEF InsertUnique, InsertGrants

LEMMA InitIsWhole == BillingInit => WholeInv
<1> SUFFICES ASSUME BillingInit PROVE WholeInv
    OBVIOUS
<1>1. /\ grants = <<>> /\ DOMAIN handler = Handlers
      /\ \A h \in Handlers : handler[h] = Free /\ handler[h].pc = "free"
  BY DEF BillingInit, LedgerInit, Free
<1>2. \A b : InBucket(b) = {}
  BY <1>1 DEF InBucket, Granted
<1>3. \A b : CountOf(b) = 0
  BY <1>2, FS_EmptySet DEF CountOf
<1> QED  BY <1>1, <1>3 DEF WholeInv, GrantsAreRows, SeatsWereCounted, OneOfEachAtMost, At

LEMMA NextStaysWhole ==
    ASSUME WholeInv, [BillingNext]_billingVars
    PROVE  WholeInv'
<1>1. ASSUME UNCHANGED <<grants, handler>> PROVE WholeInv'
  BY <1>1, QuietStaysWhole DEF WholeInv, SeatsWereCounted, At
<1>2. ASSUME NEW h \in Handlers, NEW to, handler' = [handler EXCEPT ![h] = to],
             DOMAIN to = DOMAIN Free, to.pc = "measured" => to.seats \in SeatCounts,
             UNCHANGED grants
      PROVE  WholeInv'
  BY <1>2, MoveStaysWhole, QuietStaysWhole
<1>3. ASSUME NEW h \in Handlers, NEW pc, HandlerTo(h, pc), pc # "measured", UNCHANGED grants
      PROVE  WholeInv'
  BY <1>3, HandlerToStaysWhole, QuietStaysWhole
<1>4. ASSUME NEW h \in Handlers, handler' = [handler EXCEPT ![h] = Free], UNCHANGED grants
      PROVE  WholeInv'
  <2>1. Free.pc = "free"
    BY DEF Free
  <2> QED  BY <1>2, <1>4, <2>1
<1>5. CASE StripeStep
  <2>1. UNCHANGED <<grants, handler>>
    BY <1>5 DEF StripeStep, CompleteCheckout, PayPeriod, PayProration, LapseSubscription,
                CancelSubscription, ledgerVars, webhookVars
  <2> QED  BY <1>1, <2>1
<1>6. ASSUME NEW h \in Handlers, NEW e \in events, Deliver(h, e) PROVE WholeInv'
  <2> DEFINE to == [Free EXCEPT !.pc = "received", !.event = e]
  <2>1. /\ handler' = [handler EXCEPT ![h] = to] /\ UNCHANGED grants
        /\ DOMAIN to = DOMAIN Free /\ to.pc = "received"
    BY <1>6 DEF Deliver, Free, ledgerVars
  <2> HIDE DEF to
  <2> QED  BY <1>2, <2>1
<1>7. ASSUME NEW h \in Handlers, HandlerStep(h) PROVE WholeInv'
  <2>1. CASE CheckSession(h)
    BY <1>3, <2>1 DEF CheckSession, ledgerVars
  <2>2. CASE GrantTopup(h)
    BY <2>2, TopupStaysWhole
  <2>3. CASE FindSubscription(h)
    <3>0. UNCHANGED grants
      BY <2>3 DEF FindSubscription, ledgerVars
    <3>1. CASE HandlerTo(h, "done")
      BY <1>3, <3>0, <3>1
    <3>2. CASE handler' = [handler EXCEPT ![h].pc = "found", ![h].row = subscription]
      <4> DEFINE to == [handler[h] EXCEPT !.pc = "found", !.row = subscription]
      <4>1. handler' = [handler EXCEPT ![h] = to] /\ DOMAIN to = DOMAIN Free /\ to.pc = "found"
        BY <3>2 DEF WholeInv, Free
      <4> HIDE DEF to
      <4> QED  BY <1>2, <3>0, <4>1
    <3>3. CASE UnknownSubscription(h)
      BY <1>4, <3>0, <3>3 DEF UnknownSubscription
    <3> QED  BY <2>3, <3>1, <3>2, <3>3 DEF FindSubscription
  <2>4. CASE CheckInvoice(h)
    BY <1>3, <2>4 DEF CheckInvoice, ledgerVars
  <2>5. CASE MeasureRollover(h)
    <3>1. PICK seats, credits :
            /\ seats \in SeatCounts
            /\ handler' = [handler EXCEPT ![h].pc = "measured", ![h].seats = seats,
                                          ![h].rolledOver = credits]
      BY <2>5 DEF MeasureRollover
    <3> DEFINE to == [handler[h] EXCEPT !.pc = "measured", !.seats = seats,
                                        !.rolledOver = credits]
    <3>2. /\ handler' = [handler EXCEPT ![h] = to] /\ DOMAIN to = DOMAIN Free
          /\ to.seats = seats /\ UNCHANGED grants
      BY <2>5, <3>1 DEF WholeInv, Free, MeasureRollover, ledgerVars
    <3> HIDE DEF to
    <3> QED  BY <1>2, <3>1, <3>2
  <2>6. CASE CommitRenewal(h)
    BY <2>6, RenewalStaysWhole
  <2>7. CASE FindExisting(h)
    <3>1. PICK row : handler' = [handler EXCEPT ![h].pc = "syncing", ![h].row = row]
      BY <2>7 DEF FindExisting
    <3> DEFINE to == [handler[h] EXCEPT !.pc = "syncing", !.row = row]
    <3>2. /\ handler' = [handler EXCEPT ![h] = to] /\ DOMAIN to = DOMAIN Free
          /\ to.pc = "syncing" /\ UNCHANGED grants
      BY <2>7, <3>1 DEF WholeInv, Free, FindExisting, ledgerVars
    <3> HIDE DEF to
    <3> QED  BY <1>2, <3>2
  <2>8. CASE SaveSubscription(h)
    BY <1>3, <1>4, <2>8 DEF SaveSubscription, ledgerVars
  <2>9. CASE MarkCanceled(h)
    BY <1>3, <2>9 DEF MarkCanceled, ledgerVars
  <2>10. CASE Acknowledge(h)
    BY <1>4, <2>10 DEF Acknowledge, ledgerVars
  <2> QED  BY <1>7, <2>1, <2>2, <2>3, <2>4, <2>5, <2>6, <2>7, <2>8, <2>9, <2>10 DEF HandlerStep
<1>8. ASSUME NEW h \in Handlers, FailHandler(h) PROVE WholeInv'
  BY <1>4, <1>8 DEF FailHandler, ledgerVars
<1>9. CASE (Tick \/ \E r \in Runs : RunStep(r)) /\ UNCHANGED <<stripeVars, webhookVars>>
  <2>1. UNCHANGED <<grants, handler>>
    BY <1>9 DEF Tick, RunStep, Admit, Refuse, EndUnmetered, RecordEvent, ReadLiveGrants,
                SaveAllocations, LoseRun, webhookVars
  <2> QED  BY <1>1, <2>1
<1>10. CASE UNCHANGED billingVars
  BY <1>1, <1>10 DEF billingVars, ledgerVars, webhookVars
<1> QED  BY <1>5, <1>6, <1>7, <1>8, <1>9, <1>10 DEF BillingNext

(* The grants of one renewal stand or fall together (applyRenewal's
   transaction), for any number of deliveries, subscriptions and periods:
   where every team is above the free seats there is one bonus for each plan
   allowance, and never more rollovers than allowances. *)
THEOREM RenewalsAreWhole == BillingSpec => [](SeatBonusIsEarned => RenewalIsAtomic)
<1>1. WholeInv => (SeatBonusIsEarned => RenewalIsAtomic)
  BY DEF WholeInv, OneOfEachAtMost, RenewalIsAtomic, CountOf
<1> QED  BY InitIsWhole, NextStaysWhole, <1>1, PTL DEF BillingSpec

(* The same of any team: a plan allowance comes with at most one bonus and at
   most one rollover, however often the invoice is delivered. *)
THEOREM NoSecondBonus == BillingSpec => []OneOfEachAtMost
<1>1. WholeInv => OneOfEachAtMost
  BY DEF WholeInv
<1> QED  BY InitIsWhole, NextStaysWhole, <1>1, PTL DEF BillingSpec

----------------------------------------------------------------------------
(***************************************************************************)
(* The types.  What a handler inserts is a grant, because the event it     *)
(* holds is one Stripe emitted (EventsTyped) and what is left of the plan  *)
(* is no less than nothing (UnspentIsNat); so the ledger keeps LedgerInv.  *)
(***************************************************************************)
StripeRow == [status : StripeStatuses, period : 0..MaxPeriod, end : Nat, version : 0..MaxVersion]

StripeTyped ==
    /\ stripe \in [Subs -> StripeRow]
    /\ \A s \in Subs : stripe[s].status # "none" => stripe[s].period # 0

SubscriptionKinds == {"customer.subscription.updated", "customer.subscription.deleted"}

EventTyped(e) ==
    /\ e.kind = "checkout.session.completed" => e.ref \in Sessions
    /\ e.kind = "invoice.paid" => e.ref \in Invoices /\ e.end \in Nat
    /\ e.kind \in SubscriptionKinds => e.sub \in Subs /\ e.end \in Nat

HandlerTyped(w) ==
    /\ DOMAIN w = DOMAIN Free /\ w.pc \in HandlerPCs
    /\ w.event \in events \cup {NoEvent} /\ (w.pc # "free" => w.event \in events)
    /\ IsRowState(w.row) /\ w.rolledOver \in Nat /\ w.seats \in SeatCounts \cup {0}

WebhookTyped ==
    /\ \A e \in events : EventTyped(e)
    /\ acked \subseteq events
    /\ IsRowState(subscription)
    /\ DOMAIN handler = Handlers /\ \A h \in Handlers : HandlerTyped(handler[h])
    /\ failures \in 0..MaxFailures

BillingTyped ==
    /\ LedgerInv
    /\ DeliveryInv
    /\ StripeTyped
    /\ WebhookTyped

(* unspentPlanCredits is a number of credits. *)
LEMMA UnspentIsNat ==
    ASSUME LedgerTypeOK
    PROVE  unspentPlanCredits \in Nat
<1> DEFINE plan == {g \in Granted : grants[g].bucket = "plan" /\ IsLive(grants[g].expiresAt, now)}
           joined == [g \in plan |-> grants[g].credits * Greater(1, TimesDrawn(g))]
<1>1. /\ Granted \subseteq GrantIds /\ \A g \in Granted : grants[g].credits \in Nat
  BY GrantRowFields
<1>2. IsFiniteSet(plan) /\ plan \subseteq Granted
  <2>1. IsFiniteSet(GrantIds)
    BY BoundsAssumption, FS_Interval DEF GrantIds
  <2> QED  BY <1>1, <2>1, FS_Subset
<1>3. \A g \in plan : spent[g] \in Nat
  BY <1>1 DEF LedgerTypeOK
<1>4. ASSUME NEW g \in plan  PROVE joined[g] \in Nat
  <2>1. IsFiniteSet(Drawers(g))
    BY RunsAssumption, FS_Subset DEF Drawers
  <2>2. TimesDrawn(g) \in Nat
    BY <2>1, FS_CardinalityType DEF TimesDrawn
  <2>3. grants[g].credits \in Nat /\ Greater(1, TimesDrawn(g)) \in Nat
    BY <1>1, <2>2 DEF Greater
  <2> QED  BY <2>3
<1>5. DOMAIN joined = plan
  OBVIOUS
<1>6. unspentPlanCredits = Greater(0, SumFunction(joined) - SumFunctionOnSet(spent, plan))
  BY DEF unspentPlanCredits
<1> HIDE DEF joined, plan
<1>7. SumFunctionOnSet(joined, plan) \in Nat /\ SumFunctionOnSet(spent, plan) \in Nat
  BY <1>2, <1>3, <1>4, SumIsNat
<1> QED  BY <1>5, <1>6, <1>7 DEF SumFunction, Greater

LEMMA GrantIsRow ==
    ASSUME NEW bucket \in Buckets, NEW credits \in Nat, credits > 0, NEW expiresAt \in Nat,
           NEW ref \in Refs \cup {NoRef}
    PROVE  Grant(bucket, credits, expiresAt, ref) \in CreditGrant
BY DEF Grant, CreditGrant

(* What a renewal inserts are grants. *)
LEMMA RenewalRowsAreGrants ==
    ASSUME BillingTyped, NEW h \in Handlers, At(h, "measured")
    PROVE  RenewalRows(h) \in Seq(CreditGrant)
<1> DEFINE e == handler[h].event
           bonus == seatBonusFor(handler[h].seats, FREE_SEATS, SEAT_BONUS_CREDITS, SEAT_BONUS_CAP)
           g1 == Grant("rollover", handler[h].rolledOver, e.end, NoRef)
           g2 == Grant("plan", PlanCredits, e.end, e.ref)
           g3 == Grant("reward", bonus, Never, NoRef)
           s1 == IF handler[h].rolledOver > 0 THEN <<g1>> ELSE <<>>
           s3 == IF bonus > 0 THEN <<g3>> ELSE <<>>
<1>1. e.ref \in Invoices /\ e.end \in Nat
  <2>1. e.kind = "invoice.paid"
    BY DEF BillingTyped, DeliveryInv, OnItsPath, At, Kind, InvoicePCs
  <2>2. e \in events
    BY DEF BillingTyped, WebhookTyped, HandlerTyped, At
  <2> QED  BY <2>1, <2>2 DEF BillingTyped, WebhookTyped, EventTyped
<1>2. handler[h].rolledOver \in Nat /\ handler[h].seats \in Nat
  BY CountsAssumption DEF BillingTyped, WebhookTyped, HandlerTyped
<1>3. bonus \in Nat
  <2>1. Greater(0, handler[h].seats - FREE_SEATS) \in Nat /\ SEAT_BONUS_CREDITS \in Nat
        /\ SEAT_BONUS_CAP \in Nat
    BY <1>2, CountsAssumption DEF Greater
  <2>2. Greater(0, handler[h].seats - FREE_SEATS) * SEAT_BONUS_CREDITS \in Nat
    BY <2>1
  <2> QED  BY <2>1, <2>2 DEF seatBonusFor, Lesser
<1> DEFINE rows == RenewalRows(h)
<1>4. rows = s1 \o <<g2>> \o s3
  BY DEF RenewalRows
<1>5. g2 \in CreditGrant
  <2>1. e.ref \in Refs /\ PlanCredits \in Nat /\ PlanCredits > 0 /\ "plan" \in Buckets
    BY <1>1, RefsAssumption, SizesAssumption DEF Buckets
  <2> QED  BY <1>1, <2>1, GrantIsRow
<1>6. handler[h].rolledOver > 0 => g1 \in CreditGrant
  BY <1>1, <1>2, GrantIsRow DEF Buckets
<1>7. bonus > 0 => g3 \in CreditGrant
  <2> HIDE DEF bonus
  <2> QED  BY <1>3, GrantIsRow DEF Buckets, Never
<1> HIDE DEF g1, g2, g3, bonus, rows
<1>8. s1 \in Seq(CreditGrant) /\ s3 \in Seq(CreditGrant) /\ <<g2>> \in Seq(CreditGrant)
  <2>1. <<>> \in Seq(CreditGrant) /\ \A g \in CreditGrant : <<g>> \in Seq(CreditGrant)
    BY NoTuple, OneTuple
  <2> QED  BY <1>5, <1>6, <1>7, <2>1
<1> HIDE DEF s1, s3
<1>9. rows \in Seq(CreditGrant)
  BY <1>4, <1>8
<1> QED  BY <1>9 DEF rows

(* A renewal's, or a top-up's, insert keeps the ledger. *)
LEMMA InsertKeepsLedger ==
    ASSUME LedgerInv, NEW rows \in Seq(CreditGrant), NEW ref, InsertUnique(ref, rows),
           UNCHANGED <<now, spent, allocated, charge, run, overtaken>>
    PROVE  LedgerInv'
<1>1. CASE HasGrant(ref)
  BY <1>1 DEF InsertUnique, LedgerInv, LedgerTypeOK, SnapshotsNameGrants, SnapshotsWereLive,
              UngrantedIsUnspent, OverdrawNeedsOvertaking, NoOverdraw, Granted
<1>2. CASE ~HasGrant(ref)
  BY <1>2, InsertLedgerInv DEF InsertUnique
<1> QED  BY <1>1, <1>2

LEMMA LedgerStays ==
    ASSUME LedgerInv, UNCHANGED ledgerVars
    PROVE  LedgerInv'
BY DEF ledgerVars, LedgerInv, LedgerTypeOK, SnapshotsNameGrants, SnapshotsWereLive,
       UngrantedIsUnspent, OverdrawNeedsOvertaking, NoOverdraw, Granted

LEMMA BillingKeepsLedger ==
    ASSUME BillingTyped, [BillingNext]_billingVars
    PROVE  LedgerInv'
<1>0. LedgerInv
  BY DEF BillingTyped
<1>1. CASE UNCHANGED ledgerVars
  BY <1>0, <1>1, LedgerStays
<1>2. ASSUME NEW h \in Handlers, GrantTopup(h)  PROVE LedgerInv'
  <2> DEFINE ref == handler[h].event.ref
             row == Grant(bucketForReason("topup"), PackCredits, Never, ref)
  <2>1. /\ InsertUnique(ref, <<row>>) /\ UNCHANGED <<now, spent, allocated, charge, run, overtaken>>
    BY <1>2 DEF GrantTopup
  <2>2. ref \in Sessions
    <3>1. handler[h].event \in events /\ handler[h].event.kind = "checkout.session.completed"
      BY <1>2 DEF GrantTopup, BillingTyped, WebhookTyped, HandlerTyped, DeliveryInv, OnItsPath, At, Kind
    <3> QED  BY <3>1 DEF BillingTyped, WebhookTyped, EventTyped
  <2>3. row \in CreditGrant
    <3>1. bucketForReason("topup") \in Buckets
      BY DEF bucketForReason, Buckets
    <3>2. PackCredits \in Nat /\ PackCredits > 0 /\ Never \in Nat /\ ref \in Refs
      BY <2>2, SizesAssumption, RefsAssumption DEF Never
    <3> QED  BY <3>1, <3>2, GrantIsRow
  <2>4. <<row>> \in Seq(CreditGrant)
    <3> HIDE DEF row
    <3> QED  BY <2>3, OneTuple
  <2> HIDE DEF row
  <2> QED  BY <1>0, <2>1, <2>4, InsertKeepsLedger
<1>3. ASSUME NEW h \in Handlers, CommitRenewal(h)  PROVE LedgerInv'
  <2>1. /\ InsertUnique(handler[h].event.ref, RenewalRows(h)) /\ At(h, "measured")
        /\ UNCHANGED <<now, spent, allocated, charge, run, overtaken>>
    BY <1>3 DEF CommitRenewal
  <2>2. RenewalRows(h) \in Seq(CreditGrant)
    BY <2>1, RenewalRowsAreGrants
  <2> QED  BY <1>0, <2>1, <2>2, InsertKeepsLedger
<1>4. CASE StripeStep
  <2>1. UNCHANGED ledgerVars
    BY <1>4 DEF StripeStep, CompleteCheckout, PayPeriod, PayProration, LapseSubscription,
                CancelSubscription
  <2> QED  BY <1>1, <2>1
<1>5. ASSUME NEW h \in Handlers, HandlerStep(h), ~GrantTopup(h), ~CommitRenewal(h)
      PROVE  UNCHANGED ledgerVars
  BY <1>5 DEF HandlerStep, CheckSession, FindSubscription, CheckInvoice, MeasureRollover,
              FindExisting, SaveSubscription, MarkCanceled, Acknowledge
<1>6. ASSUME NEW h \in Handlers, (\E e \in events : Deliver(h, e)) \/ FailHandler(h)
      PROVE  UNCHANGED ledgerVars
  BY <1>6 DEF Deliver, FailHandler
<1>7. CASE Tick \/ \E r \in Runs : RunStep(r)
  BY <1>0, <1>7, TickLedgerInv, RunStepLedgerInv
<1>8. CASE UNCHANGED billingVars
  BY <1>1, <1>8 DEF billingVars
<1> QED  BY <1>1, <1>2, <1>3, <1>4, <1>5, <1>6, <1>7, <1>8 DEF BillingNext

----------------------------------------------------------------------------
(* What Stripe emits is about its own sessions, subscriptions and periods. *)
LEMMA ChangedRow ==
    ASSUME StripeTyped, NEW s \in Subs, NEW status \in StripeStatuses, NEW period \in 1..MaxPeriod,
           NEW end \in Nat, ChangeSubscription(s, status, period, end)
    PROVE  StripeTyped' /\ stripe'[s].end = end
<1> DEFINE new == [status |-> status, period |-> period, end |-> end,
                   version |-> stripe[s].version + 1]
<1>1. stripe' = [stripe EXCEPT ![s] = new] /\ stripe[s].version < MaxVersion
  BY DEF ChangeSubscription
<1>2. stripe[s].version \in 0..MaxVersion /\ MaxVersion \in Nat /\ MaxPeriod \in Nat
  BY CountsAssumption, PeriodsAssumption DEF StripeTyped, StripeRow
<1>3. stripe[s].version + 1 \in 0..MaxVersion /\ period \in 0..MaxPeriod /\ period # 0
  BY <1>1, <1>2
<1>4. new \in StripeRow /\ new.period = period /\ new.end = end
  BY <1>3 DEF StripeRow
<1> HIDE DEF new
<1> QED  BY <1>1, <1>3, <1>4 DEF StripeTyped

LEMMA SubscriptionEventTyped ==
    ASSUME NEW s \in Subs, NEW kind \in SubscriptionKinds, stripe'[s].end \in Nat
    PROVE  EventTyped(SubscriptionEvent(s, kind))
BY DEF SubscriptionEvent, EventTyped, SubscriptionKinds

LEMMA InvoiceEventTyped ==
    ASSUME NEW inv \in Invoices, NEW end \in Nat
    PROVE  EventTyped(InvoiceEvent(inv, end))
BY DEF InvoiceEvent, EventTyped, SubscriptionKinds

LEMMA StripeStepTyped ==
    ASSUME BillingTyped, StripeStep
    PROVE  /\ StripeTyped' /\ events \subseteq events' /\ \A e \in events' : EventTyped(e)
           /\ UNCHANGED webhookVars
<1>0. StripeTyped /\ (\A e \in events : EventTyped(e)) /\ MaxPeriod \in Nat /\ now \in Nat
  BY PeriodsAssumption, BoundsAssumption DEF BillingTyped, WebhookTyped, LedgerInv, LedgerTypeOK
<1>1. ASSUME NEW c \in Sessions, CompleteCheckout(c)
      PROVE  StripeTyped' /\ events \subseteq events' /\ \A e \in events' : EventTyped(e)
  <2>1. PICK isPaid \in BOOLEAN : events' = events \cup {CheckoutEvent(c, isPaid)}
    BY <1>1 DEF CompleteCheckout
  <2>2. EventTyped(CheckoutEvent(c, isPaid))
    BY DEF CheckoutEvent, EventTyped, SubscriptionKinds
  <2> QED  BY <1>0, <1>1, <2>1, <2>2 DEF CompleteCheckout, StripeTyped
<1>2. ASSUME NEW s \in Subs, PayPeriod(s)
      PROVE  StripeTyped' /\ events \subseteq events' /\ \A e \in events' : EventTyped(e)
  <2> DEFINE next == stripe[s].period + 1
             end == IF stripe[s].status = "none" THEN now + PeriodLength
                    ELSE stripe[s].end + PeriodLength
  <2>1. /\ next <= MaxPeriod /\ ChangeSubscription(s, "active", next, end)
        /\ events' = events \cup {SubscriptionEvent(s, "customer.subscription.updated"),
                                  InvoiceEvent(Renewal(s, next), end)}
    BY <1>2 DEF PayPeriod
  <2>2. stripe[s].period \in Nat /\ stripe[s].end \in Nat /\ PeriodLength \in Nat
    BY <1>0, CountsAssumption DEF StripeTyped, StripeRow
  <2>3. next \in 1..MaxPeriod /\ end \in Nat /\ "active" \in StripeStatuses
    BY <1>0, <2>1, <2>2 DEF StripeStatuses, Statuses
  <2> HIDE DEF next, end
  <2>4. StripeTyped' /\ stripe'[s].end = end
    BY <1>0, <2>1, <2>3, ChangedRow
  <2>5. EventTyped(SubscriptionEvent(s, "customer.subscription.updated"))
    BY <2>3, <2>4, SubscriptionEventTyped DEF SubscriptionKinds
  <2>6. Renewal(s, next) \in Invoices
    BY <2>3 DEF Renewal, Invoices
  <2>7. EventTyped(InvoiceEvent(Renewal(s, next), end))
    BY <2>3, <2>6, InvoiceEventTyped
  <2> QED  BY <1>0, <2>1, <2>4, <2>5, <2>7
<1>3. ASSUME NEW s \in Subs, PayProration(s)
      PROVE  StripeTyped' /\ events \subseteq events' /\ \A e \in events' : EventTyped(e)
  <2> DEFINE inv == <<s, stripe[s].period, "proration">>
  <2>1. /\ stripe[s].status = "active" /\ events' = events \cup {InvoiceEvent(inv, stripe[s].end)}
        /\ UNCHANGED stripe
    BY <1>3 DEF PayProration
  <2>2. stripe[s].period \in 1..MaxPeriod /\ stripe[s].end \in Nat
    BY <1>0, <2>1 DEF StripeTyped, StripeRow
  <2>3. inv \in Invoices
    BY <2>2 DEF Invoices
  <2> HIDE DEF inv
  <2>4. EventTyped(InvoiceEvent(inv, stripe[s].end))
    BY <2>2, <2>3, InvoiceEventTyped
  <2> QED  BY <1>0, <2>1, <2>4 DEF StripeTyped
<1>4. ASSUME NEW s \in Subs, LapseSubscription(s) \/ CancelSubscription(s)
      PROVE  StripeTyped' /\ events \subseteq events' /\ \A e \in events' : EventTyped(e)
  <2>1. PICK status \in {"past_due", "unpaid", "canceled"}, kind \in SubscriptionKinds :
          /\ stripe[s].status # "none"
          /\ ChangeSubscription(s, status, stripe[s].period, stripe[s].end)
          /\ events' = events \cup {SubscriptionEvent(s, kind)}
    <3>1. CASE LapseSubscription(s)
      BY <3>1 DEF LapseSubscription, SubscriptionKinds
    <3>2. CASE CancelSubscription(s)
      BY <3>2 DEF CancelSubscription, SubscriptionKinds
    <3> QED  BY <1>4, <3>1, <3>2
  <2>2. stripe[s].period \in 1..MaxPeriod /\ stripe[s].end \in Nat /\ status \in StripeStatuses
    BY <1>0, <2>1 DEF StripeTyped, StripeRow, StripeStatuses, Statuses
  <2>3. StripeTyped' /\ stripe'[s].end = stripe[s].end
    BY <1>0, <2>1, <2>2, ChangedRow
  <2>4. EventTyped(SubscriptionEvent(s, kind))
    BY <2>2, <2>3, SubscriptionEventTyped
  <2> QED  BY <1>0, <2>1, <2>3, <2>4
<1>5. UNCHANGED webhookVars
  BY DEF StripeStep, CompleteCheckout, PayPeriod, PayProration, LapseSubscription, CancelSubscription
<1> QED  BY <1>1, <1>2, <1>3, <1>4, <1>5 DEF StripeStep

----------------------------------------------------------------------------
(* A handler goes on: whatever it becomes is typed. *)
LEMMA MoveStaysTyped ==
    ASSUME WebhookTyped, NEW h \in Handlers, NEW to, handler' = [handler EXCEPT ![h] = to],
           HandlerTyped(to), UNCHANGED events, acked' \subseteq events,
           IsRowState(subscription'), failures' \in 0..MaxFailures
    PROVE  WebhookTyped'
<1>1. \A g \in Handlers : handler'[g] = IF g = h THEN to ELSE handler[g]
  BY DEF WebhookTyped
<1>2. DOMAIN handler' = Handlers
  BY DEF WebhookTyped
<1>3. \A g \in Handlers : HandlerTyped(handler'[g])
  BY <1>1 DEF WebhookTyped
<1> QED  BY <1>2, <1>3 DEF WebhookTyped, HandlerTyped, EventTyped

LEMMA NoRowIsRow == IsRowState(NoRow) /\ NoRow.stripeId = NoRef
BY DEF IsRowState, NoRow, Statuses

LEMMA FreeIsTyped == HandlerTyped(Free)
BY NoRowIsRow DEF HandlerTyped, Free, HandlerPCs, NoEvent

LEMMA GoesOnTyped ==
    ASSUME WebhookTyped, NEW h \in Handlers, ~At(h, "free"), NEW pc \in HandlerPCs, NEW row,
           IsRowState(row), NEW rolledOver \in Nat, NEW seats \in SeatCounts \cup {0}
    PROVE  /\ HandlerTyped([handler[h] EXCEPT !.pc = pc])
           /\ HandlerTyped([handler[h] EXCEPT !.pc = pc, !.row = row])
           /\ HandlerTyped([handler[h] EXCEPT !.pc = pc, !.seats = seats, !.rolledOver = rolledOver])
<1>1. HandlerTyped(handler[h]) /\ handler[h].event \in events
  BY DEF WebhookTyped, HandlerTyped, At
<1> QED  BY <1>1 DEF HandlerTyped, Free

LEMMA HandlerToTyped ==
    ASSUME WebhookTyped, NEW h \in Handlers, ~At(h, "free"), NEW pc \in HandlerPCs,
           HandlerTo(h, pc), UNCHANGED <<events, acked, failures>>, IsRowState(subscription')
    PROVE  WebhookTyped'
<1> DEFINE to == [handler[h] EXCEPT !.pc = pc]
<1>1. HandlerTyped(to)
  BY GoesOnTyped, NoRowIsRow
<1>2. handler' = [handler EXCEPT ![h] = to]
  BY DEF HandlerTo
<1>3. acked' \subseteq events /\ failures' \in 0..MaxFailures
  BY DEF WebhookTyped
<1> HIDE DEF to
<1> QED  BY <1>1, <1>2, <1>3, MoveStaysTyped

LEMMA FreedTyped ==
    ASSUME WebhookTyped, NEW h \in Handlers, handler' = [handler EXCEPT ![h] = Free],
           UNCHANGED <<events, subscription>>, acked' \subseteq events, failures' \in 0..MaxFailures
    PROVE  WebhookTyped'
<1>1. IsRowState(subscription')
  BY DEF WebhookTyped
<1> QED  BY <1>1, FreeIsTyped, MoveStaysTyped

LEMMA HandlerStepTyped ==
    ASSUME BillingTyped, NEW h \in Handlers, HandlerStep(h)
    PROVE  WebhookTyped'
<1>0. /\ WebhookTyped /\ IsRowState(subscription) /\ acked \subseteq events
      /\ failures \in 0..MaxFailures
  BY DEF BillingTyped, WebhookTyped
<1>1. ASSUME NEW pc \in HandlerPCs, HandlerTo(h, pc), ~At(h, "free"),
             UNCHANGED <<events, acked, failures, subscription>>
      PROVE  WebhookTyped'
  BY <1>0, <1>1, HandlerToTyped
<1>2. CASE CheckSession(h)
  BY <1>1, <1>2 DEF CheckSession, At, HandlerPCs, stripeVars
<1>3. CASE GrantTopup(h)
  BY <1>1, <1>3 DEF GrantTopup, At, HandlerPCs, stripeVars
<1>4. CASE FindSubscription(h)
  <2>1. UNCHANGED <<events, acked, subscription, failures>> /\ ~At(h, "free")
    BY <1>4 DEF FindSubscription, At, stripeVars
  <2>2. CASE HandlerTo(h, "done")
    BY <1>1, <2>1, <2>2 DEF HandlerPCs
  <2>3. CASE handler' = [handler EXCEPT ![h].pc = "found", ![h].row = subscription]
    <3> DEFINE to == [handler[h] EXCEPT !.pc = "found", !.row = subscription]
    <3>1. handler' = [handler EXCEPT ![h] = to]
      BY <2>3, Zenon
    <3>2. HandlerTyped(to)
      BY <1>0, <2>1, GoesOnTyped, ZenonT(30) DEF HandlerPCs
    <3> HIDE DEF to
    <3> QED  BY <1>0, <2>1, <3>1, <3>2, MoveStaysTyped
  <2>4. CASE UnknownSubscription(h)
    BY <1>0, <2>1, <2>4, FreedTyped DEF UnknownSubscription
  <2> QED  BY <1>4, <2>2, <2>3, <2>4 DEF FindSubscription
<1>5. CASE CheckInvoice(h)
  BY <1>1, <1>5 DEF CheckInvoice, At, HandlerPCs, stripeVars
<1>6. CASE MeasureRollover(h)
  <2>1. PICK seats \in SeatCounts :
          handler' = [handler EXCEPT ![h].pc = "measured", ![h].seats = seats,
                                     ![h].rolledOver = unspentPlanCredits]
    BY <1>6 DEF MeasureRollover
  <2>2. UNCHANGED <<events, acked, subscription, failures>> /\ ~At(h, "free")
    BY <1>6 DEF MeasureRollover, At, stripeVars
  <2>3. PICK credits \in Nat : credits = unspentPlanCredits
    BY UnspentIsNat DEF BillingTyped, LedgerInv
  <2> DEFINE to == [handler[h] EXCEPT !.pc = "measured", !.seats = seats, !.rolledOver = credits]
  <2>4. handler' = [handler EXCEPT ![h] = to]
    BY <2>1, <2>3, Zenon
  <2>5. HandlerTyped(to)
    BY <1>0, <2>2, GoesOnTyped, ZenonT(30) DEF HandlerPCs
  <2> HIDE DEF to
  <2> QED  BY <1>0, <2>2, <2>4, <2>5, MoveStaysTyped
<1>7. CASE CommitRenewal(h)
  <2> DEFINE e == handler[h].event
             row == [subscription EXCEPT !.end = e.end, !.seats = handler[h].seats]
  <2>1. HandlerTo(h, "done") /\ ~At(h, "free") /\ UNCHANGED <<events, acked, failures>>
    BY <1>7 DEF CommitRenewal, At, stripeVars
  <2>2. subscription' \in {subscription, row}
    BY <1>7 DEF CommitRenewal
  <2>3. e.end \in Nat /\ handler[h].seats \in SeatCounts \cup {0}
    <3>1. e \in events /\ e.kind = "invoice.paid"
      BY <1>7 DEF CommitRenewal, BillingTyped, DeliveryInv, OnItsPath, At, Kind, InvoicePCs,
                  WebhookTyped, HandlerTyped
    <3> QED  BY <1>0, <3>1 DEF WebhookTyped, EventTyped, HandlerTyped
  <2>4. IsRowState(row)
    BY <1>0, <2>3 DEF IsRowState, NoRow
  <2> HIDE DEF row
  <2>5. IsRowState(subscription')
    BY <1>0, <2>2, <2>4
  <2> QED  BY <1>0, <2>1, <2>5, HandlerToTyped DEF HandlerPCs
<1>8. CASE FindExisting(h)
  <2> DEFINE row == IF subscription.stripeId = handler[h].event.sub THEN subscription ELSE NoRow
             to == [handler[h] EXCEPT !.pc = "syncing", !.row = row]
  <2>1. /\ handler' = [handler EXCEPT ![h] = to] /\ ~At(h, "free")
        /\ UNCHANGED <<events, acked, subscription, failures>>
    BY <1>8 DEF FindExisting, At, stripeVars
  <2>2. IsRowState(row)
    BY <1>0, NoRowIsRow
  <2> HIDE DEF row
  <2>3. HandlerTyped(to)
    BY <1>0, <2>1, <2>2, GoesOnTyped, ZenonT(30) DEF HandlerPCs
  <2> HIDE DEF to
  <2> QED  BY <1>0, <2>1, <2>3, MoveStaysTyped
<1>9. CASE SaveSubscription(h)
  <2> DEFINE e == handler[h].event
             seats == handler[h].row.seats
             row == [stripeId |-> e.sub, status |-> toStatus(e.status), end |-> e.end, seats |-> seats]
  <2>1. ~At(h, "free") /\ UNCHANGED <<events, acked, failures>>
    BY <1>9 DEF SaveSubscription, At, stripeVars
  <2>2. CASE handler' = [handler EXCEPT ![h] = Free] /\ UNCHANGED subscription
    BY <1>0, <2>1, <2>2, FreedTyped
  <2>3. CASE subscription' = row /\ HandlerTo(h, "done")
    <3>1. e \in events /\ e.kind = "customer.subscription.updated"
      BY <1>9 DEF SaveSubscription, BillingTyped, DeliveryInv, OnItsPath, At, Kind,
                  WebhookTyped, HandlerTyped
    <3>2. e.sub \in Subs /\ e.end \in Nat
      BY <1>0, <3>1 DEF WebhookTyped, EventTyped, SubscriptionKinds
    <3>3. toStatus(e.status) \in Statuses
      BY DEF toStatus, Statuses
    <3>4. seats \in SeatCounts \cup {0}
      BY <1>0 DEF WebhookTyped, HandlerTyped, IsRowState
    <3> HIDE DEF seats
    <3>5. IsRowState(row)
      BY <3>2, <3>3, <3>4 DEF IsRowState, NoRow
    <3> QED  BY <1>0, <2>1, <2>3, <3>5, HandlerToTyped DEF HandlerPCs
  <2> QED  BY <1>9, <2>2, <2>3 DEF SaveSubscription
<1>10. CASE MarkCanceled(h)
  <2>1. HandlerTo(h, "done") /\ ~At(h, "free") /\ UNCHANGED <<events, acked, failures>>
    BY <1>10 DEF MarkCanceled, At, stripeVars
  <2>2. subscription' \in {subscription, [subscription EXCEPT !.status = "canceled"]}
    BY <1>10 DEF MarkCanceled
  <2>3. IsRowState(subscription')
    BY <1>0, <2>2 DEF IsRowState, NoRow, Statuses
  <2> QED  BY <1>0, <2>1, <2>3, HandlerToTyped DEF HandlerPCs
<1>11. CASE Acknowledge(h)
  <2>1. handler[h].event \in events
    BY <1>0, <1>11 DEF Acknowledge, WebhookTyped, HandlerTyped, At
  <2>2. /\ handler' = [handler EXCEPT ![h] = Free] /\ UNCHANGED <<events, subscription, failures>>
        /\ acked' \subseteq events
    BY <1>0, <1>11, <2>1 DEF Acknowledge, stripeVars
  <2> QED  BY <1>0, <2>2, FreedTyped
<1> QED  BY <1>2, <1>3, <1>4, <1>5, <1>6, <1>7, <1>8, <1>9, <1>10, <1>11 DEF HandlerStep

LEMMA NextBillingTyped == BillingTyped /\ [BillingNext]_billingVars => BillingTyped'
<1> SUFFICES ASSUME BillingTyped, [BillingNext]_billingVars  PROVE BillingTyped'
  OBVIOUS
<1>0. LedgerInv' /\ DeliveryInv' /\ StripeTyped /\ WebhookTyped /\ failures \in 0..MaxFailures
  BY BillingKeepsLedger, NextDeliveryInv DEF BillingTyped, WebhookTyped
<1>1. CASE UNCHANGED <<stripe, events, webhookVars>>
  BY <1>0, <1>1 DEF BillingTyped, StripeTyped, WebhookTyped, webhookVars, HandlerTyped, EventTyped
<1>2. CASE StripeStep
  <2>1. /\ StripeTyped' /\ events \subseteq events' /\ \A e \in events' : EventTyped(e)
        /\ UNCHANGED <<acked, subscription, handler, failures>>
    BY <1>2, StripeStepTyped DEF webhookVars
  <2>2. WebhookTyped'
    BY <1>0, <2>1 DEF WebhookTyped, HandlerTyped, EventTyped
  <2> QED  BY <1>0, <2>1, <2>2 DEF BillingTyped
<1>3. ASSUME NEW h \in Handlers, HandlerStep(h)  PROVE BillingTyped'
  <2>1. UNCHANGED stripe
    BY <1>3 DEF HandlerStep, CheckSession, GrantTopup, FindSubscription, CheckInvoice,
                MeasureRollover, CommitRenewal, FindExisting, SaveSubscription, MarkCanceled,
                Acknowledge, stripeVars
  <2> QED  BY <1>0, <1>3, <2>1, HandlerStepTyped DEF BillingTyped, StripeTyped
<1>4. ASSUME NEW h \in Handlers, NEW e \in events, Deliver(h, e)  PROVE BillingTyped'
  <2> DEFINE to == [Free EXCEPT !.pc = "received", !.event = e]
  <2>1. handler' = [handler EXCEPT ![h] = to] /\ UNCHANGED <<stripe, events, acked, subscription, failures>>
    BY <1>4 DEF Deliver, stripeVars
  <2>2. HandlerTyped(to)
    BY FreeIsTyped DEF HandlerTyped, Free, HandlerPCs
  <2> HIDE DEF to
  <2>3. WebhookTyped'
    BY <1>0, <2>1, <2>2, MoveStaysTyped DEF WebhookTyped
  <2> QED  BY <1>0, <2>1, <2>3 DEF BillingTyped, StripeTyped
<1>5. ASSUME NEW h \in Handlers, FailHandler(h)  PROVE BillingTyped'
  <2>1. failures' \in 0..MaxFailures
    BY <1>0, <1>5, CountsAssumption DEF FailHandler
  <2>2. WebhookTyped'
    BY <1>0, <1>5, <2>1, FreedTyped DEF FailHandler, stripeVars, WebhookTyped
  <2> QED  BY <1>0, <1>5, <2>2 DEF FailHandler, stripeVars, BillingTyped, StripeTyped
<1>6. CASE UNCHANGED <<stripeVars, webhookVars>>
  BY <1>1, <1>6 DEF stripeVars
<1>7. CASE UNCHANGED billingVars
  BY <1>6, <1>7 DEF billingVars
<1> QED  BY <1>2, <1>3, <1>4, <1>5, <1>6, <1>7 DEF BillingNext

LEMMA InitBillingTyped == BillingInit => BillingTyped
<1> SUFFICES ASSUME BillingInit  PROVE BillingTyped
  OBVIOUS
<1>1. LedgerInv /\ DeliveryInv
  BY InitLedgerInv, InitDeliveryInv DEF BillingInit
<1>2. StripeTyped
  BY CountsAssumption, PeriodsAssumption DEF BillingInit, StripeTyped, StripeRow, StripeStatuses
<1>3. WebhookTyped
  BY FreeIsTyped, NoRowIsRow, CountsAssumption DEF BillingInit, WebhookTyped
<1> QED  BY <1>1, <1>2, <1>3 DEF BillingTyped

LEMMA BillingTypesOK == BillingTyped => BillingTypeOK
BY DEF BillingTyped, LedgerInv, StripeTyped, StripeRow, WebhookTyped, HandlerTyped, BillingTypeOK

(* Whatever Stripe sends and however often, the rows, requests and grants of
   billing keep their form, and a rollover is never negative
   (unspentPlanCredits, toStatus). *)
THEOREM BillingTypes == BillingSpec => []BillingTypeOK
BY InitBillingTyped, NextBillingTyped, BillingTypesOK, PTL DEF BillingSpec

=============================================================================
