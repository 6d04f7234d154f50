-------------------------- MODULE SubscriptionSync --------------------------
(***************************************************************************)
(* How a subscription row follows its Stripe subscription:                 *)
(*   - StripeWebhookService.handleWebhook with its validator, the log in   *)
(*     webhook_event_logs, and the handlers of subscription and invoice    *)
(*     events (checkout.session.completed is in module StripeCheckout)     *)
(*   - SubscriptionsService.cancelSubscription                             *)
(*                                                                         *)
(* Stripe delivers an event until it is answered 2xx, in any order and     *)
(* also while an earlier delivery of it is still being served.  A request  *)
(* is split at its awaits: validate, log, find the row, write the row.     *)
(***************************************************************************)
EXTENDS Naturals, Sequences

CONSTANTS
    Subs,      \* Stripe subscriptions (stripeSubscriptionId)
    Rows,      \* ids of table subscriptions
    Requests,  \* webhook requests that can be in progress at once
    MaxEvents, \* bounds how many events Stripe emits
    None

ASSUME SyncConstants ==
    /\ MaxEvents \in Nat
    /\ Subs \intersect 1..MaxEvents = {}  \* "sub_..." is never "evt_..."
    /\ None \notin Subs \union Rows \union 1..MaxEvents

VARIABLES
    stripe,   \* at Stripe: status and cancel_at_period_end of each subscription
    flagged,  \* history variable: subscriptions that were ever set to cancel
    event,    \* at Stripe: the events emitted, an event's id is its index
    acked,    \* at Stripe: the events answered 2xx
    refused,  \* history variable: events answered 500 by the log's unique key
    handled,  \* history variable: how often each event's handler wrote the row
    log,      \* table webhook_event_logs
    request,  \* requests inside handleWebhook
    cancel,   \* the cancelSubscription request of each row's user
    row,      \* table subscriptions
    carried   \* history variable: the Stripe subscriptions each row has had

stripeVars  == <<stripe, flagged, event>>
answerVars  == <<acked, refused, handled>>
rowVars     == <<row, carried>>
vars == <<stripe, flagged, event, acked, refused, handled, log, request, cancel, row, carried>>

-----------------------------------------------------------------------------

Types == {"created", "updated", "deleted", "payment_failed", "payment_succeeded"}

\* "incomplete" stands for the statuses Stripe has and enum SubscriptionStatus
\* does not (incomplete, incomplete_expired, paused).
StripeStatus == {"active", "past_due", "canceled", "incomplete"}

\* status.toUpperCase(), where that is in the enum.
Upper == [active |-> "ACTIVE", past_due |-> "PAST_DUE", canceled |-> "CANCELED"]

RowStatus == {"ACTIVE", "PAST_DUE", "CANCELED"}

EventRecord == [type : Types, sub : Subs, status : StripeStatus, flag : BOOLEAN]

\* A row of table subscriptions that has, or had, a Stripe subscription.
RowRecord == [link : Subs \union {None}, status : RowStatus, flag : BOOLEAN]

ASSUME NoneIsNoRow == None \notin RowRecord

Ids == 1..MaxEvents
Emitted == 1..Len(event)
EventSub(e) == event[e].sub

RequestRecord == [pc : {"idle", "valid", "logged", "found"},
                  id : Ids \union {None}, row : Rows \union {None}]

CancelRecord == [pc : {"idle", "valid", "told"}, sub : Subs \union {None}]

IdleRequest == [pc |-> "idle", id |-> None, row |-> None]

TypeOK ==
    /\ stripe \in [Subs -> [status : StripeStatus \union {"none"}, flag : BOOLEAN]]
    /\ flagged \subseteq Subs
    /\ event \in Seq(EventRecord)
    /\ Len(event) <= MaxEvents
    /\ acked \subseteq Ids
    /\ refused \subseteq Ids
    /\ handled \in [Ids -> Nat]
    /\ log \subseteq [ref : Subs, type : Types, id : Ids]
    /\ request \in [Requests -> RequestRecord]
    /\ cancel \in [Rows -> CancelRecord]
    /\ row \in [Rows -> RowRecord \union {None}]
    /\ carried \in [Rows -> SUBSET Subs]

Init ==
    /\ stripe = [b \in Subs |-> [status |-> "none", flag |-> FALSE]]
    /\ flagged = {}
    /\ event = <<>>
    /\ acked = {}
    /\ refused = {}
    /\ handled = [e \in Ids |-> 0]
    /\ log = {}
    /\ request = [q \in Requests |-> IdleRequest]
    /\ cancel = [r \in Rows |-> [pc |-> "idle", sub |-> None]]
    /\ row \in [Rows -> {None, [link |-> None, status |-> "ACTIVE", flag |-> FALSE]}]
    /\ carried = [r \in Rows |-> {}]

-----------------------------------------------------------------------------
(* Stripe                                                                   *)

\* Subscription b gets a new status and cancel_at_period_end, and Stripe emits an
\* event that carries them.
Emit(b, type, status, flag) ==
    /\ Len(event) < MaxEvents
    /\ stripe' = [stripe EXCEPT ![b] = [status |-> status, flag |-> flag]]
    /\ flagged' = IF flag THEN flagged \union {b} ELSE flagged
    /\ event' = Append(event, [type |-> type, sub |-> b, status |-> status, flag |-> flag])
    /\ UNCHANGED <<answerVars, log, request, cancel, rowVars>>

StripeCreates(b) ==
    /\ stripe[b].status = "none"
    /\ \E status \in {"active", "incomplete"} : Emit(b, "created", status, FALSE)

\* cancelSubscription, changePlan, or the customer in the billing portal, who can
\* also take a cancellation back.
StripeUpdates(b) ==
    /\ stripe[b].status \notin {"none", "canceled"}
    /\ \E flag \in BOOLEAN : Emit(b, "updated", stripe[b].status, flag)

StripeChargeFails(b) ==
    /\ stripe[b].status = "active"
    /\ Emit(b, "payment_failed", "past_due", stripe[b].flag)

\* An open invoice can still be paid when its subscription is canceled.
StripeIsPaid(b) ==
    /\ stripe[b].status # "none"
    /\ Emit(b, "payment_succeeded",
            IF stripe[b].status = "canceled" THEN "canceled" ELSE "active", stripe[b].flag)

StripeDeletes(b) ==
    /\ stripe[b].status \notin {"none", "canceled"}
    /\ Emit(b, "deleted", "canceled", stripe[b].flag)

-----------------------------------------------------------------------------
(* StripeWebhookService.handleWebhook                                       *)

\* validateWebhookEvent looks for a logged row whose referenceId is the event's
\* id; handleWebhook logs extractStripeReferenceId(event), the subscription's.
\* Mutation of Duplicate: any earlier event of the subscription and type counts.
DuplicateByReference(e) == \E l \in log : l.ref = EventSub(e) /\ l.type = event[e].type

Duplicate(e) == \E l \in log : l.ref = e /\ l.type = event[e].type

Receive(q, e) ==
    /\ request[q].pc = "idle"
    /\ e \in Emitted \ acked
    /\ IF Duplicate(e)
       THEN /\ acked' = acked \union {e}
            /\ UNCHANGED request
       ELSE /\ request' = [request EXCEPT ![q] = [IdleRequest EXCEPT !.pc = "valid", !.id = e]]
            /\ UNCHANGED acked
    /\ UNCHANGED <<stripeVars, refused, handled, log, cancel, rowVars>>

\* The unique key of webhook_event_logs: source, reference and event type.
\* Mutation of SameKey: the key holds the event's id where the log has none.
SameKeyByEventId(e) == {l \in log : l.ref = e /\ l.type = event[e].type}

SameKey(e) == {l \in log : l.ref = EventSub(e) /\ l.type = event[e].type}

LogEvent(q) ==
    LET e == request[q].id
    IN  /\ request[q].pc = "valid"
        /\ SameKey(e) = {}
        /\ log' = log \union {[ref |-> EventSub(e), type |-> event[e].type, id |-> e]}
        /\ request' = [request EXCEPT ![q].pc = "logged"]
        /\ UNCHANGED <<stripeVars, answerVars, cancel, rowVars>>

\* create violates the unique key: the answer is 500.
RefuseEvent(q) ==
    LET e == request[q].id
    IN  /\ request[q].pc = "valid"
        /\ SameKey(e) # {}
        /\ refused' = refused \union {e}
        /\ request' = [request EXCEPT ![q] = IdleRequest]
        /\ UNCHANGED <<stripeVars, acked, handled, log, cancel, rowVars>>

\* Mutation of Linked: the row is looked up by customer.
LinkedByCustomer(b) == {r \in Rows : row[r] # None}

Linked(b) == {r \in Rows : row[r] # None /\ row[r].link = b}

\* Every handler first looks the row up by stripeSubscriptionId.  A paid invoice
\* has nothing to do for a row that is ACTIVE.
Settled(e, r) == event[e].type = "payment_succeeded" /\ row[r].status = "ACTIVE"

FindRow(q) ==
    /\ request[q].pc = "logged"
    /\ \E r \in Linked(EventSub(request[q].id)) :
          /\ ~Settled(request[q].id, r)
          /\ request' = [request EXCEPT ![q].pc = "found", ![q].row = r]
    /\ UNCHANGED <<stripeVars, answerVars, log, cancel, rowVars>>

\* The event is dropped, with a 200, when no row is linked to it (yet).
DropEvent(q) ==
    LET e == request[q].id
    IN  /\ request[q].pc = "logged"
        /\ \A r \in Linked(EventSub(e)) : Settled(e, r)
        /\ acked' = acked \union {e}
        /\ request' = [request EXCEPT ![q] = IdleRequest]
        /\ UNCHANGED <<stripeVars, refused, handled, log, cancel, rowVars>>

\* What the five handlers make of row record rec.
\* Mutation of SubscriptionCreated: without toUpperCase().
SubscriptionCreatedLowerCase(e, rec) == [rec EXCEPT !.status = event[e].status]

SubscriptionCreated(e, rec) == [rec EXCEPT !.status = Upper[event[e].status]]

SubscriptionUpdated(e, rec) ==
    [rec EXCEPT !.status = Upper[event[e].status], !.flag = event[e].flag]

SubscriptionDeleted(rec)     == [rec EXCEPT !.status = "CANCELED", !.flag = FALSE]
InvoicePaymentFailed(rec)    == [rec EXCEPT !.status = "PAST_DUE"]
InvoicePaymentSucceeded(rec) == [rec EXCEPT !.status = "ACTIVE"]

Handle(e, rec) ==
    CASE event[e].type = "created"           -> SubscriptionCreated(e, rec)
      [] event[e].type = "updated"           -> SubscriptionUpdated(e, rec)
      [] event[e].type = "deleted"           -> SubscriptionDeleted(rec)
      [] event[e].type = "payment_failed"    -> InvoicePaymentFailed(rec)
      [] event[e].type = "payment_succeeded" -> InvoicePaymentSucceeded(rec)

\* A status outside the enum makes the update throw (see RequestFails).
Writable(e) == event[e].type \in {"created", "updated"} => event[e].status \in DOMAIN Upper

WriteRow(q) ==
    LET e == request[q].id
        r == request[q].row
    IN  /\ request[q].pc = "found"
        /\ Writable(e)
        /\ row' = [row EXCEPT ![r] = Handle(e, row[r])]
        /\ handled' = [handled EXCEPT ![e] = @ + 1]
        /\ acked' = acked \union {e}
        /\ request' = [request EXCEPT ![q] = IdleRequest]
        /\ UNCHANGED <<stripeVars, refused, log, cancel, carried>>

\* The database or Stripe throws, or the process dies: no 2xx for Stripe.
RequestFails(q) ==
    /\ request[q].pc # "idle"
    /\ request' = [request EXCEPT ![q] = IdleRequest]
    /\ UNCHANGED <<stripeVars, answerVars, log, cancel, rowVars>>

-----------------------------------------------------------------------------
(* The other writers of the row                                             *)

\* StripeCheckoutProcessor's transaction: the row b is linked to (a second run of
\* its checkout), else a live row of the user, whatever subscription it had, else
\* a new one.  Whose row it is, and which plan, is in StripeCheckout.
Checkout(b, r) ==
    /\ stripe[b].status # "none"
    /\ IF Linked(b) # {} THEN r \in Linked(b)
       ELSE row[r] # None => row[r].status = "ACTIVE"
    /\ row' = [row EXCEPT ![r] = [link |-> b, status |-> "ACTIVE", flag |-> FALSE]]
    /\ carried' = [carried EXCEPT ![r] = @ \union {b}]
    /\ UNCHANGED <<stripeVars, answerVars, log, request, cancel>>

\* cancelSubscription: validate the row, tell Stripe, write the row.
CancelValidated(r) ==
    /\ cancel[r].pc = "idle"
    /\ row[r] # None
    /\ row[r].link # None
    /\ row[r].status # "CANCELED"
    /\ cancel' = [cancel EXCEPT ![r] = [pc |-> "valid", sub |-> row[r].link]]
    /\ UNCHANGED <<stripeVars, answerVars, log, request, rowVars>>

CancelTold(r) ==
    /\ cancel[r].pc = "valid"
    /\ stripe[cancel[r].sub].status # "canceled"
    /\ stripe' = [stripe EXCEPT ![cancel[r].sub].flag = TRUE]
    /\ flagged' = flagged \union {cancel[r].sub}
    /\ cancel' = [cancel EXCEPT ![r].pc = "told"]
    /\ UNCHANGED <<event, answerVars, log, request, rowVars>>

\* Mutation of CancelWritten: the row is written before Stripe is told.
CancelWrittenFirst(r) ==
    /\ cancel[r].pc = "valid"
    /\ row' = [row EXCEPT ![r].flag = TRUE, ![r].status = "ACTIVE"]
    /\ cancel' = [cancel EXCEPT ![r] = [pc |-> "idle", sub |-> None]]
    /\ UNCHANGED <<stripeVars, answerVars, log, request, carried>>

CancelWritten(r) ==
    /\ cancel[r].pc = "told"
    /\ row' = [row EXCEPT ![r].flag = TRUE, ![r].status = "ACTIVE"]
    /\ cancel' = [cancel EXCEPT ![r] = [pc |-> "idle", sub |-> None]]
    /\ UNCHANGED <<stripeVars, answerVars, log, request, carried>>

\* Stripe or the database throws, or the process dies.
CancelFails(r) ==
    /\ cancel[r].pc # "idle"
    /\ cancel' = [cancel EXCEPT ![r] = [pc |-> "idle", sub |-> None]]
    /\ UNCHANGED <<stripeVars, answerVars, log, request, rowVars>>

-----------------------------------------------------------------------------

Stripe(b) ==
    \/ StripeCreates(b)
    \/ StripeUpdates(b)
    \/ StripeChargeFails(b)
    \/ StripeIsPaid(b)
    \/ StripeDeletes(b)

Webhook(q) ==
    \/ \E e \in Ids : Receive(q, e)
    \/ LogEvent(q)
    \/ RefuseEvent(q)
    \/ FindRow(q)
    \/ DropEvent(q)
    \/ WriteRow(q)
    \/ RequestFails(q)

Cancellation(r) ==
    \/ CancelValidated(r)
    \/ CancelTold(r)
    \/ CancelWritten(r)
    \/ CancelFails(r)

Next ==
    \/ \E b \in Subs : Stripe(b)
    \/ \E q \in Requests : Webhook(q)
    \/ \E b \in Subs, r \in Rows : Checkout(b, r)
    \/ \E r \in Rows : Cancellation(r)

Spec == Init /\ [][Next]_vars

-----------------------------------------------------------------------------
(* Properties                                                               *)

\* The events by which Stripe said that subscription b is deleted.
DeletedAt(b) == {d \in Emitted : event[d].type = "deleted" /\ event[d].sub = b}

\* However often and however concurrently Stripe delivers an event, its handler
\* writes the row at most once.
HandledAtMostOnce == \A e \in Ids : handled[e] <= 1

\* Stripe stops delivering an event only once it is in webhook_event_logs.
AckedIsLogged == \A e \in acked : \E l \in log : l.id = e

\* The row of a user says "cancels at period end" only if that was so at Stripe for
\* a subscription this row has had: no failure leaves the row alone with it.
CancelFlagCameFromStripe ==
    \A r \in Rows : row[r] # None /\ row[r].flag =>
        carried[r] \intersect flagged # {}

\* What makes the properties inductive.  The log tells of each entry which event
\* wrote it, so the unique key admits an event once ...
LogIsOfEvents ==
    \A l \in log : /\ l.id \in Emitted
                   /\ l.ref = EventSub(l.id)
                   /\ l.type = event[l.id].type

\* ... a request that got past the log is the only one for its event, which no
\* handler has written yet ...
LoggedRequests == {q \in Requests : request[q].pc \in {"logged", "found"}}

RequestsOwnTheirEvent ==
    /\ \A q \in Requests : request[q].pc # "idle" => request[q].id \in Emitted
    /\ \A q \in LoggedRequests : /\ \E l \in log : l.id = request[q].id
                                 /\ handled[request[q].id] = 0
    /\ \A p, q \in LoggedRequests : request[p].id = request[q].id => p = q

HandledIsLogged ==
    \A e \in Ids : handled[e] > 0 => \E l \in log : l.id = e

\* ... rows, requests and cancellations only know subscriptions the row has had ...
LinksAreCarried ==
    /\ \A r \in Rows : row[r] # None /\ row[r].link # None => row[r].link \in carried[r]
    /\ \A q \in Requests : request[q].pc = "found" =>
          LET r == request[q].row
          IN  /\ r \in Rows
              /\ row[r] # None
              /\ EventSub(request[q].id) \in carried[r]
    /\ \A r \in Rows : cancel[r].pc # "idle" => row[r] # None /\ cancel[r].sub \in carried[r]

\* ... every cancel_at_period_end on its way to a row came from Stripe, and after a
\* deletion Stripe says nothing of the subscription but that an invoice was paid.
FlagsAreStripes ==
    /\ \A b \in Subs : stripe[b].flag => b \in flagged
    /\ \A e \in Emitted : event[e].flag => EventSub(e) \in flagged
    /\ \A r \in Rows : cancel[r].pc = "told" => cancel[r].sub \in flagged

DeletionIsFinal ==
    \A d \in Emitted : event[d].type = "deleted" =>
        /\ stripe[EventSub(d)].status = "canceled"
        /\ \A e \in Emitted : e > d /\ EventSub(e) = EventSub(d) =>
              event[e].type = "payment_succeeded"

Inv ==
    /\ TypeOK
    /\ LogIsOfEvents
    /\ RequestsOwnTheirEvent
    /\ HandledIsLogged
    /\ LinksAreCarried
    /\ FlagsAreStripes
    /\ DeletionIsFinal
    /\ HandledAtMostOnce
    /\ AckedIsLogged
    /\ CancelFlagCameFromStripe

\* A webhook brings a row back from CANCELED, once Stripe has deleted the row's
\* subscription, only through an invoice that was paid, an event Stripe emitted
\* before that deletion, or an event of a subscription that the row had before.
CanceledIsLeftOnlyLate ==
    [][\A q \in Requests :
          LET e == request[q].id
              r == request[q].row
          IN  (/\ request[q].pc = "found"
               /\ request'[q].pc = "idle"
               /\ row[r].status = "CANCELED"
               /\ row'[r].status # "CANCELED"
               /\ DeletedAt(row[r].link) # {})
              => \/ event[e].type = "payment_succeeded"
                 \/ EventSub(e) \in carried[r] \ {row[r].link}
                 \/ \E d \in DeletedAt(EventSub(e)) : d > e]_vars

\* The comment on validateWebhookEvent, "Check for duplicate event
\* (idempotency)": only an event that was logged before is turned away.
OnlyDuplicatesAreRefused == \A e \in refused : \E l \in log : l.id = e

=============================================================================
