---------------------- MODULE SubscriptionSync_proofs ----------------------
(***************************************************************************)
(* Proofs about SubscriptionSync, for any subscriptions, rows and number   *)
(* of concurrent webhook requests and of events: the invariant Inv, the    *)
(* safety properties in it, and the action property on CANCELED rows.      *)
(***************************************************************************)
EXTENDS SubscriptionSync, TLAPS

-----------------------------------------------------------------------------
(* Events                                                                   *)

\* An emitted event is a record of its fields.
LEMMA EventType ==
    ASSUME TypeOK, NEW e \in Emitted
    PROVE  /\ event[e] \in EventRecord
           /\ e \in Ids
  BY SyncConstants DEF TypeOK, Emitted, Ids

\* What Stripe's actions do to the events and to the subscription they are about.
LEMMA EmitSteps ==
    ASSUME TypeOK, NEW b \in Subs, NEW type \in Types, NEW status \in StripeStatus,
           NEW flag \in BOOLEAN, Emit(b, type, status, flag)
    PROVE  /\ event' \in Seq(EventRecord)
           /\ Len(event') = Len(event) + 1
           /\ Len(event') \in Ids
           /\ event'[Len(event')] = [type |-> type, sub |-> b, status |-> status, flag |-> flag]
           /\ \A e \in Emitted : event'[e] = event[e]
           /\ Emitted' = Emitted \union {Len(event')}
           /\ Len(event') \notin Emitted
<1> DEFINE rec == [type |-> type, sub |-> b, status |-> status, flag |-> flag]
<1>1. rec \in EventRecord
  BY DEF EventRecord
<1>2. event' = Append(event, rec) /\ Len(event) < MaxEvents
  BY DEF Emit
<1>3. event \in Seq(EventRecord) /\ Len(event) \in Nat
  BY DEF TypeOK
<1> HIDE DEF rec
<1>4. /\ event' \in Seq(EventRecord)
      /\ Len(event') = Len(event) + 1
      /\ event'[Len(event) + 1] = rec
      /\ \A e \in 1..Len(event) : event'[e] = event[e]
  BY <1>1, <1>2, <1>3
<1>5. Len(event) + 1 \in 1..MaxEvents
  BY <1>2, <1>3, SyncConstants
<1> QED
  BY <1>3, <1>4, <1>5 DEF Emitted, Ids, rec

\* Stripe's five actions, as what they emit.
LEMMA StripeSteps ==
    ASSUME TypeOK, NEW b \in Subs, Stripe(b)
    PROVE  \E type \in Types, status \in StripeStatus, flag \in BOOLEAN :
              /\ Emit(b, type, status, flag)
              /\ type = "deleted" => status = "canceled"
              /\ stripe[b].status = "canceled" =>
                    type = "payment_succeeded" /\ status = "canceled"
<1>1. stripe[b] \in [status : StripeStatus \union {"none"}, flag : BOOLEAN]
  BY DEF TypeOK
<1> USE DEF Types, StripeStatus
<1>2. CASE StripeCreates(b)
  BY <1>1, <1>2 DEF StripeCreates
<1>3. CASE StripeUpdates(b)
  BY <1>1, <1>3 DEF StripeUpdates
<1>4. CASE StripeChargeFails(b)
  BY <1>1, <1>4 DEF StripeChargeFails
<1>5. CASE StripeIsPaid(b)
  BY <1>1, <1>5 DEF StripeIsPaid
<1>6. CASE StripeDeletes(b)
  BY <1>1, <1>6 DEF StripeDeletes
<1> QED
  BY <1>2, <1>3, <1>4, <1>5, <1>6 DEF Stripe

-----------------------------------------------------------------------------
(* Rows                                                                     *)

\* A handler leaves the link of its row alone, and the flag unless its event has it.
LEMMA HandleType ==
    ASSUME NEW rec \in RowRecord, NEW e, event[e] \in EventRecord, Writable(e)
    PROVE  /\ Handle(e, rec) \in RowRecord
           /\ Handle(e, rec).link = rec.link
           /\ Handle(e, rec).flag => rec.flag \/ event[e].flag
<1>1. event[e].type \in {"created", "updated"} => Upper[event[e].status] \in RowStatus
  BY DEF Writable, Upper, RowStatus
<1>2. CASE event[e].type = "created"
  BY <1>1, <1>2 DEF Handle, SubscriptionCreated, RowRecord
<1>3. CASE event[e].type = "updated"
  BY <1>1, <1>3 DEF Handle, SubscriptionUpdated, RowRecord, EventRecord
<1>4. CASE event[e].type = "deleted"
  BY <1>4 DEF Handle, SubscriptionDeleted, RowRecord, RowStatus
<1>5. CASE event[e].type = "payment_failed"
  BY <1>5 DEF Handle, InvoicePaymentFailed, RowRecord, RowStatus
<1>6. CASE event[e].type = "payment_succeeded"
  BY <1>6 DEF Handle, InvoicePaymentSucceeded, RowRecord, RowStatus
<1> QED
  BY <1>2, <1>3, <1>4, <1>5, <1>6 DEF EventRecord, Types

\* What a request that is about to write its row knows.
LEMMA WriteFacts ==
    ASSUME Inv, NEW q \in Requests, request[q].pc = "found"
    PROVE  LET e == request[q].id
               r == request[q].row
           IN  /\ e \in Emitted /\ e \in Ids
               /\ event[e] \in EventRecord
               /\ r \in Rows
               /\ row[r] \in RowRecord
               /\ EventSub(e) \in carried[r]
               /\ handled[e] = 0
               /\ \E l \in log : l.id = e
<1>1. request[q].id \in Emitted /\ q \in LoggedRequests
  BY DEF Inv, RequestsOwnTheirEvent, LoggedRequests
<1>2. /\ request[q].row \in Rows
      /\ row[request[q].row] \in RowRecord
      /\ EventSub(request[q].id) \in carried[request[q].row]
  BY DEF Inv, LinksAreCarried, TypeOK
<1>3. handled[request[q].id] = 0 /\ \E l \in log : l.id = request[q].id
  BY <1>1 DEF Inv, RequestsOwnTheirEvent
<1> QED
  BY <1>1, <1>2, <1>3, EventType DEF Inv

-----------------------------------------------------------------------------
(* Initially                                                                *)

THEOREM InitInv == Init => Inv
<1> SUFFICES ASSUME Init PROVE Inv
  OBVIOUS
<1>1. Emitted = {}
  BY DEF Init, Emitted
<1>2. \A r \in Rows : row[r] # None => row[r] \in RowRecord /\ row[r].link = None /\ ~row[r].flag
  <2> DEFINE free == [link |-> None, status |-> "ACTIVE", flag |-> FALSE]
  <2>1. free \in RowRecord /\ free.link = None /\ ~free.flag
    BY DEF RowRecord, RowStatus
  <2>2. \A r \in Rows : row[r] = None \/ row[r] = free
    BY DEF Init
  <2> HIDE DEF free
  <2> QED
    BY <2>1, <2>2
<1>3. row \in [Rows -> RowRecord \union {None}]
  BY <1>2 DEF Init
<1>4. TypeOK
  <2>1. event \in Seq(EventRecord) /\ Len(event) <= MaxEvents
    BY SyncConstants DEF Init
  <2>2. IdleRequest \in RequestRecord /\ [pc |-> "idle", sub |-> None] \in CancelRecord
    BY DEF IdleRequest, RequestRecord, CancelRecord
  <2> QED
    BY <1>3, <2>1, <2>2 DEF Init, TypeOK
<1>5. LogIsOfEvents /\ RequestsOwnTheirEvent /\ HandledIsLogged
  BY DEF Init, LogIsOfEvents, RequestsOwnTheirEvent, HandledIsLogged, LoggedRequests, IdleRequest
<1>6. LinksAreCarried
  BY <1>2 DEF Init, LinksAreCarried, IdleRequest
<1>7. FlagsAreStripes /\ DeletionIsFinal
  BY <1>1 DEF Init, FlagsAreStripes, DeletionIsFinal
<1>8. HandledAtMostOnce /\ AckedIsLogged /\ CancelFlagCameFromStripe
  BY <1>2 DEF Init, HandledAtMostOnce, AckedIsLogged, CancelFlagCameFromStripe
<1> QED
  BY <1>4, <1>5, <1>6, <1>7, <1>8 DEF Inv

-----------------------------------------------------------------------------
(* Types, step by step                                                      *)

\* The records a request steps through.
LEMMA RequestTypes ==
    ASSUME TypeOK
    PROVE  /\ IdleRequest \in RequestRecord
           /\ \A id \in Ids : [IdleRequest EXCEPT !.pc = "valid", !.id = id] \in RequestRecord
           /\ \A q \in Requests :
                 /\ [request[q] EXCEPT !.pc = "logged"] \in RequestRecord
                 /\ \A r \in Rows :
                      [request[q] EXCEPT !.pc = "found", !.row = r] \in RequestRecord
<1>1. \A q \in Requests : request[q] \in RequestRecord
  BY DEF TypeOK
<1> QED
  BY <1>1 DEF RequestRecord, IdleRequest

\* The records a cancellation steps through.
LEMMA CancelTypes ==
    ASSUME TypeOK
    PROVE  /\ [pc |-> "idle", sub |-> None] \in CancelRecord
           /\ \A b \in Subs : [pc |-> "valid", sub |-> b] \in CancelRecord
           /\ \A r \in Rows : [cancel[r] EXCEPT !.pc = "told"] \in CancelRecord
<1>1. \A r \in Rows : cancel[r] \in CancelRecord
  BY DEF TypeOK
<1> QED
  BY <1>1 DEF CancelRecord

THEOREM TypeStep == Inv /\ [Next]_vars => TypeOK'
<1> SUFFICES ASSUME Inv, [Next]_vars PROVE TypeOK'
  OBVIOUS
<1>0. TypeOK
  BY DEF Inv
<1> USE DEF stripeVars, answerVars, rowVars
<1>1. ASSUME NEW b \in Subs, Stripe(b)
      PROVE  TypeOK'
  <2>1. PICK type \in Types, status \in StripeStatus, flag \in BOOLEAN :
          Emit(b, type, status, flag)
    BY <1>0, <1>1, StripeSteps
  <2>2. event' \in Seq(EventRecord) /\ Len(event') <= MaxEvents
    <3>1. event' \in Seq(EventRecord) /\ Len(event') \in Ids
      BY <1>0, <2>1, EmitSteps
    <3> QED
      BY <3>1, SyncConstants DEF Ids
  <2>3. stripe' \in [Subs -> [status : StripeStatus \union {"none"}, flag : BOOLEAN]]
    BY <1>0, <2>1 DEF Emit, TypeOK
  <2>4. flagged' \subseteq Subs
    BY <1>0, <2>1 DEF Emit, TypeOK
  <2> QED
    BY <1>0, <2>1, <2>2, <2>3, <2>4 DEF TypeOK, Emit
<1>2. ASSUME NEW q \in Requests, NEW e \in Ids, Receive(q, e)
      PROVE  TypeOK'
  BY <1>0, <1>2, RequestTypes DEF TypeOK, Receive
<1>3. ASSUME NEW q \in Requests, LogEvent(q)
      PROVE  TypeOK'
  <2>1. request[q].id \in Emitted
    BY <1>3 DEF Inv, RequestsOwnTheirEvent, LogEvent
  <2>2. event[request[q].id] \in EventRecord /\ request[q].id \in Ids
    BY <1>0, <2>1, EventType
  <2>3. [ref |-> EventSub(request[q].id), type |-> event[request[q].id].type,
         id |-> request[q].id] \in [ref : Subs, type : Types, id : Ids]
    BY <2>2 DEF EventRecord, EventSub
  <2>4. request' \in [Requests -> RequestRecord]
    BY <1>0, <1>3, RequestTypes DEF TypeOK, LogEvent
  <2> QED
    BY <1>0, <1>3, <2>3, <2>4 DEF TypeOK, LogEvent
<1>4. ASSUME NEW q \in Requests, RefuseEvent(q) \/ DropEvent(q)
      PROVE  TypeOK'
  <2>1. request[q].id \in Ids
    BY <1>0, <1>4, EventType DEF Inv, RequestsOwnTheirEvent, RefuseEvent, DropEvent
  <2>2. request' \in [Requests -> RequestRecord]
    BY <1>0, <1>4, RequestTypes DEF TypeOK, RefuseEvent, DropEvent
  <2> QED
    BY <1>0, <1>4, <2>1, <2>2 DEF TypeOK, RefuseEvent, DropEvent
<1>5. ASSUME NEW q \in Requests, FindRow(q)
      PROVE  TypeOK'
  <2>1. PICK r \in Rows : request' = [request EXCEPT ![q].pc = "found", ![q].row = r]
    BY <1>5 DEF FindRow, Linked
  <2>2. request' = [request EXCEPT ![q] = [request[q] EXCEPT !.pc = "found", !.row = r]]
    BY <2>1
  <2>3. request' \in [Requests -> RequestRecord]
    BY <1>0, <2>2, RequestTypes DEF TypeOK
  <2> QED
    BY <1>0, <1>5, <2>3 DEF TypeOK, FindRow
<1>6. ASSUME NEW q \in Requests, WriteRow(q)
      PROVE  TypeOK'
  <2> DEFINE e == request[q].id
             r == request[q].row
  <2>1. /\ e \in Ids /\ r \in Rows /\ handled[e] = 0
        /\ Handle(e, row[r]) \in RowRecord
    BY <1>6, WriteFacts, HandleType DEF WriteRow
  <2>2. row' = [row EXCEPT ![r] = Handle(e, row[r])]
    BY <1>6 DEF WriteRow
  <2>3. row' \in [Rows -> RowRecord \union {None}]
    BY <1>0, <2>1, <2>2 DEF TypeOK
  <2>4. handled' \in [Ids -> Nat] /\ acked' \subseteq Ids
    BY <1>0, <1>6, <2>1 DEF TypeOK, WriteRow
  <2>5. request' \in [Requests -> RequestRecord]
    BY <1>0, <1>6, RequestTypes DEF TypeOK, WriteRow
  <2> QED
    BY <1>0, <1>6, <2>3, <2>4, <2>5 DEF TypeOK, WriteRow
<1>7. ASSUME NEW q \in Requests, RequestFails(q)
      PROVE  TypeOK'
  BY <1>0, <1>7, RequestTypes DEF TypeOK, RequestFails
<1>8. ASSUME NEW b \in Subs, NEW r \in Rows, Checkout(b, r)
      PROVE  TypeOK'
  <2>1. [link |-> b, status |-> "ACTIVE", flag |-> FALSE] \in RowRecord
    BY DEF RowRecord, RowStatus
  <2>2. row' \in [Rows -> RowRecord \union {None}]
    BY <1>0, <1>8, <2>1 DEF TypeOK, Checkout
  <2>3. carried' \in [Rows -> SUBSET Subs]
    BY <1>0, <1>8 DEF TypeOK, Checkout
  <2> QED
    BY <1>0, <1>8, <2>2, <2>3 DEF TypeOK, Checkout
<1>9. ASSUME NEW r \in Rows, CancelValidated(r)
      PROVE  TypeOK'
  <2>1. row[r].link \in Subs
    BY <1>0, <1>9 DEF TypeOK, CancelValidated, RowRecord
  <2> QED
    BY <1>0, <1>9, <2>1, CancelTypes DEF TypeOK, CancelValidated
<1>10. ASSUME NEW r \in Rows, CancelTold(r)
       PROVE  TypeOK'
  <2>1. cancel[r].sub \in Subs
    BY <1>0, <1>10 DEF CancelTold, Inv, LinksAreCarried, TypeOK
  <2>2. cancel' = [cancel EXCEPT ![r] = [cancel[r] EXCEPT !.pc = "told"]]
    BY <1>10 DEF CancelTold
  <2>3. cancel' \in [Rows -> CancelRecord]
    BY <1>0, <2>2, CancelTypes DEF TypeOK
  <2> DEFINE sub == cancel[r].sub
  <2>4. [stripe[sub] EXCEPT !.flag = TRUE] \in [status : StripeStatus \union {"none"}, flag : BOOLEAN]
    BY <1>0, <2>1 DEF TypeOK
  <2>5. stripe' = [stripe EXCEPT ![sub] = [stripe[sub] EXCEPT !.flag = TRUE]]
    BY <1>10 DEF CancelTold
  <2>6. stripe' \in [Subs -> [status : StripeStatus \union {"none"}, flag : BOOLEAN]]
    BY <1>0, <2>4, <2>5 DEF TypeOK
  <2> QED
    BY <1>0, <1>10, <2>1, <2>3, <2>6 DEF TypeOK, CancelTold
<1>11. ASSUME NEW r \in Rows, CancelWritten(r)
       PROVE  TypeOK'
  <2>1. row[r] \in RowRecord
    BY <1>0, <1>11 DEF TypeOK, CancelWritten, Inv, LinksAreCarried
  <2>2. [row[r] EXCEPT !.flag = TRUE, !.status = "ACTIVE"] \in RowRecord
    BY <2>1 DEF RowRecord, RowStatus
  <2>3. row' = [row EXCEPT ![r] = [row[r] EXCEPT !.flag = TRUE, !.status = "ACTIVE"]]
    BY <1>11 DEF CancelWritten
  <2>4. row' \in [Rows -> RowRecord \union {None}]
    BY <1>0, <2>2, <2>3 DEF TypeOK
  <2> QED
    BY <1>0, <1>11, <2>4, CancelTypes DEF TypeOK, CancelWritten
<1>12. ASSUME NEW r \in Rows, CancelFails(r)
       PROVE  TypeOK'
  BY <1>0, <1>12, CancelTypes DEF TypeOK, CancelFails
<1>13. CASE UNCHANGED vars
  BY <1>0, <1>13 DEF TypeOK, vars
<1> QED
  BY <1>1, <1>2, <1>3, <1>4, <1>5, <1>6, <1>7, <1>8, <1>9, <1>10, <1>11, <1>12, <1>13
  DEF Next, Webhook, Cancellation

-----------------------------------------------------------------------------
(* What no step takes back                                                  *)

\* An emitted event stays as it is.
LEMMA EventsStay ==
    ASSUME Inv, [Next]_vars
    PROVE  /\ Emitted \subseteq Emitted'
           /\ \A e \in Emitted : event'[e] = event[e]
<1>0. TypeOK
  BY DEF Inv
<1>1. ASSUME NEW b \in Subs, Stripe(b)
      PROVE  Emitted \subseteq Emitted' /\ \A e \in Emitted : event'[e] = event[e]
  <2>1. PICK type \in Types, status \in StripeStatus, flag \in BOOLEAN :
          Emit(b, type, status, flag)
    BY <1>0, <1>1, StripeSteps
  <2>2. Emitted' = Emitted \union {Len(event')} /\ \A e \in Emitted : event'[e] = event[e]
    BY <1>0, <2>1, EmitSteps
  <2> QED
    BY <2>2
<1>2. CASE UNCHANGED event
  BY <1>2 DEF Emitted
<1>3. ASSUME NEW q \in Requests, Webhook(q)
      PROVE  UNCHANGED event
  BY <1>3 DEF Webhook, Receive, LogEvent, RefuseEvent, FindRow, DropEvent, WriteRow,
              RequestFails, stripeVars
<1>4. ASSUME NEW r \in Rows, Cancellation(r) \/ \E b \in Subs : Checkout(b, r)
      PROVE  UNCHANGED event
  BY <1>4 DEF Cancellation, CancelValidated, CancelTold, CancelWritten, CancelFails, Checkout,
              stripeVars
<1>5. CASE UNCHANGED vars
  BY <1>2, <1>5 DEF vars
<1> QED
  BY <1>1, <1>2, <1>3, <1>4, <1>5 DEF Next

\* The log, the history of flags and what rows have carried only grow.
LEMMA HistoriesGrow ==
    ASSUME Inv, [Next]_vars
    PROVE  /\ log \subseteq log'
           /\ flagged \subseteq flagged'
           /\ \A r \in Rows : carried[r] \subseteq carried'[r]
           /\ \A r \in Rows : row[r] # None => row'[r] # None
<1>0. TypeOK
  BY DEF Inv
<1> USE DEF stripeVars, answerVars, rowVars
<1> DEFINE Goal == /\ log \subseteq log'
                   /\ flagged \subseteq flagged'
                   /\ \A r \in Rows : carried[r] \subseteq carried'[r]
                   /\ \A r \in Rows : row[r] # None => row'[r] # None
<1> SUFFICES Goal
  OBVIOUS
<1>1. ASSUME NEW b \in Subs, Stripe(b)
      PROVE  Goal
  BY <1>0, <1>1, StripeSteps DEF Emit
<1>2. ASSUME NEW q \in Requests, Webhook(q), ~WriteRow(q)
      PROVE  Goal
  BY <1>2 DEF Webhook, Receive, LogEvent, RefuseEvent, FindRow, DropEvent, RequestFails
<1>3. ASSUME NEW q \in Requests, WriteRow(q)
      PROVE  Goal
  <2> DEFINE e == request[q].id
             r == request[q].row
  <2>1. Handle(e, row[r]) \in RowRecord /\ r \in Rows
    BY <1>3, WriteFacts, HandleType DEF WriteRow
  <2>2. row' = [row EXCEPT ![r] = Handle(e, row[r])]
    BY <1>3 DEF WriteRow
  <2>3. \A c \in Rows : row[c] # None => row'[c] # None
    BY <1>0, <2>1, <2>2, NoneIsNoRow DEF TypeOK
  <2> QED
    BY <1>3, <2>3 DEF WriteRow
<1>4. ASSUME NEW b \in Subs, NEW r \in Rows, Checkout(b, r)
      PROVE  Goal
  <2>1. [link |-> b, status |-> "ACTIVE", flag |-> FALSE] \in RowRecord
    BY DEF RowRecord, RowStatus
  <2>2. \A c \in Rows : row[c] # None => row'[c] # None
    BY <1>0, <1>4, <2>1, NoneIsNoRow DEF TypeOK, Checkout
  <2>3. \A c \in Rows : carried[c] \subseteq carried'[c]
    BY <1>0, <1>4 DEF TypeOK, Checkout
  <2> QED
    BY <1>4, <2>2, <2>3 DEF Checkout
<1>5. ASSUME NEW r \in Rows, CancelWritten(r)
      PROVE  Goal
  <2>1. row' \in [Rows -> RowRecord \union {None}] /\ row[r] \in RowRecord
    BY <1>0, <1>5, TypeStep DEF TypeOK, CancelWritten, Inv, LinksAreCarried
  <2> DEFINE rec == [row[r] EXCEPT !.flag = TRUE, !.status = "ACTIVE"]
  <2>2. rec \in RowRecord
    BY <2>1 DEF RowRecord, RowStatus
  <2>3. row' = [row EXCEPT ![r] = rec]
    BY <1>5 DEF CancelWritten
  <2> HIDE DEF rec
  <2>4. \A c \in Rows : row[c] # None => row'[c] # None
    BY <1>0, <2>2, <2>3, NoneIsNoRow DEF TypeOK
  <2> QED
    BY <1>5, <2>4 DEF CancelWritten
<1>6. ASSUME NEW r \in Rows, CancelValidated(r) \/ CancelTold(r) \/ CancelFails(r)
      PROVE  Goal
  BY <1>6 DEF CancelValidated, CancelTold, CancelFails
<1>7. CASE UNCHANGED vars
  BY <1>7 DEF vars
<1> HIDE DEF Goal
<1> QED
  BY <1>1, <1>2, <1>3, <1>4, <1>5, <1>6, <1>7 DEF Next, Cancellation

-----------------------------------------------------------------------------
(* The invariant, part by part                                              *)

\* Every way a request can change.
LEMMA RequestAfter ==
    ASSUME Inv, [Next]_vars, NEW q \in Requests
    PROVE  \/ request'[q] = request[q]
           \/ request'[q] = IdleRequest
           \/ request'[q].pc = "valid" /\ request'[q].id \in Emitted
           \/ LogEvent(q) /\ request'[q].pc = "logged" /\ request'[q].id = request[q].id
           \/ /\ FindRow(q)
              /\ request[q].pc = "logged"
              /\ request'[q].pc = "found"
              /\ request'[q].id = request[q].id
              /\ request'[q].row \in Linked(EventSub(request[q].id))
<1>0. /\ TypeOK
      /\ request \in [Requests -> RequestRecord]
  BY DEF Inv, TypeOK
<1> DEFINE Goal == \/ request'[q] = request[q]
                   \/ request'[q] = IdleRequest
                   \/ request'[q].pc = "valid" /\ request'[q].id \in Emitted
                   \/ LogEvent(q) /\ request'[q].pc = "logged" /\ request'[q].id = request[q].id
                   \/ /\ FindRow(q)
                      /\ request[q].pc = "logged"
                      /\ request'[q].pc = "found"
                      /\ request'[q].id = request[q].id
                      /\ request'[q].row \in Linked(EventSub(request[q].id))
<1> SUFFICES Goal
  OBVIOUS
<1>1. ASSUME NEW p \in Requests, NEW e \in Ids, Receive(p, e)
      PROVE  Goal
  <2> DEFINE rec == [IdleRequest EXCEPT !.pc = "valid", !.id = e]
  <2>1. rec.pc = "valid" /\ rec.id = e /\ e \in Emitted
    BY <1>1 DEF IdleRequest, Receive
  <2>2. UNCHANGED request \/ request' = [request EXCEPT ![p] = rec]
    BY <1>1 DEF Receive
  <2> HIDE DEF rec
  <2> QED
    BY <1>0, <2>1, <2>2
<1>2. ASSUME NEW p \in Requests, LogEvent(p)
      PROVE  Goal
  BY <1>0, <1>2 DEF LogEvent, RequestRecord
<1>3. ASSUME NEW p \in Requests, FindRow(p)
      PROVE  Goal
  <2>1. PICK r \in Linked(EventSub(request[p].id)) :
          request' = [request EXCEPT ![p].pc = "found", ![p].row = r]
    BY <1>3 DEF FindRow
  <2>2. request'[p].pc = "found" /\ request'[p].row = r /\ request'[p].id = request[p].id
    BY <1>0, <2>1 DEF RequestRecord
  <2>3. request[p].pc = "logged" /\ (p # q => request'[q] = request[q])
    BY <1>0, <1>3, <2>1 DEF FindRow
  <2> QED
    BY <1>3, <2>2, <2>3
<1>4. ASSUME NEW p \in Requests,
             RefuseEvent(p) \/ DropEvent(p) \/ WriteRow(p) \/ RequestFails(p)
      PROVE  Goal
  BY <1>0, <1>4 DEF RefuseEvent, DropEvent, WriteRow, RequestFails
<1>5. ASSUME NEW b \in Subs, Stripe(b)
      PROVE  request'[q] = request[q]
  BY <1>0, <1>5, StripeSteps DEF Emit
<1>6. ASSUME NEW r \in Rows, Cancellation(r) \/ \E b \in Subs : Checkout(b, r)
      PROVE  request'[q] = request[q]
  BY <1>6 DEF Cancellation, CancelValidated, CancelTold, CancelWritten, CancelFails, Checkout
<1>7. CASE UNCHANGED vars
  BY <1>7 DEF vars
<1> HIDE DEF Goal
<1>8. request'[q] = request[q] => Goal
  BY DEF Goal
<1> QED
  BY <1>1, <1>2, <1>3, <1>4, <1>5, <1>6, <1>7, <1>8 DEF Next, Webhook, vars

\* What is handled, acknowledged or logged by a step.
LEMMA AnswerSteps ==
    ASSUME Inv, [Next]_vars
    PROVE  \/ UNCHANGED <<handled, acked, log>>
           \/ \E q \in Requests : WriteRow(q) \/ DropEvent(q) \/ LogEvent(q)
<1>0. TypeOK
  BY DEF Inv
<1>1. ASSUME NEW q \in Requests, NEW e \in Ids, Receive(q, e)
      PROVE  UNCHANGED <<handled, acked, log>>
  <2>1. ~Duplicate(e)
    BY <1>0, SyncConstants DEF Duplicate, TypeOK, Ids
  <2> QED
    BY <1>1, <2>1 DEF Receive
<1>2. ASSUME NEW q \in Requests, RefuseEvent(q) \/ FindRow(q) \/ RequestFails(q)
      PROVE  UNCHANGED <<handled, acked, log>>
  BY <1>2 DEF RefuseEvent, FindRow, RequestFails, answerVars
<1>3. ASSUME NEW b \in Subs, Stripe(b)
      PROVE  UNCHANGED <<handled, acked, log>>
  BY <1>0, <1>3, StripeSteps DEF Emit, answerVars
<1>4. ASSUME NEW r \in Rows, Cancellation(r) \/ \E b \in Subs : Checkout(b, r)
      PROVE  UNCHANGED <<handled, acked, log>>
  BY <1>4 DEF Cancellation, CancelValidated, CancelTold, CancelWritten, CancelFails, Checkout,
              answerVars
<1>5. CASE UNCHANGED vars
  BY <1>5 DEF vars
<1> QED
  BY <1>1, <1>2, <1>3, <1>4, <1>5 DEF Next, Webhook

\* The unique key: an event that gets into the log is not in it yet, and neither
\* is any request ahead of it with the same event.
LEMMA KeyAdmitsOnce ==
    ASSUME Inv, NEW q \in Requests, LogEvent(q)
    PROVE  LET e == request[q].id
           IN  /\ e \in Emitted
               /\ \A l \in log : l.id # e
               /\ \A p \in LoggedRequests : request[p].id # e
               /\ handled[e] = 0
<1> DEFINE e == request[q].id
<1>1. e \in Emitted /\ e \in Ids
  BY EventType DEF Inv, RequestsOwnTheirEvent, LogEvent
<1>2. \A l \in log : l.id # e
  BY DEF LogEvent, SameKey, Inv, LogIsOfEvents
<1>3. \A p \in LoggedRequests : request[p].id # e
  BY <1>2 DEF Inv, RequestsOwnTheirEvent
<1>4. handled[e] = 0
  <2>1. handled[e] \in Nat
    BY <1>1 DEF Inv, TypeOK
  <2>2. ~(handled[e] > 0)
    BY <1>1, <1>2 DEF Inv, HandledIsLogged
  <2> QED
    BY <2>1, <2>2
<1> QED
  BY <1>1, <1>2, <1>3, <1>4

THEOREM LogStep == Inv /\ [Next]_vars => LogIsOfEvents'
<1> SUFFICES ASSUME Inv, [Next]_vars, NEW l \in log'
             PROVE  /\ l.id \in Emitted'
                    /\ l.ref = event'[l.id].sub
                    /\ l.type = event'[l.id].type
  BY DEF LogIsOfEvents, EventSub
<1>1. \A k \in log : /\ k.id \in Emitted'
                     /\ k.ref = event'[k.id].sub
                     /\ k.type = event'[k.id].type
  BY EventsStay DEF Inv, LogIsOfEvents, EventSub
<1>2. ASSUME NEW q \in Requests, LogEvent(q)
      PROVE  /\ l.id \in Emitted'
             /\ l.ref = event'[l.id].sub
             /\ l.type = event'[l.id].type
  <2>1. request[q].id \in Emitted
    BY <1>2, KeyAdmitsOnce
  <2>2. l \in log \/ l = [ref |-> EventSub(request[q].id), type |-> event[request[q].id].type,
                          id |-> request[q].id]
    BY <1>2 DEF LogEvent
  <2> QED
    BY <1>1, <2>1, <2>2, EventsStay DEF EventSub
<1>3. ASSUME NEW q \in Requests, WriteRow(q) \/ DropEvent(q)
      PROVE  UNCHANGED log
  BY <1>3 DEF WriteRow, DropEvent
<1> QED
  BY <1>1, <1>2, <1>3, AnswerSteps

\* A request that is past the log is the only one for its event, and no handler has
\* written that event: deliveries that overlap are told apart by the unique key.
THEOREM RequestsStep == Inv /\ [Next]_vars => RequestsOwnTheirEvent'
<1> SUFFICES ASSUME Inv, [Next]_vars PROVE RequestsOwnTheirEvent'
  OBVIOUS
<1>0. TypeOK
  BY DEF Inv
<1>1. \A q \in Requests : request'[q].pc # "idle" => request'[q].id \in Emitted'
  BY RequestAfter, EventsStay DEF Inv, RequestsOwnTheirEvent, IdleRequest, LogEvent
<1>2. \A q \in LoggedRequests' :
         \/ LogEvent(q) /\ request'[q].id = request[q].id
         \/ q \in LoggedRequests /\ request'[q].id = request[q].id
  BY RequestAfter DEF LoggedRequests, IdleRequest
<1>3. \A q \in LoggedRequests' : \E l \in log' : l.id = request'[q].id
  <2>1. ASSUME NEW q \in Requests, LogEvent(q)
        PROVE  \E l \in log' : l.id = request[q].id
    <3> DEFINE new == [ref |-> EventSub(request[q].id), type |-> event[request[q].id].type,
                       id |-> request[q].id]
    <3>1. new \in log' /\ new.id = request[q].id
      BY <2>1 DEF LogEvent
    <3> QED
      BY <3>1
  <2> QED
    BY <1>2, <2>1, HistoriesGrow DEF Inv, RequestsOwnTheirEvent, LoggedRequests
<1>4. \A p, q \in LoggedRequests' : request'[p].id = request'[q].id => p = q
  <2>1. ASSUME NEW p \in Requests, NEW q \in Requests, LogEvent(p), LogEvent(q)
        PROVE  p = q
    BY <1>0, <2>1 DEF LogEvent, TypeOK, RequestRecord
  <2>2. ASSUME NEW p \in Requests, LogEvent(p), NEW q \in LoggedRequests
        PROVE  request[p].id # request[q].id
    BY <2>2, KeyAdmitsOnce
  <2> QED
    BY <1>2, <2>1, <2>2 DEF Inv, RequestsOwnTheirEvent, LoggedRequests
<1>5. \A q \in LoggedRequests' : handled'[request'[q].id] = 0
  <2>1. \A q \in LoggedRequests' : handled[request'[q].id] = 0
    BY <1>2, KeyAdmitsOnce DEF Inv, RequestsOwnTheirEvent, LoggedRequests
  <2>2. ASSUME NEW p \in Requests, WriteRow(p), NEW q \in LoggedRequests'
        PROVE  handled'[request'[q].id] = 0
    <3>1. p \in LoggedRequests /\ p \notin LoggedRequests'
      BY <1>0, <2>2 DEF WriteRow, LoggedRequests, IdleRequest, TypeOK
    <3>2. ~LogEvent(q)
      <4>1. ASSUME LogEvent(q) PROVE FALSE
        <5>1. /\ request[p].pc = "found" /\ request[q].pc = "valid"
              /\ request' = [request EXCEPT ![p] = IdleRequest]
          BY <2>2, <4>1 DEF WriteRow, LogEvent
        <5>2. request'[q].pc = "valid"
          BY <1>0, <5>1 DEF TypeOK, LoggedRequests
        <5> QED
          BY <5>2 DEF LoggedRequests
      <4> QED
        BY <4>1
    <3>3. q \in LoggedRequests /\ request'[q].id = request[q].id
      BY <1>2, <3>2
    <3>4. request[q].id # request[p].id
      BY <3>1, <3>3 DEF Inv, RequestsOwnTheirEvent
    <3>5. request'[q].id \in Ids /\ handled[request'[q].id] = 0
      BY <1>0, <2>1, <3>3, EventType DEF Inv, RequestsOwnTheirEvent, LoggedRequests
    <3> QED
      BY <1>0, <2>2, <3>3, <3>4, <3>5 DEF WriteRow, TypeOK
  <2>3. ASSUME NEW p \in Requests, DropEvent(p) \/ LogEvent(p)
        PROVE  UNCHANGED handled
    BY <2>3 DEF DropEvent, LogEvent, answerVars
  <2> QED
    BY <2>1, <2>2, <2>3, AnswerSteps
<1> QED
  BY <1>1, <1>3, <1>4, <1>5 DEF RequestsOwnTheirEvent

\* No event is handled twice, and what is handled or acknowledged is in the log.
THEOREM AnswersStep ==
    Inv /\ [Next]_vars => HandledAtMostOnce' /\ HandledIsLogged' /\ AckedIsLogged'
<1> SUFFICES ASSUME Inv, [Next]_vars
             PROVE  HandledAtMostOnce' /\ HandledIsLogged' /\ AckedIsLogged'
  OBVIOUS
<1>0. /\ TypeOK
      /\ log \subseteq log'
      /\ \A e \in Ids : handled[e] <= 1 /\ (handled[e] > 0 => \E l \in log : l.id = e)
      /\ \A e \in acked : \E l \in log : l.id = e
  BY HistoriesGrow DEF Inv, HandledAtMostOnce, HandledIsLogged, AckedIsLogged
<1>1. CASE UNCHANGED <<handled, acked, log>>
  BY <1>0, <1>1 DEF HandledAtMostOnce, HandledIsLogged, AckedIsLogged
<1>2. ASSUME NEW q \in Requests, WriteRow(q)
      PROVE  HandledAtMostOnce' /\ HandledIsLogged' /\ AckedIsLogged'
  <2> DEFINE e == request[q].id
  <2>1. e \in Ids /\ handled[e] = 0 /\ \E l \in log' : l.id = e
    BY <1>0, <1>2, WriteFacts DEF WriteRow
  <2>2. handled' = [handled EXCEPT ![e] = handled[e] + 1] /\ acked' = acked \union {e}
    BY <1>2 DEF WriteRow
  <2>3. \A d \in Ids : handled'[d] = handled[d] \/ (d = e /\ handled'[d] = 1)
    BY <1>0, <2>1, <2>2 DEF TypeOK
  <2> QED
    BY <1>0, <2>1, <2>2, <2>3 DEF HandledAtMostOnce, HandledIsLogged, AckedIsLogged
<1>3. ASSUME NEW q \in Requests, DropEvent(q)
      PROVE  HandledAtMostOnce' /\ HandledIsLogged' /\ AckedIsLogged'
  <2>1. \E l \in log' : l.id = request[q].id
    BY <1>0, <1>3 DEF DropEvent, Inv, RequestsOwnTheirEvent, LoggedRequests
  <2> QED
    BY <1>0, <1>3, <2>1 DEF DropEvent, HandledAtMostOnce, HandledIsLogged, AckedIsLogged
<1>4. ASSUME NEW q \in Requests, LogEvent(q)
      PROVE  HandledAtMostOnce' /\ HandledIsLogged' /\ AckedIsLogged'
  BY <1>0, <1>4 DEF LogEvent, answerVars, HandledAtMostOnce, HandledIsLogged, AckedIsLogged
<1> QED
  BY <1>1, <1>2, <1>3, <1>4, AnswerSteps

\* What each step makes of a row: a handler keeps the link and adds no flag but its
\* event's; only a cancellation that Stripe was told of adds one of its own.
LEMMA RowAfter ==
    ASSUME Inv, [Next]_vars, NEW r \in Rows
    PROVE  \/ row'[r] = row[r]
           \/ \E q \in Requests : /\ WriteRow(q) /\ request[q].row = r
                                  /\ row[r] # None
                                  /\ row'[r].link = row[r].link
                                  /\ row'[r].flag => row[r].flag \/ event[request[q].id].flag
           \/ \E b \in Subs : /\ Checkout(b, r)
                              /\ b \in carried'[r]
                              /\ row'[r].link = b /\ ~row'[r].flag
           \/ CancelWritten(r) /\ row[r] # None /\ row'[r].link = row[r].link
<1> DEFINE Goal == \/ row'[r] = row[r]
                   \/ \E q \in Requests : /\ WriteRow(q) /\ request[q].row = r
                                          /\ row[r] # None
                                          /\ row'[r].link = row[r].link
                                          /\ row'[r].flag => row[r].flag \/ event[request[q].id].flag
                   \/ \E b \in Subs : /\ Checkout(b, r)
                                      /\ b \in carried'[r]
                                      /\ row'[r].link = b /\ ~row'[r].flag
                   \/ CancelWritten(r) /\ row[r] # None /\ row'[r].link = row[r].link
<1> SUFFICES Goal
  OBVIOUS
<1>0. /\ TypeOK
      /\ row \in [Rows -> RowRecord \union {None}]
  BY DEF Inv, TypeOK
<1>1. CASE row'[r] = row[r]
  BY <1>1
<1>2. ASSUME NEW q \in Requests, WriteRow(q)
      PROVE  Goal
  <2> DEFINE e == request[q].id
             c == request[q].row
             after == Handle(e, row[c])
  <2>1. c \in Rows /\ row[c] \in RowRecord /\ event[e] \in EventRecord /\ Writable(e)
    BY <1>2, WriteFacts DEF WriteRow
  <2>2. after.link = row[c].link /\ (after.flag => row[c].flag \/ event[e].flag)
    BY <2>1, HandleType
  <2>3. row' = [row EXCEPT ![c] = after]
    BY <1>2 DEF WriteRow
  <2> HIDE DEF after
  <2>4. CASE c = r
    <3>1. row'[r] = after /\ row[r] # None
      BY <1>0, <2>1, <2>3, <2>4, NoneIsNoRow
    <3> QED
      BY <1>2, <2>2, <2>4, <3>1
  <2> QED
    BY <1>0, <2>3, <2>4
<1>3. ASSUME NEW b \in Subs, NEW c \in Rows, Checkout(b, c)
      PROVE  Goal
  <2>1. c # r => row'[r] = row[r]
    BY <1>0, <1>3 DEF Checkout
  <2>2. c = r => row'[r].link = b /\ ~row'[r].flag /\ b \in carried'[r]
    BY <1>0, <1>3 DEF Checkout, TypeOK
  <2> QED
    BY <1>3, <2>1, <2>2
<1>4. ASSUME NEW c \in Rows, CancelWritten(c)
      PROVE  Goal
  <2>1. row[c] \in RowRecord
    BY <1>0, <1>4 DEF CancelWritten, Inv, LinksAreCarried
  <2> DEFINE after == [row[c] EXCEPT !.flag = TRUE, !.status = "ACTIVE"]
  <2>2. after.link = row[c].link
    BY <2>1 DEF RowRecord
  <2>3. row' = [row EXCEPT ![c] = after]
    BY <1>4 DEF CancelWritten
  <2> HIDE DEF after
  <2>4. c = r => row'[r] = after /\ row[r] # None
    BY <1>0, <2>1, <2>3, NoneIsNoRow
  <2>5. c # r => row'[r] = row[r]
    BY <1>0, <2>3
  <2> QED
    BY <1>4, <2>2, <2>4, <2>5
<1> USE DEF rowVars
<1>5. ASSUME NEW b \in Subs, Stripe(b)
      PROVE  UNCHANGED row
  BY <1>0, <1>5, StripeSteps DEF Emit
<1>6. ASSUME NEW q \in Requests, Webhook(q), ~WriteRow(q)
      PROVE  UNCHANGED row
  BY <1>6 DEF Webhook, Receive, LogEvent, RefuseEvent, FindRow, DropEvent, RequestFails
<1>7. ASSUME NEW c \in Rows, Cancellation(c), ~CancelWritten(c)
      PROVE  UNCHANGED row
  BY <1>7 DEF Cancellation, CancelValidated, CancelTold, CancelFails
<1>8. CASE UNCHANGED vars
  BY <1>1, <1>8 DEF vars
<1> HIDE DEF Goal
<1> QED
  BY <1>1, <1>2, <1>3, <1>4, <1>5, <1>6, <1>7, <1>8 DEF Next

\* Every way a cancellation request can change.
LEMMA CancelAfter ==
    ASSUME Inv, [Next]_vars, NEW r \in Rows
    PROVE  \/ cancel'[r] = cancel[r]
           \/ cancel'[r].pc = "idle"
           \/ /\ row[r] # None
              /\ row[r].link # None
              /\ cancel'[r].pc = "valid"
              /\ cancel'[r].sub = row[r].link
           \/ /\ cancel[r].pc = "valid"
              /\ cancel'[r].pc = "told"
              /\ cancel'[r].sub = cancel[r].sub
              /\ cancel[r].sub \in flagged'
<1> DEFINE Goal == \/ cancel'[r] = cancel[r]
                   \/ cancel'[r].pc = "idle"
                   \/ /\ row[r] # None
                      /\ row[r].link # None
                      /\ cancel'[r].pc = "valid"
                      /\ cancel'[r].sub = row[r].link
                   \/ /\ cancel[r].pc = "valid"
                      /\ cancel'[r].pc = "told"
                      /\ cancel'[r].sub = cancel[r].sub
                      /\ cancel[r].sub \in flagged'
<1> SUFFICES Goal
  OBVIOUS
<1>0. TypeOK /\ cancel \in [Rows -> CancelRecord]
  BY DEF Inv, TypeOK
<1>1. ASSUME NEW c \in Rows, CancelValidated(c)
      PROVE  Goal
  BY <1>0, <1>1 DEF CancelValidated
<1>2. ASSUME NEW c \in Rows, CancelTold(c)
      PROVE  Goal
  BY <1>0, <1>2 DEF CancelTold, CancelRecord
<1>3. ASSUME NEW c \in Rows, CancelWritten(c) \/ CancelFails(c)
      PROVE  Goal
  BY <1>0, <1>3 DEF CancelWritten, CancelFails
<1>4. ASSUME NEW b \in Subs, Stripe(b)
      PROVE  UNCHANGED cancel
  BY <1>0, <1>4, StripeSteps DEF Emit
<1>5. ASSUME NEW q \in Requests, Webhook(q)
      PROVE  UNCHANGED cancel
  BY <1>5 DEF Webhook, Receive, LogEvent, RefuseEvent, FindRow, DropEvent, WriteRow, RequestFails
<1>6. ASSUME NEW b \in Subs, NEW c \in Rows, Checkout(b, c)
      PROVE  UNCHANGED cancel
  BY <1>6 DEF Checkout
<1>7. CASE UNCHANGED vars
  BY <1>7 DEF vars
<1> QED
  BY <1>1, <1>2, <1>3, <1>4, <1>5, <1>6, <1>7 DEF Next, Cancellation

\* Rows, requests and cancellations keep knowing only what their row has carried.
THEOREM LinksStep == Inv /\ [Next]_vars => LinksAreCarried'
<1> SUFFICES ASSUME Inv, [Next]_vars PROVE LinksAreCarried'
  OBVIOUS
<1>0. /\ TypeOK
      /\ \A r \in Rows : carried[r] \subseteq carried'[r]
      /\ \A r \in Rows : row[r] # None => row'[r] # None
      /\ \A r \in Rows : row[r] # None /\ row[r].link # None => row[r].link \in carried[r]
  BY HistoriesGrow DEF Inv, LinksAreCarried
<1>1. ASSUME NEW r \in Rows, row'[r] # None, row'[r].link # None
      PROVE  row'[r].link \in carried'[r]
  BY <1>0, <1>1, RowAfter
<1>2. ASSUME NEW q \in Requests, request'[q].pc = "found"
      PROVE  /\ request'[q].row \in Rows
             /\ row'[request'[q].row] # None
             /\ event'[request'[q].id].sub \in carried'[request'[q].row]
  <2>1. CASE request'[q] = request[q]
    <3>1. /\ request[q].row \in Rows
          /\ row[request[q].row] # None
          /\ EventSub(request[q].id) \in carried[request[q].row]
          /\ request[q].id \in Emitted
      BY <1>2, <2>1 DEF Inv, LinksAreCarried, RequestsOwnTheirEvent
    <3> QED
      BY <1>0, <2>1, <3>1, EventsStay DEF EventSub
  <2>2. CASE FindRow(q) /\ request'[q].row \in Linked(EventSub(request[q].id))
             /\ request'[q].id = request[q].id
    <3> DEFINE r == request'[q].row
               e == request[q].id
    <3>1. e \in Emitted
      BY <2>2 DEF FindRow, Inv, RequestsOwnTheirEvent
    <3>2. EventSub(e) \in Subs
      BY <1>0, <3>1, EventType DEF EventSub, EventRecord
    <3>3. r \in Rows /\ row[r] # None /\ row[r].link = EventSub(e)
      BY <2>2 DEF Linked
    <3>4. EventSub(e) \in carried[r]
      BY <1>0, <3>2, <3>3, SyncConstants
    <3> QED
      BY <1>0, <2>2, <3>1, <3>3, <3>4, EventsStay DEF EventSub
  <2> QED
    BY <1>2, <2>1, <2>2, RequestAfter DEF IdleRequest
<1>3. ASSUME NEW r \in Rows, cancel'[r].pc # "idle"
      PROVE  row'[r] # None /\ cancel'[r].sub \in carried'[r]
  BY <1>0, <1>3, CancelAfter DEF Inv, LinksAreCarried
<1> QED
  BY <1>1, <1>2, <1>3 DEF LinksAreCarried, EventSub

\* Whatever carries cancel_at_period_end, Stripe had it set for that subscription.
THEOREM FlagsStep == Inv /\ [Next]_vars => FlagsAreStripes'
<1> SUFFICES ASSUME Inv, [Next]_vars PROVE FlagsAreStripes'
  OBVIOUS
<1>0. /\ TypeOK
      /\ flagged \subseteq flagged'
      /\ \A b \in Subs : stripe[b].flag => b \in flagged
      /\ \A e \in Emitted : event[e].flag => EventSub(e) \in flagged
  BY HistoriesGrow DEF Inv, FlagsAreStripes
<1>1. \A r \in Rows : cancel'[r].pc = "told" => cancel'[r].sub \in flagged'
  BY <1>0, CancelAfter DEF Inv, FlagsAreStripes
<1> DEFINE Told == /\ \A b \in Subs : stripe'[b].flag => b \in flagged'
                   /\ \A e \in Emitted' : event'[e].flag => event'[e].sub \in flagged'
<1>2. ASSUME NEW b \in Subs, Stripe(b)
      PROVE  Told
  <2>1. PICK type \in Types, status \in StripeStatus, flag \in BOOLEAN :
          Emit(b, type, status, flag)
    BY <1>0, <1>2, StripeSteps
  <2>2. \A c \in Subs : stripe'[c].flag => c \in flagged'
    BY <1>0, <2>1 DEF Emit, TypeOK
  <2> DEFINE new == Len(event')
  <2>3. /\ event'[new] = [type |-> type, sub |-> b, status |-> status, flag |-> flag]
        /\ \A e \in Emitted : event'[e] = event[e]
        /\ Emitted' = Emitted \union {new}
    BY <1>0, <2>1, EmitSteps
  <2>4. flag => b \in flagged'
    BY <2>1 DEF Emit
  <2> HIDE DEF new
  <2>5. \A e \in Emitted : event'[e].flag => event'[e].sub \in flagged'
    BY <1>0, <2>3 DEF EventSub
  <2> QED
    BY <2>2, <2>3, <2>4, <2>5
<1>3. (UNCHANGED <<stripe, event>>) => Told
  BY <1>0 DEF Emitted, EventSub
<1>4. ASSUME NEW r \in Rows, CancelTold(r)
      PROVE  Told
  <2>1. cancel[r].sub \in Subs
    BY <1>0, <1>4 DEF CancelTold, Inv, LinksAreCarried, TypeOK
  <2>2. \A c \in Subs : stripe'[c].flag => c \in flagged'
    BY <1>0, <1>4, <2>1 DEF CancelTold, TypeOK
  <2> QED
    BY <1>0, <1>4, <2>2 DEF CancelTold, Emitted, EventSub
<1>5. ASSUME NEW r \in Rows, Cancellation(r), ~CancelTold(r)
      PROVE  UNCHANGED <<stripe, event>>
  BY <1>5 DEF Cancellation, CancelValidated, CancelWritten, CancelFails, stripeVars
<1>6. ASSUME NEW q \in Requests, Webhook(q)
      PROVE  UNCHANGED <<stripe, event>>
  BY <1>6 DEF Webhook, Receive, LogEvent, RefuseEvent, FindRow, DropEvent, WriteRow,
              RequestFails, stripeVars
<1>7. ASSUME NEW b \in Subs, NEW r \in Rows, Checkout(b, r)
      PROVE  UNCHANGED <<stripe, event>>
  BY <1>7 DEF Checkout, stripeVars
<1>8. ASSUME UNCHANGED vars
      PROVE  UNCHANGED <<stripe, event>>
  BY <1>8 DEF vars
<1> HIDE DEF Told
<1>9. Told
  BY <1>2, <1>3, <1>4, <1>5, <1>6, <1>7, <1>8 DEF Next
<1> QED
  BY <1>1, <1>9 DEF FlagsAreStripes, EventSub, Told

\* After a deletion Stripe emits nothing of the subscription but paid invoices.
THEOREM DeletionStep == Inv /\ [Next]_vars => DeletionIsFinal'
<1> SUFFICES ASSUME Inv, [Next]_vars, NEW d \in Emitted', event'[d].type = "deleted"
             PROVE  /\ stripe'[event'[d].sub].status = "canceled"
                    /\ \A e \in Emitted' : e > d /\ event'[e].sub = event'[d].sub =>
                          event'[e].type = "payment_succeeded"
  BY DEF DeletionIsFinal, EventSub
<1>0. TypeOK
  BY DEF Inv
<1>1. \A c \in Emitted : event[c].type = "deleted" =>
        /\ event[c].sub \in Subs
        /\ stripe[event[c].sub].status = "canceled"
        /\ \A e \in Emitted : e > c /\ event[e].sub = event[c].sub =>
              event[e].type = "payment_succeeded"
  BY <1>0, EventType DEF Inv, DeletionIsFinal, EventSub, EventRecord
<1> DEFINE Goal == /\ stripe'[event'[d].sub].status = "canceled"
                   /\ \A e \in Emitted' : e > d /\ event'[e].sub = event'[d].sub =>
                         event'[e].type = "payment_succeeded"
<1>2. ASSUME NEW b \in Subs, Stripe(b)
      PROVE  Goal
  <2>1. PICK type \in Types, status \in StripeStatus, flag \in BOOLEAN :
          /\ Emit(b, type, status, flag)
          /\ type = "deleted" => status = "canceled"
          /\ stripe[b].status = "canceled" => type = "payment_succeeded" /\ status = "canceled"
    BY <1>0, <1>2, StripeSteps
  <2> DEFINE new == Len(event')
  <2>2. /\ event'[new] = [type |-> type, sub |-> b, status |-> status, flag |-> flag]
        /\ \A e \in Emitted : event'[e] = event[e]
        /\ Emitted' = Emitted \union {new}
        /\ new = Len(event) + 1
    BY <1>0, <2>1, EmitSteps
  <2>3. \A e \in Emitted : ~(e > new)  /\ e \in Nat
    BY <1>0, <2>2 DEF Emitted, TypeOK
  <2>4. stripe' = [stripe EXCEPT ![b] = [status |-> status, flag |-> flag]]
    BY <2>1 DEF Emit
  <2> HIDE DEF new
  <2>5. CASE d \in Emitted
    <3>1. /\ event[d].sub \in Subs
          /\ stripe[event[d].sub].status = "canceled"
          /\ event[d].type = "deleted"
          /\ event'[d] = event[d]
      BY <1>1, <2>2, <2>5
    <3>2. stripe'[event[d].sub].status = "canceled"
      BY <1>0, <2>1, <2>4, <3>1 DEF TypeOK
    <3>3. ASSUME NEW e \in Emitted', e > d, event'[e].sub = event[d].sub
          PROVE  event'[e].type = "payment_succeeded"
      <4>1. CASE e \in Emitted
        BY <1>1, <2>2, <2>5, <3>1, <3>3, <4>1
      <4>2. CASE e = new
        BY <2>1, <2>2, <3>1, <3>3, <4>2
      <4> QED
        BY <2>2, <4>1, <4>2
    <3> QED
      BY <3>1, <3>2, <3>3
  <2>6. CASE d = new
    <3>1. type = "deleted" /\ event'[d].sub = b
      BY <2>2, <2>6
    <3>2. stripe'[b].status = "canceled"
      BY <1>0, <2>1, <2>4, <3>1 DEF TypeOK
    <3>3. new \in Nat
      BY <1>0, <2>2 DEF TypeOK
    <3>4. \A e \in Emitted' : ~(e > d)
      BY <2>2, <2>3, <2>6, <3>3
    <3> QED
      BY <3>1, <3>2, <3>4
  <2> QED
    BY <2>2, <2>5, <2>6
<1>3. UNCHANGED event /\ (\A b \in Subs : stripe'[b].status = stripe[b].status) => Goal
  BY <1>1 DEF Emitted
<1>4. ASSUME NEW r \in Rows, CancelTold(r)
      PROVE  UNCHANGED event /\ \A b \in Subs : stripe'[b].status = stripe[b].status
  <2>1. cancel[r].sub \in Subs
    BY <1>0, <1>4 DEF CancelTold, Inv, LinksAreCarried, TypeOK
  <2> QED
    BY <1>0, <1>4, <2>1 DEF CancelTold, TypeOK
<1>5. ASSUME NEW r \in Rows, Cancellation(r), ~CancelTold(r)
      PROVE  UNCHANGED <<stripe, event>>
  BY <1>5 DEF Cancellation, CancelValidated, CancelWritten, CancelFails, stripeVars
<1>6. ASSUME NEW q \in Requests, Webhook(q)
      PROVE  UNCHANGED <<stripe, event>>
  BY <1>6 DEF Webhook, Receive, LogEvent, RefuseEvent, FindRow, DropEvent, WriteRow,
              RequestFails, stripeVars
<1>7. ASSUME NEW b \in Subs, NEW r \in Rows, Checkout(b, r)
      PROVE  UNCHANGED <<stripe, event>>
  BY <1>7 DEF Checkout, stripeVars
<1>8. ASSUME UNCHANGED vars
      PROVE  UNCHANGED <<stripe, event>>
  BY <1>8 DEF vars
<1> HIDE DEF Goal
<1>9. Goal
  BY <1>2, <1>3, <1>4, <1>5, <1>6, <1>7, <1>8 DEF Next
<1> QED
  BY <1>9 DEF Goal

\* A row's "cancels at period end" stays backed by a subscription it has carried.
THEOREM CancelFlagStep == Inv /\ [Next]_vars => CancelFlagCameFromStripe'
<1> SUFFICES ASSUME Inv, [Next]_vars, NEW r \in Rows, row'[r] # None, row'[r].flag
             PROVE  carried'[r] \intersect flagged' # {}
  BY DEF CancelFlagCameFromStripe
<1>0. /\ carried[r] \subseteq carried'[r]
      /\ flagged \subseteq flagged'
      /\ row[r] # None /\ row[r].flag => carried[r] \intersect flagged # {}
  BY HistoriesGrow DEF Inv, CancelFlagCameFromStripe
<1>1. CASE row[r] # None /\ row[r].flag
  BY <1>0, <1>1
<1>2. ASSUME NEW q \in Requests, WriteRow(q), request[q].row = r, event[request[q].id].flag
      PROVE  carried[r] \intersect flagged # {}
  <2>1. request[q].id \in Emitted /\ EventSub(request[q].id) \in carried[r]
    BY <1>2, WriteFacts DEF WriteRow
  <2>2. EventSub(request[q].id) \in flagged
    BY <1>2, <2>1 DEF Inv, FlagsAreStripes
  <2> QED
    BY <2>1, <2>2
<1>3. CASE CancelWritten(r)
  <2>1. cancel[r].sub \in carried[r] /\ cancel[r].sub \in flagged
    BY <1>3 DEF CancelWritten, Inv, LinksAreCarried, FlagsAreStripes
  <2> QED
    BY <1>0, <2>1
<1> QED
  BY <1>0, <1>1, <1>2, <1>3, RowAfter

\* A request that had found its row leaves it as it is or writes it.
LEMMA RequestEnds ==
  ASSUME Inv, [Next]_vars, NEW q \in Requests,
         request[q].pc = "found", request'[q].pc = "idle"
  PROVE  WriteRow(q) \/ UNCHANGED row
<1>0. TypeOK
  BY DEF Inv
<1>1. CASE UNCHANGED request
  BY <1>1
<1>2. ASSUME NEW p \in Requests, Webhook(p)
      PROVE  WriteRow(q) \/ UNCHANGED row
  <2>1. ~UNCHANGED request => p = q
    BY <1>0, <1>2 DEF TypeOK, Webhook, Receive, LogEvent, RefuseEvent, FindRow, DropEvent,
                      WriteRow, RequestFails
  <2>2. WriteRow(p) \/ UNCHANGED row
    BY <1>2 DEF Webhook, Receive, LogEvent, RefuseEvent, FindRow, DropEvent, RequestFails,
                rowVars
  <2> QED
    BY <2>1, <2>2
<1>3. ASSUME NEW b \in Subs, Stripe(b)
      PROVE  UNCHANGED request
  BY <1>3 DEF Stripe, StripeCreates, StripeUpdates, StripeChargeFails, StripeIsPaid,
              StripeDeletes, Emit
<1>4. ASSUME NEW r \in Rows, Cancellation(r)
      PROVE  UNCHANGED request
  BY <1>4 DEF Cancellation, CancelValidated, CancelTold, CancelWritten, CancelFails
<1>5. ASSUME NEW b \in Subs, NEW r \in Rows, Checkout(b, r)
      PROVE  UNCHANGED request
  BY <1>5 DEF Checkout
<1> QED
  BY <1>1, <1>2, <1>3, <1>4, <1>5 DEF Next, vars

-----------------------------------------------------------------------------
(* Theorems                                                                 *)

\* Inv is an invariant of the webhook and cancellation paths.
THEOREM Invariance == Spec => []Inv
<1>1. Inv /\ [Next]_vars => Inv'
  BY TypeStep, LogStep, RequestsStep, AnswersStep, LinksStep, FlagsStep, DeletionStep,
     CancelFlagStep DEF Inv
<1> QED
  BY <1>1, InitInv, PTL DEF Spec

\* Every variable keeps its type: a row never gets a status outside the enum.
THEOREM TypeCorrect == Spec => []TypeOK
<1>1. Inv => TypeOK
  BY DEF Inv
<1> QED
  BY <1>1, Invariance, PTL

\* However many requests deliver an event at once and again, one handler writes it.
THEOREM EventsAreHandledOnce == Spec => []HandledAtMostOnce
<1>1. Inv => HandledAtMostOnce
  BY DEF Inv
<1> QED
  BY <1>1, Invariance, PTL

\* Stripe is never told to stop delivering an event the database does not have.
THEOREM AcknowledgedIsLogged == Spec => []AckedIsLogged
<1>1. Inv => AckedIsLogged
  BY DEF Inv
<1> QED
  BY <1>1, Invariance, PTL

\* No failure or overlap makes a row cancel at period end that never did at Stripe.
THEOREM CancelFlagIsStripes == Spec => []CancelFlagCameFromStripe
<1>1. Inv => CancelFlagCameFromStripe
  BY DEF Inv
<1> QED
  BY <1>1, Invariance, PTL

\* A webhook revives a row whose subscription Stripe has deleted only by a paid
\* invoice, by an event older than the deletion or by one of a former subscription.
THEOREM CanceledStaysCanceled == Spec => CanceledIsLeftOnlyLate
<1> DEFINE Late(q) ==
      LET e == request[q].id
          r == request[q].row
      IN  (/\ request[q].pc = "found"
           /\ request'[q].pc = "idle"
           /\ row[r].status = "CANCELED"
           /\ row'[r].status # "CANCELED"
           /\ DeletedAt(row[r].link) # {})
          => \/ event[e].type = "payment_succeeded"
             \/ EventSub(e) \in carried[r] \ {row[r].link}
             \/ \E d \in DeletedAt(EventSub(e)) : d > e
<1>1. Inv /\ [Next]_vars => [\A q \in Requests : Late(q)]_vars
  <2> SUFFICES ASSUME Inv, [Next]_vars, NEW q \in Requests,
                      request[q].pc = "found",
                      request'[q].pc = "idle",
                      row[request[q].row].status = "CANCELED",
                      row'[request[q].row].status # "CANCELED",
                      DeletedAt(row[request[q].row].link) # {}
               PROVE  LET e == request[q].id
                          r == request[q].row
                      IN  \/ event[e].type = "payment_succeeded"
                          \/ EventSub(e) \in carried[r] \ {row[r].link}
                          \/ \E d \in DeletedAt(EventSub(e)) : d > e
    OBVIOUS
  <2> DEFINE e == request[q].id
             r == request[q].row
  <2>0. TypeOK
    BY DEF Inv
  <2>1. /\ e \in Emitted
        /\ event[e] \in EventRecord
        /\ r \in Rows
        /\ row[r] \in RowRecord
        /\ EventSub(e) \in carried[r]
    BY WriteFacts
  <2>2. CASE EventSub(e) # row[r].link
    BY <2>1, <2>2
  <2>3. CASE EventSub(e) = row[r].link
    <3>1. PICK d \in Emitted : event[d].type = "deleted" /\ EventSub(d) = EventSub(e)
      BY <2>3 DEF DeletedAt, EventSub
    <3>2. d \in DeletedAt(EventSub(e))
      BY <3>1 DEF DeletedAt, EventSub
    <3>3. e > d => event[e].type = "payment_succeeded"
      BY <2>1, <3>1 DEF Inv, DeletionIsFinal
    <3>4. e # d
      <4>1. SUFFICES ASSUME event[e].type = "deleted" PROVE FALSE
        BY <3>1
      <4>2. CASE WriteRow(q)
        BY <2>0, <2>1, <4>1, <4>2 DEF WriteRow, Handle, SubscriptionDeleted, RowRecord, TypeOK
      <4>3. CASE UNCHANGED row
        BY <4>3
      <4> QED
        BY <4>2, <4>3, RequestEnds
    <3>5. e \in Nat /\ d \in Nat
      BY <2>0, <2>1, <3>1 DEF Emitted, TypeOK
    <3> QED
      BY <3>2, <3>3, <3>4, <3>5
  <2> QED
    BY <2>2, <2>3
<1> QED
  BY <1>1, Invariance, PTL DEF Spec, CanceledIsLeftOnlyLate

=============================================================================
