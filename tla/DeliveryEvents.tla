--------------------------- MODULE DeliveryEvents ---------------------------
(***************************************************************************)
(* The webhooks that report what became of a message:                      *)
(* WhatsAppWebhookService and BrevoWebhookService with their validators.   *)
(* A payload of Meta holds several statuses, one of Brevo a single event.  *)
(* Each status is looked up in table webhook_event_logs, and then all that *)
(* were not found are stored, one at a time and in no transaction.  The    *)
(* sender delivers a payload until it is answered with success, and now    *)
(* and then once more.                                                     *)
(***************************************************************************)
EXTENDS Naturals, Sequences

CONSTANTS
    Payloads,
    Statuses,     \* the statuses of payload p in its order: <<message, status>>
    Ref,          \* the reference a status of a message is stored with
    Requests,     \* deliveries that can be handled at once
    MaxFailures,  \* bounds how often the database throws or the process dies
    None

All == UNION {{Statuses[p][k] : k \in DOMAIN Statuses[p]} : p \in Payloads}

\* Ref[m] is the tracking id of message m, or m itself when it has none: a tracking id
\* is no message's id.
DeliveryConstants ==
    /\ MaxFailures \in Nat
    /\ None \notin Payloads
    /\ \A p \in Payloads : Statuses[p] \in Seq(All)
    /\ \A e \in All : e[1] \in DOMAIN Ref
    /\ \A m \in DOMAIN Ref : Ref[m] \in DOMAIN Ref => Ref[m] = m

VARIABLES
    log,       \* table webhook_event_logs: <<reference, status>>, a unique key
    answered,  \* payloads whose sender was answered with success
    request,   \* deliveries in handleWebhook
    failures   \* how often the database threw or the process died

vars == <<log, answered, request, failures>>

-----------------------------------------------------------------------------

\* seen counts the statuses looked up, todo holds those to be stored.
Idle == [pc |-> "idle", payload |-> None, seen |-> 0, todo |-> <<>>]

RequestRecord ==
    [pc : {"idle", "extract", "store"}, payload : Payloads \union {None},
     seen : Nat, todo : Seq(All)]

TypeOK ==
    /\ log \subseteq {<<Ref[e[1]], e[2]>> : e \in All}
    /\ answered \subseteq Payloads
    /\ request \in [Requests -> RequestRecord]
    /\ failures \in 0..MaxFailures

Init ==
    /\ log = {}
    /\ answered = {}
    /\ request = [q \in Requests |-> Idle]
    /\ failures = 0

\* The signature, or the bearer token, and the form of the payload are right.
Receive(q, p) ==
    /\ request[q].pc = "idle"
    /\ request' = [request EXCEPT ![q] = [Idle EXCEPT !.pc = "extract", !.payload = p]]
    /\ UNCHANGED <<log, answered, failures>>

\* Mutation of Duplicate: the two columns are looked up in the wrong order.
DuplicateSwapped(e) == <<e[2], e[1]>> \in log

\* exists asks for the id of the message, also when another reference is stored.
Duplicate(e) == e \in log

Extract(q) ==
    LET r == request[q]
        e == Statuses[r.payload][r.seen + 1]
    IN  /\ r.pc = "extract"
        /\ r.seen < Len(Statuses[r.payload])
        /\ request' = [request EXCEPT
              ![q].seen = @ + 1,
              ![q].todo = IF Duplicate(e) THEN @ ELSE Append(@, e)]
        /\ UNCHANGED <<log, answered, failures>>

Extracted(q) ==
    /\ request[q].pc = "extract"
    /\ request[q].seen = Len(Statuses[request[q].payload])
    /\ request' = [request EXCEPT ![q].pc = "store"]
    /\ UNCHANGED <<log, answered, failures>>

Key(e) == <<Ref[e[1]], e[2]>>

Store(q) ==
    LET todo == request[q].todo
    IN  /\ request[q].pc = "store"
        /\ todo # <<>>
        /\ Key(Head(todo)) \notin log
        /\ log' = log \union {Key(Head(todo))}
        /\ request' = [request EXCEPT ![q].todo = Tail(@)]
        /\ UNCHANGED <<answered, failures>>

\* The unique key (source, referenceId, event) refuses the row, which ends the
\* request with an error: the statuses after it are not stored.
Refuse(q) ==
    LET todo == request[q].todo
    IN  /\ request[q].pc = "store"
        /\ todo # <<>>
        /\ Key(Head(todo)) \in log
        /\ request' = [request EXCEPT ![q] = Idle]
        /\ UNCHANGED <<log, answered, failures>>

\* Mutation of Done: the first status is answered for all.
DoneAfterOne(q) == request[q].pc = "store" /\ Len(request[q].todo) <= 1

Done(q) == request[q].pc = "store" /\ request[q].todo = <<>>

Answer(q) ==
    /\ Done(q)
    /\ answered' = answered \union {request[q].payload}
    /\ request' = [request EXCEPT ![q] = Idle]
    /\ UNCHANGED <<log, failures>>

RequestFails(q) ==
    /\ request[q].pc # "idle"
    /\ failures < MaxFailures
    /\ failures' = failures + 1
    /\ request' = [request EXCEPT ![q] = Idle]
    /\ UNCHANGED <<log, answered>>

Handle(q) == Extract(q) \/ Extracted(q) \/ Store(q) \/ Refuse(q) \/ Answer(q)

Next ==
    \E q \in Requests :
        \/ \E p \in Payloads : Receive(q, p)
        \/ Handle(q)
        \/ RequestFails(q)

Spec == Init /\ [][Next]_vars

\* The sender repeats what was not answered with success.
ReceiveAgain(p) == p \notin answered /\ \E q \in Requests : Receive(q, p)

-----------------------------------------------------------------------------
(* Properties                                                               *)

\* Success is answered only for what is stored: however deliveries of the same
\* payload overlap and fail, none vouches for a status that no delivery stored.
AnsweredIsStored ==
    \A p \in answered : \A k \in DOMAIN Statuses[p] : Key(Statuses[p][k]) \in log

\* A failed delivery is made up for by the next ones: every payload is answered with
\* success in the end, and all its statuses are stored.
EveryPayloadIsAnswered == <>(answered = Payloads)

=============================================================================
