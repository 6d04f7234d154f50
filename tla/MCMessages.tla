----------------------------- MODULE MCMessages -----------------------------
(* Small instances of MessageQueue, of DeliveryEvents and of QueueCleanup.  A *)
(* behaviour is of one of the three, which have no state in common: the      *)
(* others stay as they are.                                                  *)
(*                                                                           *)
(* DeliveryEvents: messages m and n of two payloads that share a status, and *)
(* that have no tracking id.                                                 *)
EXTENDS MessageQueue, TLC

CONSTANTS Payloads, Statuses, Ref, Requests, Calls, MaxFailures, p1, p2, m, n

MCStatuses == p1 :> <<<<m, "sent">>, <<n, "sent">>, <<m, "read">>>>
           @@ p2 :> <<<<n, "sent">>, <<n, "read">>>>
MCRef == m :> m @@ n :> n

VARIABLES
    part,   \* which component the behaviour is of
    log, answered, request, failures,
    hourly, monitoring, call, memory, old, outages

E == INSTANCE DeliveryEvents
C == INSTANCE QueueCleanup WITH failures <- outages

ASSUME MessageConstants == E!DeliveryConstants /\ C!CleanupConstants /\ C!CallsAreCalls

evars == <<log, answered, request, failures>>
cvars == <<hourly, monitoring, call, memory, old, outages>>
mcvars == <<vars, evars, cvars, part>>

MCInit ==
    /\ part \in {"queue", "events", "cleanup"}
    /\ Init
    /\ E!Init
    /\ C!Init

QueueNext   == part = "queue" /\ Next /\ UNCHANGED <<part, evars, cvars>>
EventsNext  == part = "events" /\ E!Next /\ UNCHANGED <<part, vars, cvars>>
CleanupNext == part = "cleanup" /\ C!Next /\ UNCHANGED <<part, vars, evars>>

MCNext == QueueNext \/ EventsNext \/ CleanupNext

\* The event loop serves every delivery, and the sender repeats what was not answered
\* with success, however often the service was busy.
EventsFairness ==
    /\ \A q \in Requests : WF_evars(part = "events" /\ E!Handle(q))
    /\ \A p \in Payloads : SF_evars(part = "events" /\ E!ReceiveAgain(p))

\* The timers fire again and again, and Redis answers each call.
CleanupFairness ==
    /\ \A c \in Calls : WF_cvars(part = "cleanup" /\ C!Step(c))
    /\ WF_cvars(part = "cleanup" /\ \E c \in Calls : C!HandleHourlyCleanup(c))
    /\ WF_cvars(part = "cleanup" /\ \E c \in Calls : C!HandleMonitoring(c))

\* Fairness, of MessageQueue, asks nothing while nothing is queued.
MCSpec ==
    /\ MCInit
    /\ [][MCNext]_mcvars
    /\ Fairness
    /\ EventsFairness
    /\ CleanupFairness

\* See MessageQueue, DeliveryEvents and QueueCleanup.
TypesOK == TypeOK /\ E!TypeOK /\ C!TypeOK
AnsweredIsStored == E!AnsweredIsStored
EveryPayloadIsAnswered == part = "events" => E!EveryPayloadIsAnswered
OneCleanupAtATime == C!OneCleanupAtATime
MemoryIsReclaimed == C!MemoryIsReclaimed

=============================================================================
