---------------------------- MODULE MessageQueue ----------------------------
(***************************************************************************)
(* The email and the WhatsApp queue: EmailService and WhatsAppService      *)
(* queue a message, EmailNotificationProcessor and                         *)
(* WhatsAppNotificationProcessor hand it to Brevo or Meta, and             *)
(* QueueCleanupCron clears what is stuck.  Each process runs one job of a  *)
(* queue at a time, Bull's default.                                        *)
(*                                                                         *)
(* The Brevo client gives a call up after 20 seconds, the client of        *)
(* WhatsApp has no timeout: there a call may never return, while the       *)
(* process goes on renewing the job's lock.                                *)
(***************************************************************************)
EXTENDS Naturals

CONSTANTS
    Jobs,         \* jobs of the queue, one per message
    Workers,      \* processes with a processor of the queue
    MayHang,      \* those whose calls may never return; none for email
    MaxAttempts,  \* config.queue.jobRetryAttempts
    MaxStalls,    \* config.bullSettings.maxStalledCount
    None

ASSUME QueueConstants ==
    /\ MayHang \subseteq Workers
    /\ MaxAttempts \in Nat \ {0}
    /\ MaxStalls \in Nat
    /\ None \notin Workers \union Jobs

VARIABLES
    job,        \* the queue
    worker,     \* the processors
    refused,    \* history variable: messages the provider refused for good
    called,     \* history variable: those of them it was called with again
    disturbed   \* history variable: jobs whose process died, stalled or was stuck

history == <<refused, called, disturbed>>
vars == <<job, worker, refused, called, disturbed>>

-----------------------------------------------------------------------------

JobRecord ==
    [state : {"free", "waiting", "active", "done"},
     attempts : 0..MaxAttempts-1, stalls : 0..MaxStalls, lock : Workers \union {None}]

FreeJob == [state |-> "free", attempts |-> 0, stalls |-> 0, lock |-> None]

WorkerRecord ==
    [pc : {"idle", "calling", "hung", "sent", "refused", "error"}, job : Jobs \union {None}]

IdleWorker == [pc |-> "idle", job |-> None]

TypeOK ==
    /\ job \in [Jobs -> JobRecord]
    /\ worker \in [Workers -> WorkerRecord]
    /\ \A w \in Workers : worker[w].pc # "idle" => worker[w].job \in Jobs
    /\ refused \subseteq Jobs
    /\ called \subseteq Jobs
    /\ disturbed \subseteq Jobs

Init ==
    /\ job = [j \in Jobs |-> FreeJob]
    /\ worker = [w \in Workers |-> IdleWorker]
    /\ refused = {}
    /\ called = {}
    /\ disturbed = {}

-----------------------------------------------------------------------------
(* Bull                                                                     *)

\* queueEmail and queueMessage.
QueueMessage(j) ==
    /\ job[j].state = "free"
    /\ job' = [job EXCEPT ![j].state = "waiting"]
    /\ UNCHANGED <<worker, history>>

Take(w, j) ==
    /\ worker[w].pc = "idle"
    /\ job[j].state = "waiting"
    /\ job' = [job EXCEPT ![j].state = "active", ![j].lock = w]
    /\ worker' = [worker EXCEPT ![w] = [pc |-> "calling", job |-> j]]
    /\ called' = called \union ({j} \intersect refused)
    /\ UNCHANGED <<refused, disturbed>>

Done(j) == [job[j] EXCEPT !.state = "done", !.lock = None]

AfterAttempt(j) ==
    IF job[j].attempts + 1 < MaxAttempts
    THEN [job[j] EXCEPT !.state = "waiting", !.attempts = @ + 1, !.lock = None]
    ELSE Done(j)

\* A process reports only for the job whose lock it still holds.
Report(w, jobRecord) ==
    LET j == worker[w].job
    IN  /\ job' = IF job[j].state = "active" /\ job[j].lock = w
                  THEN [job EXCEPT ![j] = jobRecord] ELSE job
        /\ worker' = [worker EXCEPT ![w] = IdleWorker]

\* Mutation of StallJob: maxStalledCount is ignored.
StallJobAgain(j) ==
    /\ job[j].state = "active"
    /\ job' = [job EXCEPT ![j].state = "waiting", ![j].stalls = @ + 1, ![j].lock = None]
    /\ disturbed' = disturbed \union {j}
    /\ UNCHANGED <<worker, refused, called>>

\* The lock expired: the process died, or its event loop was blocked.
StallJob(j) ==
    /\ job[j].state = "active"
    /\ job' = IF job[j].stalls < MaxStalls
              THEN [job EXCEPT ![j].state = "waiting", ![j].stalls = @ + 1, ![j].lock = None]
              ELSE [job EXCEPT ![j] = Done(j)]
    /\ disturbed' = disturbed \union {j}
    /\ UNCHANGED <<worker, refused, called>>

\* The process dies and comes back.
Crash(w) ==
    /\ worker[w].pc # "idle"
    /\ worker' = [worker EXCEPT ![w] = IdleWorker]
    /\ disturbed' = disturbed \union {worker[w].job}
    /\ UNCHANGED <<job, refused, called>>

Abandoned(j) ==
    /\ job[j].state = "active"
    /\ \A w \in Workers : worker[w].job = j => job[j].lock # w

-----------------------------------------------------------------------------
(* handleSendEmail and handleSendWhatsApp                                   *)

Sent(w) ==
    /\ worker[w].pc = "calling"
    /\ worker' = [worker EXCEPT ![w].pc = "sent"]
    /\ UNCHANGED <<job, history>>

\* WhatsApp answers with one of nonRetryableCodes.
RefusedForGood(w) ==
    /\ worker[w].pc = "calling"
    /\ worker' = [worker EXCEPT ![w].pc = "refused"]
    /\ refused' = refused \union {worker[w].job}
    /\ UNCHANGED <<job, called, disturbed>>

\* Any other error, be it an answer that was lost or too late.
SendFails(w) ==
    /\ worker[w].pc \in {"calling", "hung"}
    /\ worker' = [worker EXCEPT ![w].pc = "error"]
    /\ UNCHANGED <<job, history>>

Hang(w) ==
    /\ w \in MayHang
    /\ worker[w].pc = "calling"
    /\ worker' = [worker EXCEPT ![w].pc = "hung"]
    /\ UNCHANGED <<job, history>>

\* Mutation of HandlerReturns: a refusal is thrown like every error.
HandlerReturnsIfSent(w) ==
    \/ worker[w].pc = "sent" /\ Report(w, Done(worker[w].job)) /\ UNCHANGED history
    \/ worker[w].pc = "refused" /\ Report(w, AfterAttempt(worker[w].job)) /\ UNCHANGED history

\* A refusal for good is returned, so that Bull does not try again.
HandlerReturns(w) ==
    /\ worker[w].pc \in {"sent", "refused"}
    /\ Report(w, Done(worker[w].job))
    /\ UNCHANGED history

HandlerThrows(w) ==
    /\ worker[w].pc = "error"
    /\ Report(w, AfterAttempt(worker[w].job))
    /\ UNCHANGED history

-----------------------------------------------------------------------------
(* QueueCleanupCron                                                         *)

\* Mutation of FailStuckActiveJob: moveToFailed minds the lock.
FailStuckActiveJobUnlocked(j) ==
    /\ Abandoned(j)
    /\ job' = [job EXCEPT ![j] = AfterAttempt(j)]
    /\ disturbed' = disturbed \union {j}
    /\ UNCHANGED <<worker, refused, called>>

\* moveToFailed ignores the lock; a handler that hangs goes on hanging.  The job may
\* be another run of the one the cron read.
FailStuckActiveJob(j) ==
    /\ job[j].state = "active"
    /\ job' = [job EXCEPT ![j] = AfterAttempt(j)]
    /\ disturbed' = disturbed \union {j}
    /\ UNCHANGED <<worker, refused, called>>

\* The aggressive clean removes the active jobs nobody holds.
CleanActiveJob(j) ==
    /\ Abandoned(j)
    /\ job' = [job EXCEPT ![j] = Done(j)]
    /\ disturbed' = disturbed \union {j}
    /\ UNCHANGED <<worker, refused, called>>

-----------------------------------------------------------------------------

Call(w) == Sent(w) \/ RefusedForGood(w) \/ SendFails(w)

Handler(w) == HandlerReturns(w) \/ HandlerThrows(w)

Next ==
    \/ \E j \in Jobs :
          \/ QueueMessage(j) \/ StallJob(j) \/ FailStuckActiveJob(j) \/ CleanActiveJob(j)
          \/ \E w \in Workers : Take(w, j)
    \/ \E w \in Workers : Call(w) \/ Hang(w) \/ Handler(w) \/ Crash(w)

Spec == Init /\ [][Next]_vars

Hung(j) == \E w \in Workers : worker[w].pc = "hung" /\ job[j].lock = w

\* Bull and the processes keep running, and so do the stalled-jobs check, for jobs
\* that lost their process, and the six-hourly cron, for jobs whose call hangs.  A
\* call that hangs need never return.
Fairness ==
    /\ \A w \in Workers :
          /\ WF_vars(\E j \in Jobs : Take(w, j))
          /\ WF_vars(worker[w].pc = "calling" /\ (Call(w) \/ Hang(w)))
          /\ WF_vars(Handler(w))
    /\ \A j \in Jobs :
          /\ WF_vars(Abandoned(j) /\ StallJob(j))
          /\ WF_vars(Hung(j) /\ FailStuckActiveJob(j))

FairSpec == Spec /\ Fairness

-----------------------------------------------------------------------------
(* Properties                                                               *)

\* The comment of the processor, "Don't retry for certain error types": a message that
\* was refused for good is handed over again only if its process died, stalled or
\* was declared stuck before it could return.
RefusalsAreFinal == called \subseteq disturbed

\* Every message that is queued is done with in the end, though calls hang: the cron
\* takes the job from the process that hangs, and another one, which must be there,
\* goes on with it.
MessagesEnd == \A j \in Jobs : job[j].state = "waiting" ~> job[j].state = "done"

=============================================================================
