--------------------------- MODULE StripeCheckout ---------------------------
(***************************************************************************)
(* The path of a paid plan from "start checkout" to a subscription row:    *)
(*   - SubscriptionsService.createCheckoutSession                          *)
(*   - StripeWebhookService.handleWebhook on checkout.session.completed    *)
(*   - the Bull queue STRIPE_CHECKOUT_QUEUE and StripeCheckoutProcessor    *)
(*   - SubscriptionReconciliationCron, CleanupExpiredCheckoutSessionsCron  *)
(*     and what QueueCleanupCron does to this queue                        *)
(*                                                                         *)
(* One awaited database, Redis or Stripe call is one step.  The processor  *)
(* is split where other processes can run between its awaits: it reads the *)
(* checkout session (LoadJob), reads the subscription row inside its       *)
(* READ COMMITTED transaction (BeginTx), and commits (CommitUpdate,        *)
(* CommitCreate).                                                          *)
(***************************************************************************)
EXTENDS Naturals, Sequences

CONSTANTS
    Sessions,    \* Stripe checkout sessions (stripeSessionId)
    Users,       \* users of the application
    Owner,       \* Owner[s]: the user who started session s
    Plans,       \* rows of table plans
    PlanOf,      \* PlanOf[s]: the plan the user picked
    FreePlan,    \* the plan of the row that registration creates
    Rows,        \* ids of table subscriptions
    Statuses,    \* the subscription statuses told apart
    Outcomes,    \* what a finished Stripe session can hold
    Jobs,        \* Bull job ids: bounds how many jobs are ever queued
    Workers,     \* processes that run StripeCheckoutProcessor (one job each)
    MaxAttempts, \* "attempts" of queue.add
    MaxStalls,   \* bullSettings.maxStalledCount
    None

ASSUME CheckoutConstants ==
    /\ Owner \in [Sessions -> Users]
    /\ PlanOf \in [Sessions -> Plans]
    /\ FreePlan \in Plans
    /\ {"ACTIVE"} \subseteq Statuses
    /\ Statuses \subseteq {"ACTIVE", "TRIALING", "PAST_DUE", "CANCELED", "UNPAID"}
    /\ Outcomes \subseteq {"paid", "not_paid", "no_subscription"}
    /\ MaxAttempts \in Nat \ {0}
    /\ MaxStalls \in Nat
    /\ None \notin Sessions \union Rows \union Jobs \union Workers

VARIABLES
    stripe,   \* at Stripe: the state of the checkout session object
    sess,     \* table stripe_checkout_sessions: status ("NONE": no row)
    age,      \* of that row: Fresh, Stale (over 1 hour), Old (over 48 hours)
    hook,     \* the checkout.session.completed delivery of the session
    todo,     \* sessions a running reconciliation pass has still to check
    job,      \* the Bull queue
    worker,   \* the processes running handleCheckoutSession
    row,      \* table subscriptions
    hist,     \* table subscription_history: plan snapshots of each row
    applied   \* history variable: committed transactions of each session

stripeVars == <<stripe, age>>
queueVars  == <<hook, todo, job>>
tableVars  == <<row, hist, applied>>
vars == <<stripe, sess, age, hook, todo, job, worker, row, hist, applied>>

-----------------------------------------------------------------------------

Fresh == 0
Stale == 1    \* STALE_SESSION_HOURS
Old   == 2    \* EXPIRE_SESSION_HOURS

\* What a finished Stripe session object can hold.  "not_paid" stands for the
\* payment statuses other than 'paid' (unpaid, no_payment_required), and
\* "no_subscription" for a paid session object without a subscription id.
Finished(s)        == stripe[s] \in Outcomes
HasSubscription(s) == stripe[s] \in {"paid", "not_paid"}
PaymentPaid(s)     == stripe[s] \in {"paid", "no_subscription"}

\* The statuses the processor looks for when it has no row with the Stripe id.
Live == {"ACTIVE", "TRIALING"}

\* A Subscription row; link is the session whose Stripe subscription id is in
\* stripeSubscriptionId (one Stripe subscription per finished session).
SubscriptionRow == [user : Users, plan : Plans, status : Statuses,
                    link : Sessions \union {None}]

ASSUME NoneIsNoRow == None \notin SubscriptionRow

FreeRow(u) == [user |-> u, plan |-> FreePlan, status |-> "ACTIVE", link |-> None]

GoneJob == [state |-> "gone", sess |-> None, attempts |-> 0, stalls |-> 0,
            lock |-> None]
FreeJob == [GoneJob EXCEPT !.state = "free"]

IdleWorker == [pc |-> "idle", job |-> None, sess |-> None, target |-> None,
               snap |-> FreePlan]

JobRecord ==
    [state : {"free", "waiting", "active", "gone"}, sess : Sessions \union {None},
     attempts : 0..MaxAttempts-1, stalls : 0..MaxStalls, lock : Workers \union {None}]

WorkerRecord ==
    [pc : {"idle", "loaded", "applying"}, job : Jobs \union {None},
     sess : Sessions \union {None}, target : Rows \union {None}, snap : Plans]

TypeOK ==
    /\ stripe \in [Sessions -> {"none", "open"} \union Outcomes]
    /\ sess \in [Sessions -> {"NONE", "PENDING", "COMPLETED", "EXPIRED", "FAILED"}]
    /\ age \in [Sessions -> {Fresh, Stale, Old}]
    /\ hook \in [Sessions -> {"unsent", "over"}]
    /\ todo \subseteq Sessions
    /\ job \in [Jobs -> JobRecord]
    /\ worker \in [Workers -> WorkerRecord]
    /\ row \in [Rows -> SubscriptionRow \union {None}]
    /\ hist \in [Rows -> Seq(Plans)]
    /\ applied \in [Sessions -> Nat]

\* A registered user has the free row registration made; a user who came in
\* another way (an invited shadow user) has none.
InitialRows ==
    {f \in [Rows -> {FreeRow(u) : u \in Users} \union {None}] :
        \A q, r \in Rows : f[q] # None /\ f[q] = f[r] => q = r}

Init ==
    /\ stripe = [s \in Sessions |-> "none"]
    /\ sess = [s \in Sessions |-> "NONE"]
    /\ age = [s \in Sessions |-> Fresh]
    /\ hook = [s \in Sessions |-> "unsent"]
    /\ todo = {}
    /\ job = [j \in Jobs |-> FreeJob]
    /\ worker = [w \in Workers |-> IdleWorker]
    /\ row \in InitialRows
    /\ hist = [r \in Rows |-> <<>>]
    /\ applied = [s \in Sessions |-> 0]

-----------------------------------------------------------------------------
(* SubscriptionsService.createCheckoutSession and the customer at Stripe    *)

\* The Stripe session is made first: a crash or a database error before the
\* next step leaves it without a row.
CreateStripeSession(s) ==
    /\ stripe[s] = "none"
    /\ stripe' = [stripe EXCEPT ![s] = "open"]
    /\ UNCHANGED <<sess, age, queueVars, worker, tableVars>>

CreateSessionRow(s) ==
    /\ stripe[s] = "open"
    /\ sess[s] = "NONE"
    /\ sess' = [sess EXCEPT ![s] = "PENDING"]
    /\ UNCHANGED <<stripeVars, queueVars, worker, tableVars>>

\* The customer gets the URL in the response, after the row exists.  Stripe
\* closes a session after 24 hours, well before the row is Old.
CompleteCheckout(s, outcome) ==
    /\ stripe[s] = "open"
    /\ sess[s] # "NONE"
    /\ age[s] # Old
    /\ stripe' = [stripe EXCEPT ![s] = outcome]
    /\ UNCHANGED <<sess, age, queueVars, worker, tableVars>>

\* Only the age of a PENDING row is ever looked at.
TimePasses(s) ==
    /\ sess[s] = "PENDING"
    /\ age[s] # Old
    /\ age' = [age EXCEPT ![s] = @ + 1]
    /\ UNCHANGED <<stripe, sess, queueVars, worker, tableVars>>

-----------------------------------------------------------------------------
(* Producers of jobs: the webhook and the reconciliation cron               *)

\* queue.add: a new job for the session.
Enqueue(s) ==
    \E j \in Jobs :
        /\ job[j].state = "free"
        /\ job' = [job EXCEPT ![j] = [FreeJob EXCEPT !.state = "waiting", !.sess = s]]

\* The request that stores the event in webhook_event_logs goes on to queue the
\* job; nobody looks at the stored row in between.
WebhookQueued(s) ==
    /\ Finished(s)
    /\ hook[s] = "unsent"
    /\ Enqueue(s)
    /\ hook' = [hook EXCEPT ![s] = "over"]
    /\ UNCHANGED <<stripeVars, sess, todo, worker, tableVars>>

\* Redis refuses the job or the process dies once the event is stored: every
\* retry by Stripe then meets the unique key of the stored row and fails too.
WebhookLost(s) ==
    /\ Finished(s)
    /\ hook[s] = "unsent"
    /\ hook' = [hook EXCEPT ![s] = "over"]
    /\ UNCHANGED <<stripeVars, sess, todo, job, worker, tableVars>>

\* handleReconciliation reads the stale PENDING sessions once ...
ReconcileStart ==
    /\ todo = {}
    /\ todo' = {s \in Sessions : sess[s] = "PENDING" /\ age[s] # Fresh}
    /\ todo' # {}
    /\ UNCHANGED <<stripeVars, sess, hook, job, worker, tableVars>>

\* ... and then asks Stripe about each, whatever its row says by now.
ReconcileQueue(s) ==
    /\ s \in todo
    /\ PaymentPaid(s)
    /\ Enqueue(s)
    /\ todo' = todo \ {s}
    /\ UNCHANGED <<stripeVars, sess, hook, worker, tableVars>>

\* Stripe says it is not paid or unknown, or the call or queue.add throws.
ReconcileSkip(s) ==
    /\ s \in todo
    /\ todo' = todo \ {s}
    /\ UNCHANGED <<stripeVars, sess, hook, job, worker, tableVars>>

\* Mutations of ExpireOldSessions: without the status filter; only sessions that
\* Stripe has not finished.
ExpireOldSessionsOfAnyStatus ==
    /\ \E s \in Sessions : age[s] = Old /\ sess[s] # "EXPIRED"
    /\ sess' = [s \in Sessions |-> IF age[s] = Old THEN "EXPIRED" ELSE sess[s]]
    /\ UNCHANGED <<stripeVars, queueVars, worker, tableVars>>

ExpireOldSessionsUnfinished ==
    /\ \E s \in Sessions : sess[s] = "PENDING" /\ age[s] = Old /\ ~Finished(s)
    /\ sess' = [s \in Sessions |->
                  IF sess[s] = "PENDING" /\ age[s] = Old /\ ~Finished(s)
                  THEN "EXPIRED" ELSE sess[s]]
    /\ UNCHANGED <<stripeVars, queueVars, worker, tableVars>>

\* handleExpireOldSessions: one updateMany.
ExpireOldSessions ==
    /\ \E s \in Sessions : sess[s] = "PENDING" /\ age[s] = Old
    /\ sess' = [s \in Sessions |->
                  IF sess[s] = "PENDING" /\ age[s] = Old THEN "EXPIRED" ELSE sess[s]]
    /\ UNCHANGED <<stripeVars, queueVars, worker, tableVars>>

-----------------------------------------------------------------------------
(* Bull: what the library does to a job around the processor                *)

\* One attempt is used up: the job waits for its next attempt, or is failed.
AfterAttempt(j) ==
    IF job[j].attempts + 1 < MaxAttempts
    THEN [job[j] EXCEPT !.state = "waiting", !.attempts = @ + 1, !.lock = None]
    ELSE GoneJob

\* A process reports a result only for the job whose lock it still holds.
Report(w, jobRecord) ==
    LET j == worker[w].job
    IN  IF job[j].state = "active" /\ job[j].lock = w
        THEN job' = [job EXCEPT ![j] = jobRecord]
        ELSE UNCHANGED job

\* The lock expired (the process died, or its event loop was blocked): the
\* job is taken back, up to maxStalledCount times.
StallJob(j) ==
    /\ job[j].state = "active"
    /\ job' = [job EXCEPT ![j] =
                 IF job[j].stalls < MaxStalls
                 THEN [job[j] EXCEPT !.state = "waiting", !.stalls = @ + 1, !.lock = None]
                 ELSE GoneJob]
    /\ UNCHANGED <<stripeVars, sess, hook, todo, worker, tableVars>>

\* Mutation of FailStuckActiveJob: the job is always retried.
FailStuckActiveJobRetries(j) ==
    /\ job[j].state = "active"
    /\ job' = [job EXCEPT ![j].state = "waiting", ![j].lock = None,
                          ![j].attempts = job[j].attempts + 1]
    /\ UNCHANGED <<stripeVars, sess, hook, todo, worker, tableVars>>

\* QueueCleanupCron.failStuckActiveJobs: moveToFailed ignoring the lock, which
\* uses up one attempt of the job.
FailStuckActiveJob(j) ==
    /\ job[j].state = "active"
    /\ job' = [job EXCEPT ![j] = AfterAttempt(j)]
    /\ UNCHANGED <<stripeVars, sess, hook, todo, worker, tableVars>>

\* Nobody is processing job j any more.
Abandoned(j) ==
    /\ job[j].state = "active"
    /\ \A w \in Workers : worker[w].job = j => job[j].lock # w

\* QueueCleanupCron.performQueueCleanup, aggressive: queue.clean of active jobs
\* removes the ones that are not locked.
CleanActiveJob(j) ==
    /\ Abandoned(j)
    /\ job' = [job EXCEPT ![j] = GoneJob]
    /\ UNCHANGED <<stripeVars, sess, hook, todo, worker, tableVars>>

Crash(w) ==
    /\ worker[w].pc # "idle"
    /\ worker' = [worker EXCEPT ![w] = IdleWorker]
    /\ UNCHANGED <<stripeVars, sess, queueVars, tableVars>>

-----------------------------------------------------------------------------
(* StripeCheckoutProcessor.handleCheckoutSession                            *)

\* The row is absent, COMPLETED, EXPIRED or FAILED: the job ends.
SkipJob(w, j) ==
    /\ worker[w].pc = "idle"
    /\ job[j].state = "waiting"
    /\ sess[job[j].sess] # "PENDING"
    /\ job' = [job EXCEPT ![j] = GoneJob]
    /\ UNCHANGED <<stripeVars, sess, hook, todo, worker, tableVars>>

\* Mutation of LoadJob: without the idempotency check on COMPLETED.
LoadJobUnchecked(w, j) ==
    /\ worker[w].pc = "idle"
    /\ job[j].state = "waiting"
    /\ sess[job[j].sess] \in {"PENDING", "COMPLETED"}
    /\ job' = [job EXCEPT ![j].state = "active", ![j].lock = w]
    /\ worker' = [worker EXCEPT ![w] =
                    [IdleWorker EXCEPT !.pc = "loaded", !.job = j, !.sess = job[j].sess]]
    /\ UNCHANGED <<stripeVars, sess, hook, todo, tableVars>>

LoadJob(w, j) ==
    /\ worker[w].pc = "idle"
    /\ job[j].state = "waiting"
    /\ sess[job[j].sess] = "PENDING"
    /\ job' = [job EXCEPT ![j].state = "active", ![j].lock = w]
    /\ worker' = [worker EXCEPT ![w] =
                    [IdleWorker EXCEPT !.pc = "loaded", !.job = j, !.sess = job[j].sess]]
    /\ UNCHANGED <<stripeVars, sess, hook, todo, tableVars>>

\* Neither the job nor the row has a Stripe subscription id.
RejectSession(w) ==
    /\ worker[w].pc = "loaded"
    /\ ~HasSubscription(worker[w].sess)
    /\ sess' = [sess EXCEPT ![worker[w].sess] = "FAILED"]
    /\ Report(w, GoneJob)
    /\ worker' = [worker EXCEPT ![w] = IdleWorker]
    /\ UNCHANGED <<stripeVars, hook, todo, tableVars>>

LinkedRows(s) == {r \in Rows : row[r] # None /\ row[r].link = s}
LiveRows(u)   == {r \in Rows : row[r] # None /\ row[r].user = u /\ row[r].status \in Live}

\* The rows the transaction may settle on: the one with this Stripe
\* subscription, else any live one of the user, else none.
Candidates(s) ==
    IF LinkedRows(s) # {} THEN LinkedRows(s)
    ELSE IF LiveRows(Owner[s]) # {} THEN LiveRows(Owner[s])
    ELSE {None}

\* Stripe answered, the plan was found, and the transaction has read its row.
BeginTx(w) ==
    /\ worker[w].pc = "loaded"
    /\ HasSubscription(worker[w].sess)
    /\ \E r \in Candidates(worker[w].sess) :
          worker' = [worker EXCEPT ![w].pc = "applying", ![w].target = r,
                        ![w].snap = IF r = None THEN FreePlan ELSE row[r].plan]
    /\ UNCHANGED <<stripeVars, sess, queueVars, tableVars>>

\* What both commits write beside the subscription row.
CompleteSession(w) ==
    LET s == worker[w].sess
    IN  /\ sess' = [sess EXCEPT ![s] = "COMPLETED"]
        /\ applied' = [applied EXCEPT ![s] = @ + 1]
        /\ Report(w, GoneJob)
        /\ worker' = [worker EXCEPT ![w] = IdleWorker]
        /\ UNCHANGED <<stripeVars, hook, todo>>

\* stripeSubscriptionId is unique: no row but r may hold the id of s.
UniqueLink(s, r) == LinkedRows(s) \subseteq {r}

\* Mutations of CommitUpdate: the row keeps its plan; the history is written from
\* the updated row.
CommitUpdateKeepsPlan(w) ==
    LET s == worker[w].sess
        r == worker[w].target
    IN  /\ worker[w].pc = "applying"
        /\ r # None
        /\ UniqueLink(s, r)
        /\ row' = [row EXCEPT ![r].status = "ACTIVE", ![r].link = s]
        /\ hist' = [hist EXCEPT ![r] = Append(@, worker[w].snap)]
        /\ CompleteSession(w)

CommitUpdateLateHistory(w) ==
    LET s == worker[w].sess
        r == worker[w].target
    IN  /\ worker[w].pc = "applying"
        /\ r # None
        /\ UniqueLink(s, r)
        /\ row' = [row EXCEPT ![r].plan = PlanOf[s], ![r].status = "ACTIVE", ![r].link = s]
        /\ hist' = [hist EXCEPT ![r] = Append(@, PlanOf[s])]
        /\ CompleteSession(w)

CommitUpdate(w) ==
    LET s == worker[w].sess
        r == worker[w].target
    IN  /\ worker[w].pc = "applying"
        /\ r # None
        /\ UniqueLink(s, r)
        /\ row' = [row EXCEPT ![r].plan = PlanOf[s], ![r].status = "ACTIVE", ![r].link = s]
        /\ hist' = [hist EXCEPT ![r] = Append(@, worker[w].snap)]
        /\ CompleteSession(w)

\* Mutation of CommitCreate: stripeSubscriptionId is not unique.
CommitCreateNotUnique(w) ==
    LET s == worker[w].sess
    IN  /\ worker[w].pc = "applying"
        /\ worker[w].target = None
        /\ \E r \in Rows :
              /\ row[r] = None
              /\ row' = [row EXCEPT ![r] = [user |-> Owner[s], plan |-> PlanOf[s],
                                            status |-> "ACTIVE", link |-> s]]
        /\ UNCHANGED hist
        /\ CompleteSession(w)

CommitCreate(w) ==
    LET s == worker[w].sess
    IN  /\ worker[w].pc = "applying"
        /\ worker[w].target = None
        /\ LinkedRows(s) = {}
        /\ \E r \in Rows :
              /\ row[r] = None
              /\ row' = [row EXCEPT ![r] = [user |-> Owner[s], plan |-> PlanOf[s],
                                            status |-> "ACTIVE", link |-> s]]
        /\ UNCHANGED hist
        /\ CompleteSession(w)

\* Mutation of AttemptFails: the catch block puts the job back itself.
AttemptFailsRequeues(w) ==
    /\ worker[w].pc # "idle"
    /\ Report(w, [job[worker[w].job] EXCEPT !.state = "waiting", !.lock = None])
    /\ worker' = [worker EXCEPT ![w] = IdleWorker]
    /\ UNCHANGED <<stripeVars, sess, hook, todo, tableVars>>

\* Stripe or the database throws, or the unique key is violated: the catch
\* block stores the message and rethrows, so Bull uses up one attempt.
AttemptFails(w) ==
    /\ worker[w].pc # "idle"
    /\ Report(w, AfterAttempt(worker[w].job))
    /\ worker' = [worker EXCEPT ![w] = IdleWorker]
    /\ UNCHANGED <<stripeVars, sess, hook, todo, tableVars>>

-----------------------------------------------------------------------------

\* Mutation of StatusSync: a cancellation also clears stripeSubscriptionId.
StatusSyncUnlinks(r, status) ==
    /\ row[r] # None
    /\ row[r].link # None
    /\ row' = [row EXCEPT ![r].status = status,
                          ![r].link = IF status = "CANCELED" THEN None ELSE @]
    /\ UNCHANGED <<stripeVars, sess, queueVars, worker, hist, applied>>

\* The webhook handlers and cancelSubscription change the status of a row that
\* has a Stripe subscription (module SubscriptionSync says how).
StatusSync(r, status) ==
    /\ row[r] # None
    /\ row[r].link # None
    /\ row' = [row EXCEPT ![r].status = status]
    /\ UNCHANGED <<stripeVars, sess, queueVars, worker, hist, applied>>

Customer(s) ==
    \/ CreateStripeSession(s)
    \/ CreateSessionRow(s)
    \/ \E outcome \in Outcomes : CompleteCheckout(s, outcome)

Producer(s) ==
    \/ WebhookQueued(s)
    \/ WebhookLost(s)
    \/ ReconcileQueue(s)
    \/ ReconcileSkip(s)

Bull(j) ==
    \/ StallJob(j)
    \/ FailStuckActiveJob(j)
    \/ CleanActiveJob(j)

Process(w) ==
    \/ \E j \in Jobs : SkipJob(w, j) \/ LoadJob(w, j)
    \/ RejectSession(w)
    \/ BeginTx(w)
    \/ CommitUpdate(w)
    \/ CommitCreate(w)
    \/ AttemptFails(w)

Next ==
    \/ \E s \in Sessions : Customer(s) \/ TimePasses(s) \/ Producer(s)
    \/ ReconcileStart
    \/ ExpireOldSessions
    \/ \E j \in Jobs : Bull(j)
    \/ \E w \in Workers : Process(w) \/ Crash(w)
    \/ \E r \in Rows, status \in Statuses : StatusSync(r, status)

Spec == Init /\ [][Next]_vars

\* Bull's stalled check and the processes keep running; a crashed process comes
\* back.  Nothing is assumed of customers, Stripe, the webhook or reconciliation.
Fairness ==
    /\ \A j \in Jobs : WF_vars(Abandoned(j) /\ StallJob(j))
    /\ WF_vars(\E w \in Workers : Process(w))

FairSpec == Spec /\ Fairness

\* The clock and the daily cron keep running.
CronFairness ==
    /\ \A s \in Sessions : WF_vars(TimePasses(s))
    /\ WF_vars(ExpireOldSessions)

-----------------------------------------------------------------------------
(* Safety                                                                   *)

\* A subscription row carries a Stripe subscription only through a finished,
\* COMPLETED checkout of the same user, and then has the plan that was bought:
\* stale reads, retries and the crons never mix users or plans.
LinkedRowsAreBought ==
    \A r \in Rows : row[r] # None /\ row[r].link # None =>
        LET s == row[r].link
        IN  /\ sess[s] = "COMPLETED"
            /\ HasSubscription(s)
            /\ row[r].user = Owner[s]
            /\ row[r].plan = PlanOf[s]

\* A session is COMPLETED exactly when its transaction committed: neither the
\* expiry cron nor a second job that read it earlier takes that back.
CompletedIffApplied ==
    \A s \in Sessions : sess[s] = "COMPLETED" <=> applied[s] > 0

\* Once a checkout of a user is COMPLETED, the user has a row linked to one of
\* the user's own checkouts, even if later checkouts took the row over.
BuyersKeepASubscription ==
    \A s \in Sessions : sess[s] = "COMPLETED" =>
        \E r \in Rows : /\ row[r] # None
                        /\ row[r].link # None
                        /\ row[r].user = Owner[s]

\* What makes the invariants above inductive.  A queued session is finished, so a
\* process that rejects it never meets a subscription later on ...
JobsAreFinished ==
    \A j \in Jobs : job[j].state \in {"waiting", "active"} =>
        job[j].sess \in Sessions /\ Finished(job[j].sess)

\* ... a process keeps, of what it read, only what no other step can change ...
ReadsStayTrue ==
    \A w \in Workers : worker[w].pc # "idle" =>
        LET s == worker[w].sess
            r == worker[w].target
        IN  /\ worker[w].job \in Jobs
            /\ s \in Sessions
            /\ Finished(s)
            /\ worker[w].pc = "applying" =>
                  /\ HasSubscription(s)
                  /\ r # None => row[r] # None /\ row[r].user = Owner[s]

\* ... and the status of a checkout session agrees with what Stripe says of it.
StatusAgreesWithStripe ==
    \A s \in Sessions :
        /\ Finished(s) => sess[s] # "NONE"
        /\ sess[s] = "COMPLETED" => HasSubscription(s)
        /\ sess[s] = "FAILED" => Finished(s) /\ ~HasSubscription(s)

\* Stripe closes a session before the expiry cron gets to it: for the refinement.
ExpiredAreOld == \A s \in Sessions : sess[s] = "EXPIRED" => age[s] = Old

Inv ==
    /\ TypeOK
    /\ JobsAreFinished
    /\ ReadsStayTrue
    /\ StatusAgreesWithStripe
    /\ ExpiredAreOld
    /\ LinkedRowsAreBought
    /\ CompletedIffApplied
    /\ BuyersKeepASubscription

\* The comment on class StripeCheckoutProcessor: processing is idempotent.
AppliedAtMostOnce == \A s \in Sessions : applied[s] <= 1

\* The plan a checkout replaces is recorded in subscription_history, so no plan
\* a user had is missing from the history.
ReplacedPlanIsRecorded ==
    [][\A r \in Rows : row[r] # None /\ row'[r].link # row[r].link =>
           hist'[r] = Append(hist[r], row[r].plan)]_vars

\* The comment on handleExpireOldSessions: only sessions that will never be
\* completed expire.
ExpiredWasNotFinished ==
    \A s \in Sessions : sess[s] = "EXPIRED" => ~Finished(s)

-----------------------------------------------------------------------------
(* Refinement                                                               *)

LedgerOutcome ==
    [s \in Sessions |-> CASE HasSubscription(s) -> "sold"
                          [] Finished(s) /\ ~HasSubscription(s) -> "unsold"
                          [] OTHER -> "none"]

LedgerGrant ==
    [r \in Rows |-> IF row[r] = None THEN None
                    ELSE [user |-> row[r].user, plan |-> row[r].plan, link |-> row[r].link]]

Ledger == INSTANCE CheckoutLedger WITH
    status  <- sess,
    outcome <- LedgerOutcome,
    grant   <- LedgerGrant

\* Queue, retries, crons and overlapping processes together do only what the
\* ledger allows: a step grants at most one session, never an unfinished one, never
\* to another user and never into a second row (but perhaps once more into its own).
ImplementsLedger == Ledger!Spec

-----------------------------------------------------------------------------
(* Liveness                                                                 *)

\* Where the daily cron runs, no session stays PENDING forever.
PendingEnds ==
    CronFairness => \A s \in Sessions : (sess[s] = "PENDING") ~> (sess[s] # "PENDING")

\* Every queued job ends, whatever crashes, stalls and errors it meets, and even
\* if no cron takes its session or the job away.
JobsEnd == \A j \in Jobs : (job[j].state = "waiting") ~> (job[j].state = "gone")

=============================================================================
