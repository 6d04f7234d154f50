----------------------- MODULE StripeCheckout_proofs -----------------------
(***************************************************************************)
(* Proofs about StripeCheckout, for any sessions, users, plans, rows, jobs *)
(* and processes and any number of attempts and stalls: the invariant Inv, *)
(* the safety properties it contains, what one process alone keeps, and    *)
(* that the checkout path implements CheckoutLedger.                       *)
(***************************************************************************)
EXTENDS StripeCheckout, TLAPS

-----------------------------------------------------------------------------
(* Types of what the helpers return                                         *)

\* A job that used up an attempt is still a job: it counts fewer attempts than
\* MaxAttempts or it is gone.
LEMMA AfterAttemptType ==
    ASSUME TypeOK, NEW j \in Jobs
    PROVE  /\ AfterAttempt(j) \in JobRecord
           /\ AfterAttempt(j).state = "waiting" => AfterAttempt(j).sess = job[j].sess
           /\ AfterAttempt(j).state # "active"
<1>1. job[j] \in JobRecord
  BY DEF TypeOK
<1>2. CASE job[j].attempts + 1 < MaxAttempts
  <2>1. AfterAttempt(j) = [job[j] EXCEPT !.state = "waiting",
                             !.attempts = job[j].attempts + 1, !.lock = None]
    BY <1>2 DEF AfterAttempt
  <2>2. job[j].attempts + 1 \in 0..MaxAttempts-1
    BY <1>1, <1>2, CheckoutConstants DEF JobRecord
  <2> QED
    BY <1>1, <2>1, <2>2 DEF JobRecord
<1>3. CASE ~(job[j].attempts + 1 < MaxAttempts)
  BY <1>3, CheckoutConstants DEF AfterAttempt, GoneJob, JobRecord
<1> QED
  BY <1>2, <1>3

LEMMA GoneJobType == GoneJob \in JobRecord /\ FreeJob \in JobRecord
  BY CheckoutConstants DEF JobRecord, GoneJob, FreeJob

LEMMA IdleWorkerType == IdleWorker \in WorkerRecord
  BY CheckoutConstants DEF WorkerRecord, IdleWorker

\* Whatever a process reports, only its own job changes, and to what it reports.
LEMMA ReportType ==
    ASSUME TypeOK, NEW w \in Workers, NEW rec \in JobRecord,
           worker[w].job \in Jobs, Report(w, rec)
    PROVE  /\ job' \in [Jobs -> JobRecord]
           /\ \A j \in Jobs : job'[j] = job[j] \/ (j = worker[w].job /\ job'[j] = rec)
  BY DEF TypeOK, Report

\* The transaction settles on an existing row or on none.
LEMMA CandidatesType ==
    ASSUME TypeOK, NEW s \in Sessions, NEW r \in Candidates(s)
    PROVE  r # None => r \in Rows /\ row[r] # None
  BY DEF Candidates, LinkedRows, LiveRows

-----------------------------------------------------------------------------
(* Initially                                                                *)

THEOREM InitInv == Init => Inv
<1> SUFFICES ASSUME Init PROVE Inv
  OBVIOUS
<1>1. \A r \in Rows : row[r] # None =>
         /\ row[r] \in SubscriptionRow
         /\ row[r].link = None
  BY CheckoutConstants DEF Init, InitialRows, FreeRow, SubscriptionRow
<1>2. TypeOK
  <2>1. row \in [Rows -> SubscriptionRow \union {None}]
    BY <1>1 DEF Init, InitialRows
  <2>2. job \in [Jobs -> JobRecord]
    BY GoneJobType DEF Init
  <2>3. worker \in [Workers -> WorkerRecord]
    BY IdleWorkerType DEF Init
  <2>4. hist \in [Rows -> Seq(Plans)]
    BY DEF Init
  <2> QED
    BY <2>1, <2>2, <2>3, <2>4 DEF Init, TypeOK, Fresh
<1>3. JobsAreFinished /\ ReadsStayTrue
  BY DEF Init, JobsAreFinished, ReadsStayTrue, FreeJob, GoneJob, IdleWorker
<1>4. StatusAgreesWithStripe /\ ExpiredAreOld
  BY CheckoutConstants DEF Init, StatusAgreesWithStripe, ExpiredAreOld, Finished
<1>5. LinkedRowsAreBought
  BY <1>1 DEF LinkedRowsAreBought
<1>6. CompletedIffApplied /\ BuyersKeepASubscription
  BY DEF Init, CompletedIffApplied, BuyersKeepASubscription
<1> QED
  BY <1>2, <1>3, <1>4, <1>5, <1>6 DEF Inv

-----------------------------------------------------------------------------
(* Types, step by step                                                      *)

\* What both commits write beside the row keeps its type.
LEMMA CompleteSessionType ==
    ASSUME Inv, NEW w \in Workers, worker[w].pc # "idle", CompleteSession(w)
    PROVE  /\ sess' \in [Sessions -> {"NONE", "PENDING", "COMPLETED", "EXPIRED", "FAILED"}]
           /\ applied' \in [Sessions -> Nat]
           /\ job' \in [Jobs -> JobRecord]
           /\ worker' \in [Workers -> WorkerRecord]
<1>1. /\ TypeOK
      /\ worker[w].job \in Jobs
      /\ worker[w].sess \in Sessions
  BY DEF Inv, ReadsStayTrue
<1>2. job' \in [Jobs -> JobRecord]
  BY <1>1, ReportType, GoneJobType DEF CompleteSession
<1>3. worker' \in [Workers -> WorkerRecord]
  BY <1>1, IdleWorkerType DEF TypeOK, CompleteSession
<1> QED
  BY <1>1, <1>2, <1>3 DEF TypeOK, CompleteSession

THEOREM TypeStep == Inv /\ [Next]_vars => TypeOK'
<1> SUFFICES ASSUME Inv, [Next]_vars PROVE TypeOK'
  OBVIOUS
<1>0. TypeOK
  BY DEF Inv
<1> USE DEF stripeVars, queueVars, tableVars
<1>1. ASSUME NEW s \in Sessions, CreateStripeSession(s) \/ CreateSessionRow(s)
      PROVE  TypeOK'
  BY <1>0, <1>1 DEF TypeOK, CreateStripeSession, CreateSessionRow
<1>2. ASSUME NEW s \in Sessions, NEW outcome \in Outcomes, CompleteCheckout(s, outcome)
      PROVE  TypeOK'
  BY <1>0, <1>2 DEF TypeOK, CompleteCheckout
<1>3. ASSUME NEW s \in Sessions, TimePasses(s)
      PROVE  TypeOK'
  <2>1. age[s] + 1 \in {Fresh, Stale, Old}
    <3>1. age[s] = 0 \/ age[s] = 1
      BY <1>0, <1>3 DEF TypeOK, TimePasses, Fresh, Stale, Old
    <3> QED
      BY <3>1 DEF Fresh, Stale, Old
  <2>2. age' \in [Sessions -> {Fresh, Stale, Old}]
    BY <1>0, <1>3, <2>1 DEF TypeOK, TimePasses
  <2> QED
    BY <1>0, <1>3, <2>2 DEF TypeOK, TimePasses
<1>4. ASSUME NEW s \in Sessions, WebhookQueued(s) \/ WebhookLost(s)
                                 \/ ReconcileQueue(s) \/ ReconcileSkip(s)
      PROVE  TypeOK'
  <2>1. \A j \in Jobs : [FreeJob EXCEPT !.state = "waiting", !.sess = s] \in JobRecord
    BY GoneJobType DEF JobRecord
  <2> HIDE DEF JobRecord
  <2>2. CASE Enqueue(s)
    BY <1>0, <1>4, <2>1, <2>2
    DEF TypeOK, Enqueue, WebhookQueued, WebhookLost, ReconcileQueue, ReconcileSkip
  <2>3. CASE UNCHANGED job
    BY <1>0, <1>4, <2>3
    DEF TypeOK, WebhookQueued, WebhookLost, ReconcileQueue, ReconcileSkip
  <2> QED
    BY <1>4, <2>2, <2>3 DEF WebhookQueued, WebhookLost, ReconcileQueue, ReconcileSkip
<1>5. CASE ReconcileStart \/ ExpireOldSessions
  BY <1>0, <1>5 DEF TypeOK, ReconcileStart, ExpireOldSessions
<1>6. ASSUME NEW j \in Jobs, StallJob(j) \/ FailStuckActiveJob(j) \/ CleanActiveJob(j)
      PROVE  TypeOK'
  <2> DEFINE stalled == [job[j] EXCEPT !.state = "waiting",
                            !.stalls = job[j].stalls + 1, !.lock = None]
  <2>1. job[j].stalls < MaxStalls => stalled \in JobRecord
    <3>1. job[j] \in JobRecord
      BY <1>0 DEF TypeOK
    <3>2. job[j].stalls < MaxStalls => job[j].stalls + 1 \in 0..MaxStalls
      BY <3>1, CheckoutConstants DEF JobRecord
    <3> QED
      BY <3>1, <3>2 DEF JobRecord
  <2>2. \E rec \in JobRecord : job' = [job EXCEPT ![j] = rec]
    <3>1. CASE StallJob(j) /\ job[j].stalls < MaxStalls
      <4>1. job' = [job EXCEPT ![j] = stalled]
        BY <3>1 DEF StallJob
      <4>2. stalled \in JobRecord
        BY <3>1, <2>1
      <4> HIDE DEF stalled
      <4> QED
        BY <4>1, <4>2
    <3>2. CASE StallJob(j) /\ ~(job[j].stalls < MaxStalls)
      BY <3>2, GoneJobType DEF StallJob
    <3>3. CASE FailStuckActiveJob(j)
      BY <1>0, <3>3, AfterAttemptType DEF FailStuckActiveJob
    <3>4. CASE CleanActiveJob(j)
      BY <3>4, GoneJobType DEF CleanActiveJob
    <3> QED
      BY <1>6, <3>1, <3>2, <3>3, <3>4
  <2>3. job' \in [Jobs -> JobRecord]
    BY <1>0, <2>2 DEF TypeOK
  <2> QED
    BY <1>0, <1>6, <2>3 DEF TypeOK, StallJob, FailStuckActiveJob, CleanActiveJob
<1>7. ASSUME NEW w \in Workers, Crash(w)
      PROVE  TypeOK'
  BY <1>0, <1>7, IdleWorkerType DEF TypeOK, Crash
<1>8. ASSUME NEW w \in Workers, NEW j \in Jobs, SkipJob(w, j)
      PROVE  TypeOK'
  BY <1>0, <1>8, GoneJobType DEF TypeOK, SkipJob
<1>9. ASSUME NEW w \in Workers, NEW j \in Jobs, LoadJob(w, j)
      PROVE  TypeOK'
  <2>1. job[j] \in JobRecord
    BY <1>0 DEF TypeOK
  <2>2. [job[j] EXCEPT !.state = "active", !.lock = w] \in JobRecord
    BY <2>1 DEF JobRecord
  <2>3. [IdleWorker EXCEPT !.pc = "loaded", !.job = j, !.sess = job[j].sess] \in WorkerRecord
    BY <2>1, IdleWorkerType DEF WorkerRecord, JobRecord
  <2>4. job' = [job EXCEPT ![j] = [job[j] EXCEPT !.state = "active", !.lock = w]]
    BY <1>9 DEF LoadJob
  <2>5. job' \in [Jobs -> JobRecord]
    BY <1>0, <2>2, <2>4 DEF TypeOK
  <2> QED
    BY <1>0, <1>9, <2>3, <2>5 DEF TypeOK, LoadJob
<1>10. ASSUME NEW w \in Workers, RejectSession(w)
       PROVE  TypeOK'
  <2>1. worker[w].job \in Jobs /\ worker[w].sess \in Sessions
    BY <1>10 DEF Inv, ReadsStayTrue, RejectSession
  <2>2. job' \in [Jobs -> JobRecord]
    BY <1>0, <1>10, <2>1, ReportType, GoneJobType DEF RejectSession
  <2> QED
    BY <1>0, <1>10, <2>1, <2>2, IdleWorkerType DEF TypeOK, RejectSession
<1>11. ASSUME NEW w \in Workers, BeginTx(w)
       PROVE  TypeOK'
  <2>1. worker[w].sess \in Sessions
    BY <1>11 DEF Inv, ReadsStayTrue, BeginTx
  <2>2. PICK r \in Candidates(worker[w].sess) :
          worker' = [worker EXCEPT ![w].pc = "applying", ![w].target = r,
                        ![w].snap = IF r = None THEN FreePlan ELSE row[r].plan]
    BY <1>11 DEF BeginTx
  <2>3. (IF r = None THEN FreePlan ELSE row[r].plan) \in Plans
    BY <1>0, <2>1, CandidatesType, CheckoutConstants DEF TypeOK, SubscriptionRow
  <2>4. r \in Rows \union {None}
    BY <1>0, <2>1, CandidatesType
  <2> DEFINE snap == IF r = None THEN FreePlan ELSE row[r].plan
             rec  == [worker[w] EXCEPT !.pc = "applying", !.target = r, !.snap = snap]
  <2>5. worker' \in [Workers -> WorkerRecord]
    <3>1. worker' = [worker EXCEPT ![w] = rec]
      BY <2>2
    <3>2. worker[w] \in WorkerRecord
      BY <1>0 DEF TypeOK
    <3>3. snap \in Plans
      BY <2>3
    <3> HIDE DEF snap
    <3>4. rec \in WorkerRecord
      BY <2>4, <3>2, <3>3 DEF WorkerRecord
    <3> QED
      BY <1>0, <3>1, <3>4 DEF TypeOK
  <2> QED
    BY <1>0, <1>11, <2>5 DEF TypeOK, BeginTx
<1>12. ASSUME NEW w \in Workers, CommitUpdate(w)
       PROVE  TypeOK'
  <2> DEFINE s == worker[w].sess
             r == worker[w].target
  <2>1. /\ s \in Sessions
        /\ r \in Rows
        /\ row[r] \in SubscriptionRow
        /\ worker[w].snap \in Plans
    BY <1>0, <1>12 DEF Inv, TypeOK, WorkerRecord, ReadsStayTrue, CommitUpdate
  <2>2. [row[r] EXCEPT !.plan = PlanOf[s], !.status = "ACTIVE", !.link = s] \in SubscriptionRow
    BY <2>1, CheckoutConstants DEF SubscriptionRow
  <2>3. row' = [row EXCEPT ![r] = [row[r] EXCEPT !.plan = PlanOf[s], !.status = "ACTIVE", !.link = s]]
    BY <1>12 DEF CommitUpdate
  <2>4. row' \in [Rows -> SubscriptionRow \union {None}]
    BY <1>0, <2>2, <2>3 DEF TypeOK
  <2>5. hist' \in [Rows -> Seq(Plans)]
    BY <1>0, <1>12, <2>1 DEF TypeOK, CommitUpdate
  <2>6. CompleteSession(w) /\ worker[w].pc # "idle"
    BY <1>12 DEF CommitUpdate
  <2>7. UNCHANGED <<stripe, age, hook, todo>>
    BY <2>6 DEF CompleteSession
  <2> QED
    BY <1>0, <2>4, <2>5, <2>6, <2>7, CompleteSessionType DEF TypeOK
<1>13. ASSUME NEW w \in Workers, CommitCreate(w)
       PROVE  TypeOK'
  <2> DEFINE s == worker[w].sess
  <2>1. s \in Sessions
    BY <1>13 DEF Inv, ReadsStayTrue, CommitCreate
  <2>2. [user |-> Owner[s], plan |-> PlanOf[s], status |-> "ACTIVE", link |-> s]
          \in SubscriptionRow
    BY <2>1, CheckoutConstants DEF SubscriptionRow
  <2>3. row' \in [Rows -> SubscriptionRow \union {None}]
    BY <1>0, <1>13, <2>2 DEF TypeOK, CommitCreate
  <2>4. CompleteSession(w) /\ worker[w].pc # "idle" /\ UNCHANGED hist
    BY <1>13 DEF CommitCreate
  <2>5. UNCHANGED <<stripe, age, hook, todo>>
    BY <2>4 DEF CompleteSession
  <2> QED
    BY <1>0, <2>3, <2>4, <2>5, CompleteSessionType DEF TypeOK
<1>14. ASSUME NEW w \in Workers, AttemptFails(w)
       PROVE  TypeOK'
  <2>1. worker[w].job \in Jobs
    BY <1>14 DEF Inv, ReadsStayTrue, AttemptFails
  <2>2. job' \in [Jobs -> JobRecord]
    BY <1>0, <1>14, <2>1, ReportType, AfterAttemptType DEF AttemptFails
  <2> QED
    BY <1>0, <1>14, <2>2, IdleWorkerType DEF TypeOK, AttemptFails
<1>15. ASSUME NEW r \in Rows, NEW status \in Statuses, StatusSync(r, status)
       PROVE  TypeOK'
  <2>1. [row[r] EXCEPT !.status = status] \in SubscriptionRow
    BY <1>0, <1>15 DEF TypeOK, StatusSync, SubscriptionRow
  <2>2. row' \in [Rows -> SubscriptionRow \union {None}]
    BY <1>0, <1>15, <2>1 DEF TypeOK, StatusSync
  <2> QED
    BY <1>0, <1>15, <2>2 DEF TypeOK, StatusSync
<1>16. CASE UNCHANGED vars
  BY <1>0, <1>16 DEF TypeOK, vars
<1> QED
  BY <1>1, <1>2, <1>3, <1>4, <1>5, <1>6, <1>7, <1>8, <1>9, <1>10, <1>11, <1>12, <1>13,
     <1>14, <1>15, <1>16 DEF Next, Customer, Producer, Bull, Process

-----------------------------------------------------------------------------
(* What no step takes back                                                  *)

\* A finished Stripe session stays as it is.
LEMMA FinishedStays ==
    ASSUME Inv, [Next]_vars, NEW s \in Sessions, Finished(s)
    PROVE  stripe'[s] = stripe[s]
<1>1. stripe[s] # "none" /\ stripe[s] # "open"
  BY CheckoutConstants DEF Finished
<1>2. TypeOK
  BY DEF Inv
<1> USE DEF stripeVars, queueVars, tableVars
<1>3. ASSUME NEW q \in Sessions, Customer(q)
      PROVE  stripe'[s] = stripe[s]
  BY <1>1, <1>2, <1>3
  DEF Customer, CreateStripeSession, CreateSessionRow, CompleteCheckout, TypeOK
<1>4. ASSUME NEW q \in Sessions, TimePasses(q) \/ Producer(q)
      PROVE  stripe'[s] = stripe[s]
  BY <1>4 DEF Producer, TimePasses, WebhookQueued, WebhookLost, ReconcileQueue, ReconcileSkip
<1>5. CASE ReconcileStart \/ ExpireOldSessions
  BY <1>5 DEF ReconcileStart, ExpireOldSessions
<1>6. ASSUME NEW j \in Jobs, Bull(j)
      PROVE  stripe'[s] = stripe[s]
  BY <1>6 DEF Bull, StallJob, FailStuckActiveJob, CleanActiveJob
<1>7. ASSUME NEW w \in Workers, Process(w) \/ Crash(w)
      PROVE  stripe'[s] = stripe[s]
  BY <1>7 DEF Process, Crash, SkipJob, LoadJob, RejectSession, BeginTx, CommitUpdate,
              CommitCreate, CompleteSession, AttemptFails
<1>8. CASE \E r \in Rows, status \in Statuses : StatusSync(r, status)
  BY <1>8 DEF StatusSync
<1>9. CASE UNCHANGED vars
  BY <1>9 DEF vars
<1> QED
  BY <1>3, <1>4, <1>5, <1>6, <1>7, <1>8, <1>9 DEF Next

\* A step leaves the rows, the histories and the applied transactions alone, or it
\* is one of the three that write a row.
LEMMA RowSteps ==
    ASSUME [Next]_vars
    PROVE  \/ UNCHANGED <<row, hist, applied>>
           \/ \E w \in Workers : CommitUpdate(w) \/ CommitCreate(w)
           \/ \E r \in Rows, status \in Statuses : StatusSync(r, status)
<1> USE DEF stripeVars, queueVars, tableVars
<1>1. ASSUME NEW q \in Sessions, Customer(q) \/ TimePasses(q) \/ Producer(q)
      PROVE  UNCHANGED <<row, hist, applied>>
  BY <1>1 DEF Customer, CreateStripeSession, CreateSessionRow, CompleteCheckout, TimePasses,
              Producer, WebhookQueued, WebhookLost, ReconcileQueue, ReconcileSkip
<1>2. CASE ReconcileStart \/ ExpireOldSessions
  BY <1>2 DEF ReconcileStart, ExpireOldSessions
<1>3. ASSUME NEW j \in Jobs, Bull(j)
      PROVE  UNCHANGED <<row, hist, applied>>
  BY <1>3 DEF Bull, StallJob, FailStuckActiveJob, CleanActiveJob
<1>4. ASSUME NEW w \in Workers, Process(w) \/ Crash(w), ~CommitUpdate(w), ~CommitCreate(w)
      PROVE  UNCHANGED <<row, hist, applied>>
  BY <1>4 DEF Process, Crash, SkipJob, LoadJob, RejectSession, BeginTx, AttemptFails
<1>5. CASE UNCHANGED vars
  BY <1>5 DEF vars
<1> QED
  BY <1>1, <1>2, <1>3, <1>4, <1>5 DEF Next

\* What a commit starts from.
LEMMA CommitFacts ==
    ASSUME Inv, NEW w \in Workers, worker[w].pc = "applying"
    PROVE  /\ worker[w].job \in Jobs
           /\ worker[w].sess \in Sessions
           /\ HasSubscription(worker[w].sess)
           /\ worker[w].target \in Rows \union {None}
           /\ worker[w].target # None =>
                 /\ row[worker[w].target] \in SubscriptionRow
                 /\ row[worker[w].target].user = Owner[worker[w].sess]
  BY DEF Inv, ReadsStayTrue, TypeOK, WorkerRecord

\* A row, once there, stays there and stays the row of its user.
LEMMA RowsStay ==
    ASSUME Inv, [Next]_vars, NEW r \in Rows, row[r] # None
    PROVE  row'[r] # None /\ row'[r].user = row[r].user
<1>0. row[r] \in SubscriptionRow /\ row \in [Rows -> SubscriptionRow \union {None}]
  BY DEF Inv, TypeOK
<1>1. row'[r] \in SubscriptionRow \union {None}
  BY TypeStep DEF TypeOK
<1>2. ASSUME NEW w \in Workers, CommitUpdate(w)
      PROVE  row'[r] # None /\ row'[r].user = row[r].user
  <2> DEFINE s == worker[w].sess
             updated == [row[r] EXCEPT !.plan = PlanOf[s], !.status = "ACTIVE", !.link = s]
  <2>1. row'[r] = row[r] \/ row'[r] = updated
    BY <1>0, <1>2 DEF CommitUpdate
  <2>2. s \in Sessions
    BY <1>2, CommitFacts DEF CommitUpdate
  <2>3. updated \in SubscriptionRow /\ updated.user = row[r].user
    BY <1>0, <2>2, CheckoutConstants DEF SubscriptionRow
  <2> HIDE DEF updated
  <2> QED
    BY <2>1, <2>3, NoneIsNoRow
<1>3. ASSUME NEW w \in Workers, CommitCreate(w)
      PROVE  row'[r] # None /\ row'[r].user = row[r].user
  BY <1>0, <1>3 DEF CommitCreate
<1>4. ASSUME NEW q \in Rows, NEW status \in Statuses, StatusSync(q, status)
      PROVE  row'[r] # None /\ row'[r].user = row[r].user
  <2>1. row'[r] = row[r] \/ row'[r] = [row[r] EXCEPT !.status = status]
    BY <1>0, <1>4 DEF StatusSync
  <2>2. /\ [row[r] EXCEPT !.status = status] \in SubscriptionRow
        /\ [row[r] EXCEPT !.status = status].user = row[r].user
    BY <1>0 DEF SubscriptionRow
  <2> QED
    BY <2>1, <2>2, NoneIsNoRow
<1> QED
  BY <1>2, <1>3, <1>4, RowSteps

-----------------------------------------------------------------------------
(* The invariant, part by part                                              *)

\* Every way a job can change: it is queued for a finished session, it stays with
\* its session, or it is gone.
THEOREM JobsStep == Inv /\ [Next]_vars => JobsAreFinished'
<1> SUFFICES ASSUME Inv, [Next]_vars, NEW k \in Jobs,
                    job'[k].state \in {"waiting", "active"}
             PROVE  job'[k].sess \in Sessions /\ stripe'[job'[k].sess] \in Outcomes
  BY DEF JobsAreFinished, Finished
<1>0. TypeOK /\ job \in [Jobs -> JobRecord]
  BY DEF Inv, TypeOK
<1> DEFINE Queued == \E s \in Sessions : Finished(s) /\ job'[k].sess = s
           Kept   == /\ job[k].state \in {"waiting", "active"}
                     /\ job'[k].sess = job[k].sess
<1>1. SUFFICES Queued \/ Kept
  <2>1. job'[k].sess \in Sessions /\ Finished(job'[k].sess)
    BY <1>1 DEF Inv, JobsAreFinished
  <2> QED
    BY <2>1, FinishedStays DEF Finished
<1> HIDE DEF Queued, Kept
<1>2. CASE UNCHANGED job
  BY <1>2 DEF Kept
<1>3. ASSUME NEW s \in Sessions, WebhookQueued(s) \/ ReconcileQueue(s)
      PROVE  Queued \/ Kept
  <2>1. Finished(s)
    BY <1>0, <1>3, CheckoutConstants
    DEF WebhookQueued, ReconcileQueue, PaymentPaid, Finished, TypeOK
  <2>2. Enqueue(s)
    BY <1>3 DEF WebhookQueued, ReconcileQueue
  <2>3. PICK j \in Jobs :
          job' = [job EXCEPT ![j] = [FreeJob EXCEPT !.state = "waiting", !.sess = s]]
    BY <2>2 DEF Enqueue
  <2>4. [FreeJob EXCEPT !.state = "waiting", !.sess = s].sess = s
    BY DEF FreeJob, GoneJob
  <2>5. k = j => job'[k].sess = s
    BY <1>0, <2>3, <2>4
  <2>6. k # j => job'[k] = job[k]
    BY <1>0, <2>3
  <2> QED
    BY <2>1, <2>5, <2>6 DEF Queued, Kept
<1>4. ASSUME NEW j \in Jobs, Bull(j)
      PROVE  Queued \/ Kept
  <2>1. job[j].state = "active"
    BY <1>4 DEF Bull, StallJob, FailStuckActiveJob, CleanActiveJob, Abandoned
  <2>2. k # j => job'[k] = job[k]
    BY <1>0, <1>4 DEF Bull, StallJob, FailStuckActiveJob, CleanActiveJob
  <2>3. GoneJob.state = "gone"
    BY DEF GoneJob
  <2>4. ASSUME k = j, StallJob(j)
        PROVE  job'[k].sess = job[k].sess
    <3>1. \/ job'[k] = GoneJob
          \/ job'[k] = [job[j] EXCEPT !.state = "waiting", !.stalls = job[j].stalls + 1,
                                      !.lock = None]
      BY <1>0, <2>4 DEF StallJob
    <3> QED
      BY <1>0, <2>3, <2>4, <3>1 DEF JobRecord
  <2>5. ASSUME k = j, FailStuckActiveJob(j)
        PROVE  job'[k].sess = job[k].sess
    BY <1>0, <2>5, AfterAttemptType DEF FailStuckActiveJob, JobRecord
  <2>6. ASSUME k = j, CleanActiveJob(j)
        PROVE  FALSE
    BY <1>0, <2>3, <2>6 DEF CleanActiveJob
  <2> QED
    BY <1>4, <2>1, <2>2, <2>4, <2>5, <2>6 DEF Bull, Kept
<1>5. ASSUME NEW w \in Workers, NEW j \in Jobs, SkipJob(w, j) \/ LoadJob(w, j)
      PROVE  Queued \/ Kept
  <2>1. k # j => job'[k] = job[k]
    BY <1>0, <1>5 DEF SkipJob, LoadJob
  <2>2. job[j].state = "waiting"
    BY <1>5 DEF SkipJob, LoadJob
  <2>3. ASSUME k = j, SkipJob(w, j)
        PROVE  FALSE
    BY <1>0, <2>3 DEF SkipJob, GoneJob
  <2>4. ASSUME k = j, LoadJob(w, j)
        PROVE  job'[k].sess = job[k].sess
    BY <1>0, <2>4 DEF LoadJob, JobRecord
  <2> QED
    BY <1>5, <2>1, <2>2, <2>3, <2>4 DEF Kept
<1>6. ASSUME NEW w \in Workers, NEW rec \in JobRecord, Report(w, rec),
             worker[w].job \in Jobs,
             \/ rec.state = "gone"
             \/ rec.state # "active" /\ (rec.state = "waiting" => rec.sess = job[worker[w].job].sess)
      PROVE  Queued \/ Kept
  <2>1. job'[k] = job[k] \/ (k = worker[w].job /\ job'[k] = rec /\ job[k].state = "active")
    BY <1>0, <1>6 DEF Report
  <2> QED
    BY <1>6, <2>1 DEF Kept
<1>7. ASSUME NEW w \in Workers, RejectSession(w) \/ CommitUpdate(w) \/ CommitCreate(w)
      PROVE  Queued \/ Kept
  <2>1. Report(w, GoneJob) /\ worker[w].job \in Jobs
    BY <1>7 DEF RejectSession, CommitUpdate, CommitCreate, CompleteSession, Inv, ReadsStayTrue
  <2> QED
    BY <1>6, <2>1, GoneJobType DEF GoneJob
<1>8. ASSUME NEW w \in Workers, AttemptFails(w)
      PROVE  Queued \/ Kept
  <2>1. worker[w].job \in Jobs /\ Report(w, AfterAttempt(worker[w].job))
    BY <1>8 DEF AttemptFails, Inv, ReadsStayTrue
  <2> QED
    BY <1>0, <1>6, <2>1, AfterAttemptType
<1>9. ASSUME NEW s \in Sessions, ~WebhookQueued(s), ~ReconcileQueue(s),
             Customer(s) \/ TimePasses(s) \/ Producer(s)
      PROVE  UNCHANGED job
  BY <1>9 DEF Customer, CreateStripeSession, CreateSessionRow, CompleteCheckout, TimePasses,
              Producer, WebhookLost, ReconcileSkip, queueVars
<1>10. CASE ReconcileStart \/ ExpireOldSessions
  BY <1>2, <1>10 DEF ReconcileStart, ExpireOldSessions, queueVars
<1>11. ASSUME NEW w \in Workers, BeginTx(w) \/ Crash(w)
       PROVE  UNCHANGED job
  BY <1>11 DEF BeginTx, Crash, queueVars
<1>12. CASE \E r \in Rows, status \in Statuses : StatusSync(r, status)
  BY <1>2, <1>12 DEF StatusSync, queueVars
<1>13. CASE UNCHANGED vars
  BY <1>2, <1>13 DEF vars
<1> QED
  BY <1>2, <1>3, <1>4, <1>5, <1>7, <1>8, <1>9, <1>10, <1>11, <1>12, <1>13 DEF Next, Process

\* What a process keeps in memory is about finished sessions and about rows that
\* stay rows of the same user, whatever the others do meanwhile.
THEOREM ReadsStep == Inv /\ [Next]_vars => ReadsStayTrue'
<1> SUFFICES ASSUME Inv, [Next]_vars, NEW v \in Workers, worker'[v].pc # "idle"
             PROVE  LET s == worker'[v].sess
                        r == worker'[v].target
                    IN  /\ worker'[v].job \in Jobs
                        /\ s \in Sessions
                        /\ stripe'[s] \in Outcomes
                        /\ worker'[v].pc = "applying" =>
                              /\ stripe'[s] \in {"paid", "not_paid"}
                              /\ r # None => row'[r] # None /\ row'[r].user = Owner[s]
  BY DEF ReadsStayTrue, Finished, HasSubscription
<1> DEFINE s == worker'[v].sess
           r == worker'[v].target
           Known == /\ worker'[v].job \in Jobs
                    /\ s \in Sessions
                    /\ Finished(s)
                    /\ worker'[v].pc = "applying" =>
                          /\ HasSubscription(s)
                          /\ r # None => r \in Rows /\ row[r] # None /\ row[r].user = Owner[s]
<1>0. TypeOK /\ worker \in [Workers -> WorkerRecord]
  BY DEF Inv, TypeOK
<1>1. SUFFICES Known
  BY <1>1, FinishedStays, RowsStay DEF Finished, HasSubscription
<1>2. CASE worker'[v] = worker[v]
  BY <1>0, <1>2 DEF Inv, ReadsStayTrue, WorkerRecord
<1>3. ASSUME NEW w \in Workers,
             Crash(w) \/ RejectSession(w) \/ CommitUpdate(w) \/ CommitCreate(w) \/ AttemptFails(w)
      PROVE  worker'[v] = worker[v]
  <2>1. worker' = [worker EXCEPT ![w] = IdleWorker]
    BY <1>3 DEF Crash, RejectSession, CommitUpdate, CommitCreate, CompleteSession, AttemptFails
  <2> QED
    BY <1>0, <2>1 DEF IdleWorker
<1>4. ASSUME NEW w \in Workers, NEW j \in Jobs, LoadJob(w, j)
      PROVE  Known
  <2>1. job[j].sess \in Sessions /\ Finished(job[j].sess)
    BY <1>4 DEF Inv, JobsAreFinished, LoadJob
  <2> DEFINE rec == [IdleWorker EXCEPT !.pc = "loaded", !.job = j, !.sess = job[j].sess]
  <2>2. rec.pc = "loaded" /\ rec.job = j /\ rec.sess = job[j].sess
    BY DEF IdleWorker
  <2>3. worker' = [worker EXCEPT ![w] = rec]
    BY <1>4 DEF LoadJob
  <2> HIDE DEF rec
  <2>4. CASE v = w
    BY <1>0, <2>1, <2>2, <2>3, <2>4
  <2> QED
    BY <1>0, <1>2, <2>3, <2>4
<1>5. ASSUME NEW w \in Workers, BeginTx(w)
      PROVE  Known
  <2> DEFINE t == worker[w].sess
  <2>1. /\ worker[w].job \in Jobs
        /\ t \in Sessions
        /\ Finished(t)
        /\ HasSubscription(t)
    BY <1>5 DEF Inv, ReadsStayTrue, BeginTx
  <2>2. PICK q \in Candidates(t) :
          worker' = [worker EXCEPT ![w].pc = "applying", ![w].target = q,
                        ![w].snap = IF q = None THEN FreePlan ELSE row[q].plan]
    BY <1>5 DEF BeginTx
  <2>3. q # None => q \in Rows /\ row[q] # None /\ row[q].user = Owner[t]
    BY <2>1, CheckoutConstants DEF Candidates, LinkedRows, LiveRows, Inv, LinkedRowsAreBought
  <2>4. v = w => worker'[v].target = q /\ worker'[v].sess = t /\ worker'[v].job = worker[w].job
    BY <1>0, <2>2 DEF WorkerRecord
  <2>5. CASE v = w
    BY <2>1, <2>3, <2>4, <2>5
  <2> QED
    BY <1>0, <1>2, <2>2, <2>5
<1>6. ASSUME NEW w \in Workers, NEW j \in Jobs, SkipJob(w, j)
      PROVE  worker'[v] = worker[v]
  BY <1>6 DEF SkipJob
<1>7. ASSUME NEW q \in Sessions, Customer(q) \/ TimePasses(q) \/ Producer(q)
      PROVE  worker'[v] = worker[v]
  BY <1>7 DEF Customer, CreateStripeSession, CreateSessionRow, CompleteCheckout, TimePasses,
              Producer, WebhookQueued, WebhookLost, ReconcileQueue, ReconcileSkip
<1>8. CASE ReconcileStart \/ ExpireOldSessions
  BY <1>2, <1>8 DEF ReconcileStart, ExpireOldSessions
<1>9. ASSUME NEW j \in Jobs, Bull(j)
      PROVE  worker'[v] = worker[v]
  BY <1>9 DEF Bull, StallJob, FailStuckActiveJob, CleanActiveJob
<1>10. CASE \E q \in Rows, status \in Statuses : StatusSync(q, status)
  BY <1>2, <1>10 DEF StatusSync
<1>11. CASE UNCHANGED vars
  BY <1>2, <1>11 DEF vars
<1> HIDE DEF Known
<1> QED
  BY <1>2, <1>3, <1>4, <1>5, <1>6, <1>7, <1>8, <1>9, <1>10, <1>11 DEF Next, Process

\* Every way the status of a checkout session can change, and that only the commit
\* that makes it COMPLETED counts as an application.
LEMMA SessionSteps ==
    ASSUME Inv, [Next]_vars, NEW s \in Sessions
    PROVE  \/ sess'[s] = sess[s] /\ applied'[s] = applied[s]
           \/ sess[s] = "NONE" /\ sess'[s] = "PENDING" /\ applied'[s] = applied[s]
           \/ sess[s] = "PENDING" /\ sess'[s] = "EXPIRED" /\ applied'[s] = applied[s]
           \/ /\ Finished(s) /\ ~HasSubscription(s)
              /\ sess'[s] = "FAILED" /\ applied'[s] = applied[s]
           \/ /\ Finished(s) /\ HasSubscription(s)
              /\ sess'[s] = "COMPLETED" /\ applied'[s] = applied[s] + 1
<1> DEFINE Goal == \/ sess'[s] = sess[s] /\ applied'[s] = applied[s]
                   \/ sess[s] = "NONE" /\ sess'[s] = "PENDING" /\ applied'[s] = applied[s]
                   \/ sess[s] = "PENDING" /\ sess'[s] = "EXPIRED" /\ applied'[s] = applied[s]
                   \/ /\ Finished(s) /\ ~HasSubscription(s)
                      /\ sess'[s] = "FAILED" /\ applied'[s] = applied[s]
                   \/ /\ Finished(s) /\ HasSubscription(s)
                      /\ sess'[s] = "COMPLETED" /\ applied'[s] = applied[s] + 1
<1> SUFFICES Goal
  OBVIOUS
<1>0. TypeOK
  BY DEF Inv
<1>1. CASE UNCHANGED <<sess, applied>>
  BY <1>1
<1>2. ASSUME NEW q \in Sessions, CreateSessionRow(q)
      PROVE  Goal
  BY <1>0, <1>2 DEF CreateSessionRow, tableVars, TypeOK
<1>3. CASE ExpireOldSessions
  BY <1>3 DEF ExpireOldSessions, tableVars
<1>4. ASSUME NEW w \in Workers, RejectSession(w)
      PROVE  Goal
  <2>1. Finished(worker[w].sess) /\ ~HasSubscription(worker[w].sess)
    BY <1>4 DEF RejectSession, Inv, ReadsStayTrue
  <2> QED
    BY <1>0, <1>4, <2>1 DEF RejectSession, tableVars, TypeOK
<1>5. ASSUME NEW w \in Workers, CommitUpdate(w) \/ CommitCreate(w)
      PROVE  Goal
  <2>1. worker[w].pc = "applying" /\ CompleteSession(w)
    BY <1>5 DEF CommitUpdate, CommitCreate
  <2>2. Finished(worker[w].sess) /\ HasSubscription(worker[w].sess)
    BY <2>1 DEF Inv, ReadsStayTrue
  <2> QED
    BY <1>0, <2>1, <2>2 DEF CompleteSession, TypeOK
<1>6. ASSUME NEW q \in Sessions, ~CreateSessionRow(q),
             Customer(q) \/ TimePasses(q) \/ Producer(q)
      PROVE  UNCHANGED <<sess, applied>>
  BY <1>6 DEF Customer, CreateStripeSession, CompleteCheckout, TimePasses, Producer,
              WebhookQueued, WebhookLost, ReconcileQueue, ReconcileSkip, tableVars
<1>7. CASE ReconcileStart
  BY <1>1, <1>7 DEF ReconcileStart, tableVars
<1>8. ASSUME NEW j \in Jobs, Bull(j)
      PROVE  UNCHANGED <<sess, applied>>
  BY <1>8 DEF Bull, StallJob, FailStuckActiveJob, CleanActiveJob, tableVars
<1>9. ASSUME NEW w \in Workers, Process(w) \/ Crash(w),
             ~RejectSession(w), ~CommitUpdate(w), ~CommitCreate(w)
      PROVE  UNCHANGED <<sess, applied>>
  BY <1>9 DEF Process, Crash, SkipJob, LoadJob, BeginTx, AttemptFails, tableVars
<1>10. CASE \E r \in Rows, status \in Statuses : StatusSync(r, status)
  BY <1>1, <1>10 DEF StatusSync
<1>11. CASE UNCHANGED vars
  BY <1>1, <1>11 DEF vars
<1> HIDE DEF Goal
<1> QED
  BY <1>1, <1>2, <1>3, <1>4, <1>5, <1>6, <1>7, <1>8, <1>9, <1>10, <1>11 DEF Next

\* A session that Stripe finishes has its row.
LEMMA FinishSteps ==
    ASSUME Inv, [Next]_vars, NEW s \in Sessions, stripe'[s] \in Outcomes
    PROVE  Finished(s) \/ (sess[s] # "NONE" /\ sess'[s] = sess[s])
<1>0. TypeOK
  BY DEF Inv
<1>1. CASE UNCHANGED stripe
  BY <1>1 DEF Finished
<1>2. ASSUME NEW q \in Sessions, CreateStripeSession(q)
      PROVE  Finished(s)
  BY <1>0, <1>2, CheckoutConstants DEF CreateStripeSession, Finished, TypeOK
<1>3. ASSUME NEW q \in Sessions, NEW outcome \in Outcomes, CompleteCheckout(q, outcome)
      PROVE  Finished(s) \/ (sess[s] # "NONE" /\ sess'[s] = sess[s])
  BY <1>0, <1>3 DEF CompleteCheckout, Finished, TypeOK
<1> USE DEF stripeVars
<1>4. ASSUME NEW q \in Sessions, CreateSessionRow(q) \/ TimePasses(q) \/ Producer(q)
      PROVE  UNCHANGED stripe
  BY <1>4 DEF CreateSessionRow, TimePasses, Producer, WebhookQueued, WebhookLost,
              ReconcileQueue, ReconcileSkip
<1>5. CASE ReconcileStart \/ ExpireOldSessions
  BY <1>1, <1>5 DEF ReconcileStart, ExpireOldSessions
<1>6. ASSUME NEW j \in Jobs, Bull(j)
      PROVE  UNCHANGED stripe
  BY <1>6 DEF Bull, StallJob, FailStuckActiveJob, CleanActiveJob
<1>7. ASSUME NEW w \in Workers, Process(w) \/ Crash(w)
      PROVE  UNCHANGED stripe
  BY <1>7 DEF Process, Crash, SkipJob, LoadJob, RejectSession, BeginTx, CommitUpdate,
              CommitCreate, CompleteSession, AttemptFails
<1>8. CASE \E r \in Rows, status \in Statuses : StatusSync(r, status)
  BY <1>1, <1>8 DEF StatusSync
<1>9. CASE UNCHANGED vars
  BY <1>1, <1>9 DEF vars
<1> QED
  BY <1>1, <1>2, <1>3, <1>4, <1>5, <1>6, <1>7, <1>8, <1>9 DEF Next, Customer

\* The status of a session and the Stripe session keep agreeing.
THEOREM StatusStep == Inv /\ [Next]_vars => StatusAgreesWithStripe'
<1> SUFFICES ASSUME Inv, [Next]_vars, NEW s \in Sessions
             PROVE  /\ stripe'[s] \in Outcomes => sess'[s] # "NONE"
                    /\ sess'[s] = "COMPLETED" => stripe'[s] \in {"paid", "not_paid"}
                    /\ sess'[s] = "FAILED" => /\ stripe'[s] \in Outcomes
                                              /\ stripe'[s] \notin {"paid", "not_paid"}
  BY DEF StatusAgreesWithStripe, Finished, HasSubscription
<1>1. /\ Finished(s) => sess[s] # "NONE"
      /\ sess[s] = "COMPLETED" => Finished(s) /\ HasSubscription(s)
      /\ sess[s] = "FAILED" => Finished(s) /\ ~HasSubscription(s)
  BY CheckoutConstants DEF Inv, StatusAgreesWithStripe, TypeOK, HasSubscription, Finished
<1>2. stripe'[s] \in Outcomes => sess'[s] # "NONE"
  BY <1>1, FinishSteps, SessionSteps
<1>3. sess'[s] = "COMPLETED" => Finished(s) /\ HasSubscription(s)
  BY <1>1, SessionSteps
<1>4. sess'[s] = "FAILED" => Finished(s) /\ ~HasSubscription(s)
  BY <1>1, SessionSteps
<1>5. Finished(s) => stripe'[s] = stripe[s]
  BY FinishedStays
<1> QED
  BY <1>2, <1>3, <1>4, <1>5 DEF Finished, HasSubscription

\* Only the expiry cron makes a session EXPIRED, and its age then stands still.
THEOREM ExpiredStep == Inv /\ [Next]_vars => ExpiredAreOld'
<1> SUFFICES ASSUME Inv, [Next]_vars, NEW s \in Sessions, sess'[s] = "EXPIRED"
             PROVE  age'[s] = Old
  BY DEF ExpiredAreOld
<1>0. TypeOK /\ (sess[s] = "EXPIRED" => age[s] = Old)
  BY DEF Inv, ExpiredAreOld
<1>1. CASE ExpireOldSessions
  BY <1>0, <1>1 DEF ExpireOldSessions, stripeVars
<1>2. ASSUME NEW q \in Sessions, TimePasses(q)
      PROVE  age'[s] = Old
  BY <1>0, <1>2 DEF TimePasses, TypeOK
<1> USE DEF stripeVars
<1>3. ASSUME NEW q \in Sessions, Customer(q) \/ Producer(q)
      PROVE  UNCHANGED age /\ (sess'[s] = "EXPIRED" => sess[s] = "EXPIRED")
  BY <1>0, <1>3 DEF Customer, CreateStripeSession, CreateSessionRow, CompleteCheckout,
              Producer, WebhookQueued, WebhookLost, ReconcileQueue, ReconcileSkip, TypeOK
<1>4. ASSUME NEW w \in Workers, Process(w) \/ Crash(w)
      PROVE  UNCHANGED age /\ (sess'[s] = "EXPIRED" => sess[s] = "EXPIRED")
  BY <1>0, <1>4 DEF Process, Crash, SkipJob, LoadJob, RejectSession, BeginTx, CommitUpdate,
              CommitCreate, CompleteSession, AttemptFails, TypeOK
<1>5. ASSUME NEW j \in Jobs, Bull(j)
      PROVE  UNCHANGED <<age, sess>>
  BY <1>5 DEF Bull, StallJob, FailStuckActiveJob, CleanActiveJob
<1>6. CASE ReconcileStart \/ \E r \in Rows, status \in Statuses : StatusSync(r, status)
  BY <1>0, <1>6 DEF ReconcileStart, StatusSync
<1>7. CASE UNCHANGED vars
  BY <1>0, <1>7 DEF vars
<1> QED
  BY <1>0, <1>1, <1>2, <1>3, <1>4, <1>5, <1>6, <1>7 DEF Next

\* COMPLETED and applied change together, and no step takes COMPLETED back.
THEOREM CompletedStep == Inv /\ [Next]_vars => CompletedIffApplied'
<1> SUFFICES ASSUME Inv, [Next]_vars, NEW s \in Sessions
             PROVE  sess'[s] = "COMPLETED" <=> applied'[s] > 0
  BY DEF CompletedIffApplied
<1>1. sess[s] = "COMPLETED" <=> applied[s] > 0
  BY DEF Inv, CompletedIffApplied
<1>2. applied[s] \in Nat
  BY DEF Inv, TypeOK
<1>3. sess[s] = "COMPLETED" => HasSubscription(s)
  BY DEF Inv, StatusAgreesWithStripe
<1> QED
  BY <1>1, <1>2, <1>3, SessionSteps

\* A commit leaves COMPLETED sessions COMPLETED and makes its own COMPLETED.
LEMMA CompletedStays ==
    ASSUME Inv, [Next]_vars, NEW s \in Sessions, sess[s] = "COMPLETED"
    PROVE  /\ sess'[s] = "COMPLETED"
           /\ HasSubscription(s)
           /\ stripe'[s] = stripe[s]
<1>1. HasSubscription(s) /\ Finished(s)
  BY CheckoutConstants DEF Inv, StatusAgreesWithStripe, TypeOK, HasSubscription, Finished
<1> QED
  BY <1>1, SessionSteps, FinishedStays

\* What the two commits and StatusSync make of each row.
LEMMA RowAfter ==
    ASSUME Inv, [Next]_vars, NEW r \in Rows
    PROVE  \/ row'[r] = row[r]
           \/ \E w \in Workers : LET s == worker[w].sess
                                 IN  /\ CommitUpdate(w) \/ CommitCreate(w)
                                     /\ s \in Sessions
                                     /\ row'[r].link = s
                                     /\ row'[r].user = Owner[s]
                                     /\ row'[r].plan = PlanOf[s]
           \/ /\ row[r] # None
              /\ row'[r].link = row[r].link
              /\ row'[r].user = row[r].user
              /\ row'[r].plan = row[r].plan
<1>0. row \in [Rows -> SubscriptionRow \union {None}]
  BY DEF Inv, TypeOK
<1>1. ASSUME NEW w \in Workers, CommitUpdate(w), row'[r] # row[r]
      PROVE  LET s == worker[w].sess
             IN  /\ s \in Sessions
                 /\ row'[r].link = s
                 /\ row'[r].user = Owner[s]
                 /\ row'[r].plan = PlanOf[s]
  <2> DEFINE s == worker[w].sess
             q == worker[w].target
             updated == [row[q] EXCEPT !.plan = PlanOf[s], !.status = "ACTIVE", !.link = s]
  <2>1. s \in Sessions /\ row[q] \in SubscriptionRow /\ row[q].user = Owner[s]
    BY <1>1, CommitFacts DEF CommitUpdate
  <2>2. row' = [row EXCEPT ![q] = updated]
    BY <1>1 DEF CommitUpdate
  <2>3. updated.link = s /\ updated.user = Owner[s] /\ updated.plan = PlanOf[s]
    BY <2>1 DEF SubscriptionRow
  <2> HIDE DEF updated
  <2> QED
    BY <1>0, <1>1, <2>1, <2>2, <2>3
<1>2. ASSUME NEW w \in Workers, CommitCreate(w), row'[r] # row[r]
      PROVE  LET s == worker[w].sess
             IN  /\ s \in Sessions
                 /\ row'[r].link = s
                 /\ row'[r].user = Owner[s]
                 /\ row'[r].plan = PlanOf[s]
  <2>1. worker[w].sess \in Sessions
    BY <1>2, CommitFacts DEF CommitCreate
  <2> QED
    BY <1>0, <1>2, <2>1 DEF CommitCreate
<1>3. ASSUME NEW q \in Rows, NEW status \in Statuses, StatusSync(q, status), row'[r] # row[r]
      PROVE  /\ row[r] # None
             /\ row'[r].link = row[r].link
             /\ row'[r].user = row[r].user
             /\ row'[r].plan = row[r].plan
  <2>1. row[r] # None /\ row'[r] = [row[r] EXCEPT !.status = status]
    BY <1>0, <1>3 DEF StatusSync
  <2>2. row[r] \in SubscriptionRow
    BY <1>0, <2>1
  <2> QED
    BY <2>1, <2>2 DEF SubscriptionRow
<1> QED
  BY <1>1, <1>2, <1>3, RowSteps

\* Linked rows stay the rows of who bought them, with the plan that was bought.
THEOREM LinkedStep == Inv /\ [Next]_vars => LinkedRowsAreBought'
<1> SUFFICES ASSUME Inv, [Next]_vars, NEW r \in Rows, row'[r] # None, row'[r].link # None
             PROVE  LET s == row'[r].link
                    IN  /\ sess'[s] = "COMPLETED"
                        /\ stripe'[s] \in {"paid", "not_paid"}
                        /\ row'[r].user = Owner[s]
                        /\ row'[r].plan = PlanOf[s]
  BY DEF LinkedRowsAreBought, HasSubscription
<1>1. ASSUME row[r] # None, row[r].link # None
      PROVE  LET s == row[r].link
             IN  /\ sess'[s] = "COMPLETED"
                 /\ stripe'[s] \in {"paid", "not_paid"}
                 /\ row[r].user = Owner[s]
                 /\ row[r].plan = PlanOf[s]
  <2> DEFINE s == row[r].link
  <2>1. s \in Sessions
    BY <1>1 DEF Inv, TypeOK, SubscriptionRow
  <2>2. sess[s] = "COMPLETED" /\ row[r].user = Owner[s] /\ row[r].plan = PlanOf[s]
    BY <1>1 DEF Inv, LinkedRowsAreBought
  <2>3. sess'[s] = "COMPLETED" /\ HasSubscription(s) /\ stripe'[s] = stripe[s]
    BY <2>1, <2>2, CompletedStays
  <2> QED
    BY <2>2, <2>3 DEF HasSubscription
<1>2. ASSUME NEW w \in Workers, CommitUpdate(w) \/ CommitCreate(w)
      PROVE  /\ sess'[worker[w].sess] = "COMPLETED"
             /\ stripe'[worker[w].sess] \in {"paid", "not_paid"}
  <2>1. worker[w].sess \in Sessions /\ HasSubscription(worker[w].sess)
    BY <1>2, CommitFacts DEF CommitUpdate, CommitCreate
  <2>2. sess \in [Sessions -> {"NONE", "PENDING", "COMPLETED", "EXPIRED", "FAILED"}]
    BY DEF Inv, TypeOK
  <2> QED
    BY <1>2, <2>1, <2>2
    DEF CommitUpdate, CommitCreate, CompleteSession, HasSubscription, stripeVars
<1> QED
  BY <1>1, <1>2, RowAfter

\* A user whose checkout is COMPLETED keeps a linked row.
THEOREM BuyersStep == Inv /\ [Next]_vars => BuyersKeepASubscription'
<1> SUFFICES ASSUME Inv, [Next]_vars, NEW s \in Sessions, sess'[s] = "COMPLETED"
             PROVE  \E r \in Rows : /\ row'[r] # None
                                    /\ row'[r].link # None
                                    /\ row'[r].user = Owner[s]
  BY DEF BuyersKeepASubscription
<1>1. CASE sess[s] = "COMPLETED"
  <2>1. PICK r \in Rows : row[r] # None /\ row[r].link # None /\ row[r].user = Owner[s]
    BY <1>1 DEF Inv, BuyersKeepASubscription
  <2>2. row'[r] # None /\ row'[r].user = Owner[s]
    BY <2>1, RowsStay
  <2>3. row'[r].link # None
    BY <2>1, RowAfter, CheckoutConstants
  <2> QED
    BY <2>2, <2>3
<1>2. CASE sess[s] # "COMPLETED"
  <2>1. applied'[s] = applied[s] + 1 /\ applied[s] \in Nat
    BY <1>2, SessionSteps DEF Inv, TypeOK
  <2>2. PICK w \in Workers : CommitUpdate(w) \/ CommitCreate(w)
    BY <2>1, RowSteps DEF StatusSync
  <2>3. worker[w].sess = s
    BY <2>1, <2>2 DEF CommitUpdate, CommitCreate, CompleteSession, Inv, TypeOK
  <2>4. CASE CommitUpdate(w)
    <3> DEFINE r == worker[w].target
    <3>1. r \in Rows /\ row[r] \in SubscriptionRow /\ row[r].user = Owner[s]
      BY <2>3, <2>4, CommitFacts DEF CommitUpdate
    <3>2. row'[r].link = s
      BY <2>3, <2>4, <3>1 DEF CommitUpdate, Inv, TypeOK, SubscriptionRow
    <3>3. row'[r] # None /\ row'[r].user = Owner[s]
      BY <3>1, RowsStay, NoneIsNoRow
    <3> QED
      BY <3>1, <3>2, <3>3, CheckoutConstants
  <2>5. CASE CommitCreate(w)
    <3> DEFINE new == [user |-> Owner[s], plan |-> PlanOf[s], status |-> "ACTIVE", link |-> s]
    <3>1. PICK r \in Rows : row' = [row EXCEPT ![r] = new]
      BY <2>3, <2>5 DEF CommitCreate
    <3>2. new \in SubscriptionRow /\ new.link = s /\ new.user = Owner[s]
      BY CheckoutConstants DEF SubscriptionRow
    <3> HIDE DEF new
    <3>3. row'[r] = new
      BY <3>1 DEF Inv, TypeOK
    <3> QED
      BY <3>2, <3>3, NoneIsNoRow, CheckoutConstants
  <2> QED
    BY <2>2, <2>4, <2>5
<1> QED
  BY <1>1, <1>2

-----------------------------------------------------------------------------
(* Theorems                                                                 *)

\* Inv is an invariant of the checkout path.
THEOREM Invariance == Spec => []Inv
<1>1. Inv /\ [Next]_vars => Inv'
  BY TypeStep, JobsStep, ReadsStep, StatusStep, ExpiredStep, LinkedStep,
     CompletedStep, BuyersStep DEF Inv
<1> QED
  BY <1>1, InitInv, PTL DEF Spec

\* Every variable keeps its type: in particular no job counts MaxAttempts attempts.
THEOREM TypeCorrect == Spec => []TypeOK
<1>1. Inv => TypeOK
  BY DEF Inv
<1> QED
  BY <1>1, Invariance, PTL

\* A row carries a Stripe subscription only through a finished, COMPLETED checkout of
\* the row's own user, and has the plan that checkout bought: for any number of
\* overlapping processes, duplicate jobs, retries and crashes.
THEOREM LinksAreBought == Spec => []LinkedRowsAreBought
<1>1. Inv => LinkedRowsAreBought
  BY DEF Inv
<1> QED
  BY <1>1, Invariance, PTL

\* A session is COMPLETED exactly when a transaction for it has committed: expiry,
\* rejection and late jobs never undo that, and nothing else reports it.
THEOREM CompletedMeansApplied == Spec => []CompletedIffApplied
<1>1. Inv => CompletedIffApplied
  BY DEF Inv
<1> QED
  BY <1>1, Invariance, PTL

\* A user with a COMPLETED checkout has a subscription row linked to a checkout.
THEOREM BuyersAreServed == Spec => []BuyersKeepASubscription
<1>1. Inv => BuyersKeepASubscription
  BY DEF Inv
<1> QED
  BY <1>1, Invariance, PTL

-----------------------------------------------------------------------------
(* One process                                                              *)

\* The application runs as one process: its event loop runs one job of the queue at a
\* time, so that nothing comes between the status check and the commit but the crons,
\* the webhooks and the customer.
OneProcess == \A v, w \in Workers : v = w

\* What makes AppliedAtMostOnce and ReplacedPlanIsRecorded inductive: the session a
\* process has read as PENDING was not applied since, and the row it is about to
\* write has the plan it read.
ReadsAreFresh ==
    \A w \in Workers : worker[w].pc # "idle" =>
        /\ applied[worker[w].sess] = 0
        /\ worker[w].pc = "applying" /\ worker[w].target # None =>
              row[worker[w].target].plan = worker[w].snap

SerialInv == ReadsAreFresh /\ AppliedAtMostOnce

\* Every way a process can change: it goes idle, it has loaded a job whose session it
\* reads as PENDING, or it has read the row it will write.
LEMMA WorkerSteps ==
    ASSUME Inv, [Next]_vars, NEW w \in Workers
    PROVE  \/ worker'[w] = worker[w]
           \/ worker'[w].pc = "idle"
           \/ /\ worker'[w].pc = "loaded"
              /\ sess[worker'[w].sess] = "PENDING"
              /\ worker'[w].sess \in Sessions
              /\ UNCHANGED <<row, applied>>
           \/ /\ worker[w].pc = "loaded"
              /\ worker'[w].sess = worker[w].sess
              /\ worker'[w].target # None =>
                    row[worker'[w].target].plan = worker'[w].snap
              /\ UNCHANGED <<row, applied>>
<1> DEFINE Goal ==
       \/ worker'[w] = worker[w]
       \/ worker'[w].pc = "idle"
       \/ /\ worker'[w].pc = "loaded"
          /\ sess[worker'[w].sess] = "PENDING"
          /\ worker'[w].sess \in Sessions
          /\ UNCHANGED <<row, applied>>
       \/ /\ worker[w].pc = "loaded"
          /\ worker'[w].sess = worker[w].sess
          /\ worker'[w].target # None => row[worker'[w].target].plan = worker'[w].snap
          /\ UNCHANGED <<row, applied>>
<1> SUFFICES Goal
  OBVIOUS
<1>0. worker \in [Workers -> WorkerRecord] /\ IdleWorker.pc = "idle"
  BY DEF Inv, TypeOK, IdleWorker
<1> USE DEF stripeVars, queueVars, tableVars
<1>1. ASSUME NEW q \in Sessions, Customer(q) \/ TimePasses(q) \/ Producer(q)
      PROVE  UNCHANGED worker
  BY <1>1 DEF Customer, CreateStripeSession, CreateSessionRow, CompleteCheckout, TimePasses,
              Producer, WebhookQueued, WebhookLost, ReconcileQueue, ReconcileSkip
<1>2. CASE ReconcileStart \/ ExpireOldSessions
  BY <1>2 DEF ReconcileStart, ExpireOldSessions
<1>3. ASSUME NEW j \in Jobs, Bull(j)
      PROVE  UNCHANGED worker
  BY <1>3 DEF Bull, StallJob, FailStuckActiveJob, CleanActiveJob
<1>4. ASSUME NEW v \in Workers, NEW j \in Jobs, SkipJob(v, j) \/ LoadJob(v, j)
      PROVE  Goal
  <2>1. CASE SkipJob(v, j)
    BY <2>1 DEF SkipJob
  <2>2. CASE LoadJob(v, j)
    <3>1. job[j].sess \in Sessions
      BY <2>2 DEF LoadJob, Inv, JobsAreFinished
    <3>2. worker'[w] = worker[w] \/
             (worker'[w].pc = "loaded" /\ worker'[w].sess = job[j].sess)
      BY <1>0, <2>2 DEF LoadJob, IdleWorker
    <3> QED
      BY <2>2, <3>1, <3>2 DEF LoadJob
  <2> QED
    BY <1>4, <2>1, <2>2
<1>5. ASSUME NEW v \in Workers,
             RejectSession(v) \/ CommitUpdate(v) \/ CommitCreate(v)
                \/ AttemptFails(v) \/ Crash(v)
      PROVE  Goal
  <2>1. worker' = [worker EXCEPT ![v] = IdleWorker]
    BY <1>5 DEF RejectSession, CommitUpdate, CommitCreate, CompleteSession, AttemptFails, Crash
  <2> QED
    BY <1>0, <2>1
<1>6. ASSUME NEW v \in Workers, BeginTx(v)
      PROVE  Goal
  <2>1. PICK r \in Candidates(worker[v].sess) :
          worker' = [worker EXCEPT ![v].pc = "applying", ![v].target = r,
                        ![v].snap = IF r = None THEN FreePlan ELSE row[r].plan]
    BY <1>6 DEF BeginTx
  <2>2. CASE v # w
    BY <1>0, <2>1, <2>2
  <2>3. CASE v = w
    <3> DEFINE snap == IF r = None THEN FreePlan ELSE row[r].plan
    <3>1. /\ worker'[w].sess = worker[w].sess
          /\ worker'[w].target = r
          /\ worker'[w].snap = snap
      BY <1>0, <2>1, <2>3 DEF WorkerRecord
    <3> QED
      BY <1>6, <2>3, <3>1 DEF BeginTx
  <2> QED
    BY <2>2, <2>3
<1>7. CASE \E r \in Rows, status \in Statuses : StatusSync(r, status)
  BY <1>7 DEF StatusSync
<1>8. CASE UNCHANGED vars
  BY <1>8 DEF vars
<1> HIDE DEF Goal
<1>9. CASE UNCHANGED worker
  BY <1>9 DEF Goal
<1> QED
  BY <1>1, <1>2, <1>3, <1>4, <1>5, <1>6, <1>7, <1>8, <1>9 DEF Next, Process, vars

LEMMA SerialInit == Init => SerialInv
<1> SUFFICES ASSUME Init PROVE SerialInv
  OBVIOUS
<1> QED
  BY DEF Init, SerialInv, ReadsAreFresh, AppliedAtMostOnce, IdleWorker

\* The step of the one process: what it has read cannot have been applied meanwhile.
THEOREM SerialStep ==
    ASSUME OneProcess
    PROVE  Inv /\ SerialInv /\ [Next]_vars => SerialInv'
<1> SUFFICES ASSUME Inv, SerialInv, [Next]_vars PROVE SerialInv'
  OBVIOUS
<1>0. TypeOK /\ TypeOK'
  BY TypeStep DEF Inv
<1>1. ASSUME NEW w \in Workers, worker'[w].pc # "idle"
      PROVE  /\ applied'[worker'[w].sess] = 0
             /\ worker'[w].pc = "applying" /\ worker'[w].target # None =>
                   row'[worker'[w].target].plan = worker'[w].snap
  <2>1. CASE worker'[w] = worker[w]
    <3>1. /\ worker[w].sess \in Sessions
          /\ applied[worker[w].sess] = 0
      BY <1>1, <2>1 DEF Inv, ReadsStayTrue, SerialInv, ReadsAreFresh
    <3>2. ~\E v \in Workers : CommitUpdate(v) \/ CommitCreate(v)
      <4> SUFFICES ASSUME NEW v \in Workers, CommitUpdate(v) \/ CommitCreate(v)
                   PROVE  FALSE
        OBVIOUS
      <4>1. worker' = [worker EXCEPT ![v] = IdleWorker]
        BY DEF CommitUpdate, CommitCreate, CompleteSession
      <4>2. v = w
        BY DEF OneProcess
      <4>3. worker'[w] = IdleWorker
        BY <1>0, <4>1, <4>2 DEF TypeOK
      <4> QED
        BY <1>1, <4>3 DEF IdleWorker
    <3>3. applied' = applied
      BY <3>2, RowSteps DEF StatusSync
    <3>4. ASSUME worker[w].pc = "applying", worker[w].target # None
          PROVE  row'[worker[w].target].plan = worker[w].snap
      <4>1. worker[w].target \in Rows /\ row[worker[w].target].plan = worker[w].snap
        BY <3>4, CommitFacts DEF SerialInv, ReadsAreFresh
      <4> QED
        BY <3>2, <4>1, RowAfter
    <3> QED
      BY <2>1, <3>1, <3>3, <3>4
  <2>2. CASE /\ worker'[w].pc = "loaded"
             /\ sess[worker'[w].sess] = "PENDING"
             /\ worker'[w].sess \in Sessions
             /\ UNCHANGED <<row, applied>>
    BY <1>0, <2>2 DEF Inv, CompletedIffApplied, TypeOK
  <2>3. CASE /\ worker[w].pc = "loaded"
             /\ worker'[w].sess = worker[w].sess
             /\ worker'[w].target # None => row[worker'[w].target].plan = worker'[w].snap
             /\ UNCHANGED <<row, applied>>
    BY <2>3 DEF SerialInv, ReadsAreFresh
  <2> QED
    BY <1>1, <2>1, <2>2, <2>3, WorkerSteps
<1>2. ASSUME NEW s \in Sessions
      PROVE  applied'[s] <= 1
  <2>1. CASE applied'[s] = applied[s]
    BY <2>1 DEF SerialInv, AppliedAtMostOnce
  <2>2. CASE applied'[s] # applied[s]
    <3>1. applied'[s] = applied[s] + 1
      BY <2>2, SessionSteps
    <3>2. PICK w \in Workers : CommitUpdate(w) \/ CommitCreate(w)
      BY <2>2, RowSteps DEF StatusSync
    <3>3. worker[w].sess = s /\ worker[w].pc # "idle"
      BY <1>0, <2>2, <3>2 DEF CommitUpdate, CommitCreate, CompleteSession, TypeOK
    <3>4. applied[s] = 0
      BY <3>3 DEF SerialInv, ReadsAreFresh
    <3> QED
      BY <3>1, <3>4
  <2> QED
    BY <2>1, <2>2
<1> QED
  BY <1>1, <1>2 DEF SerialInv, ReadsAreFresh, AppliedAtMostOnce

LEMMA SerialInvariance ==
    ASSUME OneProcess
    PROVE  Spec => []SerialInv
<1>1. Inv /\ SerialInv /\ [Next]_vars => SerialInv'
  BY SerialStep
<1> QED
  BY <1>1, SerialInit, Invariance, PTL DEF Spec

\* While one process runs, the comment on StripeCheckoutProcessor is true: a session is
\* applied at most once, whatever duplicate jobs, retries, stalls and crashes there are.
THEOREM AppliedOnceByOneProcess ==
    ASSUME OneProcess
    PROVE  Spec => []AppliedAtMostOnce
<1>1. SerialInv => AppliedAtMostOnce
  BY DEF SerialInv
<1> QED
  BY <1>1, SerialInvariance, PTL

\* ... and the plan a checkout replaces is in the row's history.
THEOREM HistoryByOneProcess ==
    ASSUME OneProcess
    PROVE  Spec => ReplacedPlanIsRecorded
<1>1. ASSUME Inv, SerialInv, [Next]_vars, NEW r \in Rows, row[r] # None,
             row'[r].link # row[r].link
      PROVE  hist'[r] = Append(hist[r], row[r].plan)
  <2>0. TypeOK
    BY <1>1 DEF Inv
  <2>1. PICK w \in Workers : CommitUpdate(w) \/ CommitCreate(w)
    BY <1>1, RowAfter
  <2>2. CASE CommitUpdate(w)
    <3>1. r = worker[w].target
      BY <1>1, <2>0, <2>2 DEF CommitUpdate, TypeOK
    <3>2. worker[w].snap = row[r].plan
      BY <1>1, <2>2, <3>1 DEF CommitUpdate, SerialInv, ReadsAreFresh
    <3> QED
      BY <2>0, <2>2, <3>1, <3>2 DEF CommitUpdate, TypeOK
  <2>3. CASE CommitCreate(w)
    BY <1>1, <2>0, <2>3 DEF CommitCreate, TypeOK
  <2> QED
    BY <2>1, <2>2, <2>3
<1>2. Inv /\ SerialInv /\ [Next]_vars =>
         [\A r \in Rows : row[r] # None /\ row'[r].link # row[r].link =>
             hist'[r] = Append(hist[r], row[r].plan)]_vars
  BY <1>1
<1> QED
  BY <1>2, SerialInvariance, Invariance, PTL DEF Spec, ReplacedPlanIsRecorded

-----------------------------------------------------------------------------
(* Refinement of CheckoutLedger                                             *)

\* The ledger's outcome of a session, case by case.
LEMMA OutcomeOf ==
    ASSUME NEW s \in Sessions
    PROVE  /\ HasSubscription(s) => LedgerOutcome[s] = "sold"
           /\ Finished(s) /\ ~HasSubscription(s) => LedgerOutcome[s] = "unsold"
           /\ ~Finished(s) /\ ~HasSubscription(s) => LedgerOutcome[s] = "none"
  BY DEF LedgerOutcome

LEMMA OutcomeStays == UNCHANGED stripe => UNCHANGED LedgerOutcome
  BY DEF LedgerOutcome, Finished, HasSubscription

LEMMA GrantStays == UNCHANGED row => UNCHANGED LedgerGrant
  BY DEF LedgerGrant

\* The ledger starts from the free rows of registration.
THEOREM LedgerInit == Init => Ledger!Init
<1> SUFFICES ASSUME Init PROVE Ledger!Init
  OBVIOUS
<1>1. LedgerOutcome = [s \in Sessions |-> "none"]
  BY CheckoutConstants DEF Init, LedgerOutcome, Finished, HasSubscription
<1>2. LedgerGrant \in [Rows -> [user : Users, plan : {FreePlan}, link : {None}] \union {None}]
  BY DEF Init, InitialRows, FreeRow, LedgerGrant
<1> QED
  BY <1>1, <1>2 DEF Init, Ledger!Init

\* A commit is the ledger's Grant into row r.
LEMMA CommitGrants ==
    ASSUME Inv, [Next]_vars, NEW w \in Workers, worker[w].pc = "applying",
           CompleteSession(w), NEW r \in Rows,
           UniqueLink(worker[w].sess, r),
           row[r] # None => row[r].user = Owner[worker[w].sess],
           row'[r] # None,
           row'[r].user = Owner[worker[w].sess],
           row'[r].plan = PlanOf[worker[w].sess],
           row'[r].link = worker[w].sess,
           \A q \in Rows \ {r} : row'[q] = row[q]
    PROVE  Ledger!Grant(worker[w].sess, r)
<1> DEFINE s == worker[w].sess
<1>1. s \in Sessions /\ HasSubscription(s)
  BY CommitFacts
<1>2. LedgerOutcome[s] = "sold"
  BY <1>1, OutcomeOf
<1>3. sess[s] \in {"PENDING", "EXPIRED", "COMPLETED"}
  BY <1>1 DEF Inv, TypeOK, StatusAgreesWithStripe, ReadsStayTrue
<1>4. LedgerGrant[r] # None => LedgerGrant[r].user = Owner[s]
  BY DEF LedgerGrant
<1>5. \A q \in Rows \ {r} : LedgerGrant[q] # None => LedgerGrant[q].link # s
  BY DEF LedgerGrant, UniqueLink, LinkedRows
<1>6. LedgerGrant' = [LedgerGrant EXCEPT ![r] =
                        [user |-> Owner[s], plan |-> PlanOf[s], link |-> s]]
  BY DEF LedgerGrant
<1>7. sess' = [sess EXCEPT ![s] = "COMPLETED"] /\ UNCHANGED LedgerOutcome
  BY OutcomeStays DEF CompleteSession, stripeVars
<1> QED
  BY <1>2, <1>3, <1>4, <1>5, <1>6, <1>7 DEF Ledger!Grant

\* Every step is a step of the ledger or leaves the ledger as it is.
THEOREM LedgerStep == Inv /\ [Next]_vars => [Ledger!Next]_Ledger!vars
<1> SUFFICES ASSUME Inv, [Next]_vars PROVE Ledger!Next \/ UNCHANGED Ledger!vars
  OBVIOUS
<1>0. TypeOK
  BY DEF Inv
<1>1. CASE UNCHANGED <<stripe, sess, row>>
  BY <1>1, OutcomeStays, GrantStays DEF Ledger!vars
<1>2. ASSUME NEW s \in Sessions, CreateStripeSession(s)
      PROVE  UNCHANGED Ledger!vars
  <2>1. \A q \in Sessions : /\ HasSubscription(q)' <=> HasSubscription(q)
                            /\ Finished(q)' <=> Finished(q)
    BY <1>0, <1>2, CheckoutConstants
    DEF CreateStripeSession, HasSubscription, Finished, TypeOK
  <2>2. UNCHANGED LedgerOutcome
    BY <2>1 DEF LedgerOutcome
  <2> QED
    BY <1>2, <2>2, GrantStays DEF CreateStripeSession, tableVars, Ledger!vars
<1>3. ASSUME NEW s \in Sessions, CreateSessionRow(s)
      PROVE  Ledger!Open(s)
  BY <1>3, OutcomeStays, GrantStays
  DEF CreateSessionRow, stripeVars, tableVars, Ledger!Open
<1>4. ASSUME NEW s \in Sessions, NEW outcome \in Outcomes, CompleteCheckout(s, outcome)
      PROVE  Ledger!Finish(s)
  <2>1. stripe[s] = "open" /\ ~Finished(s) /\ ~HasSubscription(s)
    BY <1>4, CheckoutConstants DEF CompleteCheckout, Finished, HasSubscription
  <2>2. sess[s] = "PENDING"
    BY <1>0, <1>4, <2>1
    DEF CompleteCheckout, Inv, StatusAgreesWithStripe, ExpiredAreOld, TypeOK
  <2>3. LedgerOutcome[s] = "none"
    BY <2>1, OutcomeOf
  <2> DEFINE o == IF outcome \in {"paid", "not_paid"} THEN "sold" ELSE "unsold"
  <2>4. LedgerOutcome' = [LedgerOutcome EXCEPT ![s] = o]
    BY <1>0, <1>4 DEF CompleteCheckout, LedgerOutcome, Finished, HasSubscription, TypeOK
  <2>5. UNCHANGED LedgerGrant /\ UNCHANGED sess
    BY <1>4, GrantStays DEF CompleteCheckout, tableVars
  <2> QED
    BY <2>2, <2>3, <2>4, <2>5 DEF Ledger!Finish
<1>5. ASSUME ExpireOldSessions
      PROVE  Ledger!Expire({s \in Sessions : sess[s] = "PENDING" /\ age[s] = Old})
  BY <1>5, OutcomeStays, GrantStays
  DEF ExpireOldSessions, stripeVars, tableVars, Ledger!Expire
<1>6. ASSUME NEW w \in Workers, RejectSession(w)
      PROVE  worker[w].sess \in Sessions /\ Ledger!Reject(worker[w].sess)
  <2> DEFINE s == worker[w].sess
  <2>1. s \in Sessions /\ Finished(s) /\ ~HasSubscription(s)
    BY <1>6 DEF RejectSession, Inv, ReadsStayTrue
  <2>2. LedgerOutcome[s] = "unsold"
    BY <2>1, OutcomeOf
  <2>3. sess[s] \in {"PENDING", "EXPIRED", "FAILED"}
    BY <1>0, <2>1 DEF Inv, StatusAgreesWithStripe, TypeOK
  <2> QED
    BY <1>6, <2>1, <2>2, <2>3, OutcomeStays, GrantStays
    DEF RejectSession, stripeVars, tableVars, Ledger!Reject
<1>7. ASSUME NEW w \in Workers, CommitUpdate(w)
      PROVE  \E s \in Sessions, r \in Rows : Ledger!Grant(s, r)
  <2> DEFINE s == worker[w].sess
             r == worker[w].target
             updated == [row[r] EXCEPT !.plan = PlanOf[s], !.status = "ACTIVE", !.link = s]
  <2>1. /\ s \in Sessions
        /\ r \in Rows
        /\ row[r] \in SubscriptionRow
        /\ row[r].user = Owner[s]
    BY <1>7, CommitFacts DEF CommitUpdate
  <2>2. row' = [row EXCEPT ![r] = updated]
    BY <1>7 DEF CommitUpdate
  <2>3. /\ updated \in SubscriptionRow
        /\ updated.user = Owner[s] /\ updated.plan = PlanOf[s] /\ updated.link = s
    BY <2>1, CheckoutConstants DEF SubscriptionRow
  <2> HIDE DEF updated
  <2>4. row'[r] = updated /\ \A q \in Rows \ {r} : row'[q] = row[q]
    BY <1>0, <2>1, <2>2 DEF TypeOK
  <2>5. Ledger!Grant(s, r)
    BY <1>7, <2>1, <2>3, <2>4, CommitGrants, NoneIsNoRow DEF CommitUpdate
  <2> QED
    BY <2>1, <2>5
<1>8. ASSUME NEW w \in Workers, CommitCreate(w)
      PROVE  \E s \in Sessions, r \in Rows : Ledger!Grant(s, r)
  <2> DEFINE s == worker[w].sess
             new == [user |-> Owner[s], plan |-> PlanOf[s], status |-> "ACTIVE", link |-> s]
  <2>1. s \in Sessions
    BY <1>8, CommitFacts DEF CommitCreate
  <2>2. PICK r \in Rows : row[r] = None /\ row' = [row EXCEPT ![r] = new]
    BY <1>8 DEF CommitCreate
  <2>3. /\ new \in SubscriptionRow
        /\ new.user = Owner[s] /\ new.plan = PlanOf[s] /\ new.link = s
    BY <2>1, CheckoutConstants DEF SubscriptionRow
  <2> HIDE DEF new
  <2>4. row'[r] = new /\ \A q \in Rows \ {r} : row'[q] = row[q]
    BY <1>0, <2>2 DEF TypeOK
  <2>5. UniqueLink(s, r)
    BY <1>8 DEF CommitCreate, UniqueLink
  <2>6. Ledger!Grant(s, r)
    BY <1>8, <2>2, <2>3, <2>4, <2>5, CommitGrants, NoneIsNoRow DEF CommitCreate
  <2> QED
    BY <2>1, <2>6
<1>9. ASSUME NEW r \in Rows, NEW status \in Statuses, StatusSync(r, status)
      PROVE  UNCHANGED Ledger!vars
  <2>1. UNCHANGED <<stripe, sess>>
    BY <1>9 DEF StatusSync, stripeVars
  <2>2. row[r] \in SubscriptionRow /\ row' = [row EXCEPT ![r] = [row[r] EXCEPT !.status = status]]
    BY <1>0, <1>9 DEF StatusSync, TypeOK
  <2>3. [row[r] EXCEPT !.status = status] \in SubscriptionRow
    BY <2>2 DEF SubscriptionRow
  <2>4. \A q \in Rows : /\ row'[q] = None <=> row[q] = None
                        /\ row[q] # None => /\ row'[q].user = row[q].user
                                            /\ row'[q].plan = row[q].plan
                                            /\ row'[q].link = row[q].link
    BY <1>0, <2>2, <2>3, NoneIsNoRow DEF TypeOK, SubscriptionRow
  <2>5. UNCHANGED LedgerGrant
    BY <2>4 DEF LedgerGrant
  <2> QED
    BY <2>1, <2>5, OutcomeStays DEF Ledger!vars
<1> USE DEF stripeVars, queueVars, tableVars
<1>10. ASSUME NEW s \in Sessions, TimePasses(s) \/ Producer(s)
       PROVE  UNCHANGED <<stripe, sess, row>>
  BY <1>10 DEF TimePasses, Producer, WebhookQueued, WebhookLost, ReconcileQueue, ReconcileSkip
<1>11. ASSUME NEW j \in Jobs, Bull(j)
       PROVE  UNCHANGED <<stripe, sess, row>>
  BY <1>11 DEF Bull, StallJob, FailStuckActiveJob, CleanActiveJob
<1>12. ASSUME NEW w \in Workers, Process(w) \/ Crash(w),
              ~RejectSession(w), ~CommitUpdate(w), ~CommitCreate(w)
       PROVE  UNCHANGED <<stripe, sess, row>>
  BY <1>12 DEF Process, Crash, SkipJob, LoadJob, BeginTx, AttemptFails
<1>13. CASE ReconcileStart \/ UNCHANGED vars
  BY <1>1, <1>13 DEF ReconcileStart, vars
<1>14. \A S : S = {s \in Sessions : sess[s] = "PENDING" /\ age[s] = Old} => S \in SUBSET Sessions
  OBVIOUS
<1> QED
  BY <1>1, <1>2, <1>3, <1>4, <1>5, <1>6, <1>7, <1>8, <1>9, <1>10, <1>11, <1>12, <1>13, <1>14
  DEF Next, Customer, Ledger!Next

\* The checkout path keeps the ledger's promise: one step grants at most one finished
\* session, to its own user and into one row only; no cron, retry, crash or second
\* process does anything else to sessions or rows.
THEOREM LedgerRefinement == Spec => ImplementsLedger
<1> QED
  BY LedgerInit, LedgerStep, Invariance, PTL DEF Spec, ImplementsLedger, Ledger!Spec


=============================================================================
