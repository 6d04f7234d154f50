--------------------------- MODULE Messages_proofs ---------------------------
(***************************************************************************)
(* Proofs about MessageQueue, DeliveryEvents and QueueCleanup, for any     *)
(* jobs, processes, attempts, stalls, payloads, deliveries and calls:      *)
(* their types, that a message refused for good is not handed to the       *)
(* provider again unless its processing was disturbed, that success is     *)
(* answered only for what is stored, and that one clean-up runs at a time. *)
(***************************************************************************)
EXTENDS MCMessages, Sequences, FiniteSetTheorems, TLAPS

-----------------------------------------------------------------------------
(* The queue                                                                *)

\* Unless a job was disturbed, the process that has it holds its lock.
WorkersHoldTheirJobs ==
    \A w \in Workers : worker[w].pc # "idle" =>
        LET j == worker[w].job
        IN  j \in disturbed \/ (job[j].state = "active" /\ job[j].lock = w)

\* Unless its job was disturbed, a message that was refused is with the process that
\* knows so, or done with.
RefusedJobsEnd ==
    \A j \in refused \ disturbed :
        \/ job[j].state = "done"
        \/ /\ job[j].state = "active"
           /\ job[j].lock \in Workers
           /\ worker[job[j].lock] = [pc |-> "refused", job |-> j]

Inv ==
    /\ TypeOK
    /\ WorkersHoldTheirJobs
    /\ RefusedJobsEnd
    /\ RefusalsAreFinal

LEMMA OutcomesAreJobs ==
    ASSUME TypeOK, NEW j \in Jobs
    PROVE  /\ Done(j) \in JobRecord
           /\ Done(j).state = "done"
           /\ AfterAttempt(j) \in JobRecord
<1>1. job[j] \in JobRecord
  BY DEF TypeOK
<1>2. Done(j) \in JobRecord /\ Done(j).state = "done"
  BY <1>1 DEF Done, JobRecord
<1>3. CASE job[j].attempts + 1 < MaxAttempts
  <2>1. job[j].attempts + 1 \in 0..MaxAttempts-1
    BY <1>1, <1>3, QueueConstants DEF JobRecord
  <2> QED
    BY <1>1, <1>2, <1>3, <2>1 DEF AfterAttempt, JobRecord
<1>4. CASE ~(job[j].attempts + 1 < MaxAttempts)
  BY <1>2, <1>4 DEF AfterAttempt
<1> QED
  BY <1>2, <1>3, <1>4

\* A step that disturbs a job may do to it what it likes.
LEMMA DisturbedStep ==
    ASSUME Inv, NEW j \in Jobs, NEW rec \in JobRecord,
           job' = [job EXCEPT ![j] = rec],
           disturbed' = disturbed \union {j},
           UNCHANGED <<worker, refused, called>>
    PROVE  Inv'
<1>1. TypeOK'
  BY DEF Inv, TypeOK
<1>2. \A k \in Jobs \ {j} : job'[k] = job[k]
  BY DEF Inv, TypeOK
<1>3. WorkersHoldTheirJobs'
  BY <1>2 DEF Inv, TypeOK, WorkersHoldTheirJobs
<1>4. RefusedJobsEnd'
  BY <1>2 DEF Inv, TypeOK, RefusedJobsEnd
<1> QED
  BY <1>1, <1>3, <1>4 DEF Inv, RefusalsAreFinal

\* A process that is not yet told of a refusal goes on.
LEMMA WorkerStep ==
    ASSUME Inv, NEW w \in Workers,
           NEW pc \in {"hung", "sent", "refused", "error"},
           worker[w].pc \in {"calling", "hung"},
           worker' = [worker EXCEPT ![w].pc = pc],
           UNCHANGED <<job, called, disturbed>>,
           refused' = IF pc = "refused" THEN refused \union {worker[w].job} ELSE refused
    PROVE  Inv'
<1>1. worker[w] \in WorkerRecord /\ worker[w].job \in Jobs
  BY DEF Inv, TypeOK
<1>2. /\ worker'[w] = [pc |-> pc, job |-> worker[w].job]
      /\ \A v \in Workers \ {w} : worker'[v] = worker[v]
      /\ worker' \in [Workers -> WorkerRecord]
  BY <1>1 DEF Inv, TypeOK, WorkerRecord
<1>3. TypeOK'
  BY <1>1, <1>2 DEF Inv, TypeOK
<1>4. WorkersHoldTheirJobs'
  <2>1. \A v \in Workers : /\ worker'[v].job = worker[v].job
                            /\ worker'[v].pc # "idle" => worker[v].pc # "idle"
    BY <1>2
  <2>2. \A v \in Workers : worker[v].pc # "idle" =>
            \/ worker[v].job \in disturbed
            \/ job[worker[v].job].state = "active" /\ job[worker[v].job].lock = v
    BY DEF Inv, WorkersHoldTheirJobs
  <2> QED
    BY <2>1, <2>2 DEF WorkersHoldTheirJobs
<1>5. RefusedJobsEnd'
  <2> SUFFICES ASSUME NEW j \in refused' \ disturbed
               PROVE  \/ job[j].state = "done"
                      \/ /\ job[j].state = "active"
                         /\ job[j].lock \in Workers
                         /\ worker'[job[j].lock] = [pc |-> "refused", job |-> j]
    BY DEF RefusedJobsEnd
  <2>1. CASE j \in refused
    <3>1. CASE job[j].state = "done"
      BY <3>1
    <3>2. CASE job[j].state # "done"
      <4>1. /\ job[j].state = "active"
            /\ job[j].lock \in Workers
            /\ worker[job[j].lock] = [pc |-> "refused", job |-> j]
        BY <2>1, <3>2 DEF Inv, RefusedJobsEnd
      <4>2. job[j].lock # w
        BY <4>1
      <4> QED
        BY <1>2, <4>1, <4>2
    <3> QED
      BY <3>1, <3>2
  <2>2. CASE j \notin refused
    <3>1. pc = "refused" /\ j = worker[w].job
      BY <2>2
    <3>2. job[j].state = "active" /\ job[j].lock = w
      BY <3>1 DEF Inv, WorkersHoldTheirJobs
    <3> QED
      BY <1>2, <3>1, <3>2
  <2> QED
    BY <2>1, <2>2
<1> QED
  BY <1>3, <1>4, <1>5 DEF Inv, RefusalsAreFinal

\* A process reports what came of its job: a refusal is reported as done.
LEMMA ReportStep ==
    ASSUME Inv, NEW w \in Workers, NEW rec \in JobRecord,
           worker[w].pc # "idle",
           Report(w, rec),
           worker[w].pc = "refused" => rec.state = "done",
           UNCHANGED history
    PROVE  Inv'
<1> DEFINE j == worker[w].job
<1>1. j \in Jobs
  BY DEF Inv, TypeOK
<1>2. /\ worker'[w] = IdleWorker
      /\ \A v \in Workers \ {w} : worker'[v] = worker[v]
      /\ worker' \in [Workers -> WorkerRecord]
  BY DEF Report, Inv, TypeOK, WorkerRecord, IdleWorker
<1>3. UNCHANGED <<refused, called, disturbed>>
  BY DEF history
<1>4. CASE job[j].state = "active" /\ job[j].lock = w
  <2>1. /\ job' \in [Jobs -> JobRecord]
        /\ job'[j] = rec
        /\ \A k \in Jobs \ {j} : job'[k] = job[k]
    BY <1>1, <1>4 DEF Report, Inv, TypeOK
  <2>2. TypeOK'
    BY <1>2, <1>3, <2>1 DEF Inv, TypeOK, IdleWorker
  <2>3. WorkersHoldTheirJobs'
    <3> SUFFICES ASSUME NEW v \in Workers, worker'[v].pc # "idle"
                 PROVE  \/ worker'[v].job \in disturbed
                        \/ /\ job'[worker'[v].job].state = "active"
                           /\ job'[worker'[v].job].lock = v
      BY <1>3 DEF WorkersHoldTheirJobs
    <3>1. v # w /\ worker'[v] = worker[v]
      BY <1>2 DEF IdleWorker
    <3>2. \/ worker[v].job \in disturbed
          \/ job[worker[v].job].state = "active" /\ job[worker[v].job].lock = v
      BY <3>1 DEF Inv, WorkersHoldTheirJobs
    <3>3. worker[v].job \in Jobs
      BY <3>1 DEF Inv, TypeOK
    <3> QED
      BY <1>4, <2>1, <3>1, <3>2, <3>3
  <2>4. RefusedJobsEnd'
    <3> SUFFICES ASSUME NEW k \in refused \ disturbed
                 PROVE  \/ job'[k].state = "done"
                        \/ /\ job'[k].state = "active"
                           /\ job'[k].lock \in Workers
                           /\ worker'[job'[k].lock] = [pc |-> "refused", job |-> k]
      BY <1>3 DEF RefusedJobsEnd
    <3>1. k \in Jobs
      BY DEF Inv, TypeOK
    <3>2. \/ job[k].state = "done"
          \/ /\ job[k].state = "active"
             /\ job[k].lock \in Workers
             /\ worker[job[k].lock] = [pc |-> "refused", job |-> k]
      BY DEF Inv, RefusedJobsEnd
    <3>3. CASE k = j
      BY <1>4, <2>1, <3>2, <3>3
    <3>4. CASE k # j
      BY <1>2, <2>1, <3>1, <3>2, <3>4
    <3> QED
      BY <3>3, <3>4
  <2> QED
    BY <1>3, <2>2, <2>3, <2>4 DEF Inv, RefusalsAreFinal
<1>5. CASE ~(job[j].state = "active" /\ job[j].lock = w)
  <2>1. UNCHANGED job
    BY <1>5 DEF Report
  <2>2. j \in disturbed
    BY <1>5 DEF Inv, WorkersHoldTheirJobs
  <2>3. TypeOK'
    BY <1>2, <1>3, <2>1 DEF Inv, TypeOK, IdleWorker
  <2>4. WorkersHoldTheirJobs'
    BY <1>2, <1>3, <2>1 DEF Inv, WorkersHoldTheirJobs, IdleWorker
  <2>5. RefusedJobsEnd'
    <3> SUFFICES ASSUME NEW k \in refused \ disturbed
                 PROVE  \/ job[k].state = "done"
                        \/ /\ job[k].state = "active"
                           /\ job[k].lock \in Workers
                           /\ worker'[job[k].lock] = [pc |-> "refused", job |-> k]
      BY <1>3, <2>1 DEF RefusedJobsEnd
    <3>1. \/ job[k].state = "done"
          \/ /\ job[k].state = "active"
             /\ job[k].lock \in Workers
             /\ worker[job[k].lock] = [pc |-> "refused", job |-> k]
      BY DEF Inv, RefusedJobsEnd
    <3>2. worker[w] # [pc |-> "refused", job |-> k]
      BY <2>2
    <3> QED
      BY <1>2, <3>1, <3>2
  <2> QED
    BY <1>3, <2>3, <2>4, <2>5 DEF Inv, RefusalsAreFinal
<1> QED
  BY <1>4, <1>5

\* A job that waits was not refused, unless it was disturbed.
LEMMA TakeStep ==
    ASSUME Inv, NEW w \in Workers, NEW j \in Jobs, Take(w, j)
    PROVE  Inv'
<1> DEFINE rec == [job[j] EXCEPT !.state = "active", !.lock = w]
<1>1. rec \in JobRecord /\ rec.state = "active" /\ rec.lock = w
  BY DEF Inv, TypeOK, JobRecord
<1>2. job' = [job EXCEPT ![j] = rec]
  BY DEF Take, Inv, TypeOK
<1> HIDE DEF rec
<1>3. /\ job' \in [Jobs -> JobRecord]
      /\ job'[j] = rec
      /\ \A k \in Jobs \ {j} : job'[k] = job[k]
  BY <1>1, <1>2 DEF Inv, TypeOK
<1>4. /\ worker' \in [Workers -> WorkerRecord]
      /\ worker'[w] = [pc |-> "calling", job |-> j]
      /\ \A v \in Workers \ {w} : worker'[v] = worker[v]
  BY DEF Take, Inv, TypeOK, WorkerRecord
<1>5. j \notin refused \ disturbed
  BY DEF Take, Inv, RefusedJobsEnd
<1>6. UNCHANGED <<refused, disturbed>> /\ called' = called \union ({j} \intersect refused)
  BY DEF Take
<1>7. TypeOK'
  BY <1>3, <1>4, <1>6 DEF Inv, TypeOK
<1>8. WorkersHoldTheirJobs'
  <2> SUFFICES ASSUME NEW v \in Workers, worker'[v].pc # "idle"
               PROVE  \/ worker'[v].job \in disturbed
                      \/ /\ job'[worker'[v].job].state = "active"
                         /\ job'[worker'[v].job].lock = v
    BY <1>6 DEF WorkersHoldTheirJobs
  <2>1. CASE v = w
    BY <1>1, <1>3, <1>4, <2>1
  <2>2. CASE v # w
    <3>1. /\ worker'[v] = worker[v]
          /\ worker[v].job \in Jobs
          /\ \/ worker[v].job \in disturbed
             \/ job[worker[v].job].state = "active" /\ job[worker[v].job].lock = v
      BY <1>4, <2>2 DEF Inv, TypeOK, WorkersHoldTheirJobs
    <3>2. job[j].state = "waiting"
      BY DEF Take
    <3> QED
      BY <1>3, <3>1, <3>2
  <2> QED
    BY <2>1, <2>2
<1>9. RefusedJobsEnd'
  <2> SUFFICES ASSUME NEW k \in refused \ disturbed
               PROVE  \/ job'[k].state = "done"
                      \/ /\ job'[k].state = "active"
                         /\ job'[k].lock \in Workers
                         /\ worker'[job'[k].lock] = [pc |-> "refused", job |-> k]
    BY <1>6 DEF RefusedJobsEnd
  <2>1. k \in Jobs /\ k # j /\ job'[k] = job[k]
    BY <1>3, <1>5 DEF Inv, TypeOK
  <2>2. \/ job[k].state = "done"
        \/ /\ job[k].state = "active"
           /\ job[k].lock \in Workers
           /\ worker[job[k].lock] = [pc |-> "refused", job |-> k]
    BY DEF Inv, RefusedJobsEnd
  <2>3. worker[w].pc = "idle"
    BY DEF Take
  <2> QED
    BY <1>4, <2>1, <2>2, <2>3
<1>10. RefusalsAreFinal'
  BY <1>5, <1>6 DEF Inv, RefusalsAreFinal
<1> QED
  BY <1>7, <1>8, <1>9, <1>10 DEF Inv

LEMMA QueueStep ==
    ASSUME Inv, NEW j \in Jobs, QueueMessage(j)
    PROVE  Inv'
<1> DEFINE rec == [job[j] EXCEPT !.state = "waiting"]
<1>1. rec \in JobRecord
  BY DEF Inv, TypeOK, JobRecord
<1>2. /\ job' = [job EXCEPT ![j] = rec]
      /\ UNCHANGED <<worker, refused, called, disturbed>>
  BY DEF QueueMessage, history, Inv, TypeOK
<1> HIDE DEF rec
<1>3. job' \in [Jobs -> JobRecord] /\ \A k \in Jobs \ {j} : job'[k] = job[k]
  BY <1>1, <1>2 DEF Inv, TypeOK
<1>4. TypeOK'
  BY <1>2, <1>3 DEF Inv, TypeOK
<1>5. WorkersHoldTheirJobs'
  <2>1. \A w \in Workers : worker[w].pc # "idle" =>
            /\ worker[w].job \in Jobs
            /\ worker[w].job = j => worker[w].job \in disturbed
    BY DEF QueueMessage, Inv, TypeOK, WorkersHoldTheirJobs
  <2> QED
    BY <1>2, <1>3, <2>1 DEF Inv, WorkersHoldTheirJobs
<1>6. RefusedJobsEnd'
  <2>1. j \notin refused \ disturbed
    BY DEF QueueMessage, Inv, RefusedJobsEnd
  <2> QED
    BY <1>2, <1>3, <2>1 DEF Inv, TypeOK, RefusedJobsEnd
<1> QED
  BY <1>2, <1>4, <1>5, <1>6 DEF Inv, RefusalsAreFinal

LEMMA CrashStep ==
    ASSUME Inv, NEW w \in Workers, Crash(w)
    PROVE  Inv'
<1>1. worker[w].job \in Jobs
  BY DEF Crash, Inv, TypeOK
<1>2. /\ worker'[w] = IdleWorker
      /\ \A v \in Workers \ {w} : worker'[v] = worker[v]
      /\ worker' \in [Workers -> WorkerRecord]
  BY DEF Crash, Inv, TypeOK, WorkerRecord, IdleWorker
<1>3. disturbed' = disturbed \union {worker[w].job} /\ UNCHANGED <<job, refused, called>>
  BY DEF Crash
<1>4. TypeOK'
  BY <1>1, <1>2, <1>3 DEF Inv, TypeOK, IdleWorker
<1>5. WorkersHoldTheirJobs'
  BY <1>2, <1>3 DEF Inv, WorkersHoldTheirJobs, IdleWorker
<1>6. RefusedJobsEnd'
  <2> SUFFICES ASSUME NEW k \in refused \ disturbed, k # worker[w].job
               PROVE  \/ job[k].state = "done"
                      \/ /\ job[k].state = "active"
                         /\ job[k].lock \in Workers
                         /\ worker'[job[k].lock] = [pc |-> "refused", job |-> k]
    BY <1>3 DEF RefusedJobsEnd
  <2>1. \/ job[k].state = "done"
        \/ /\ job[k].state = "active"
           /\ job[k].lock \in Workers
           /\ worker[job[k].lock] = [pc |-> "refused", job |-> k]
    BY DEF Inv, RefusedJobsEnd
  <2>2. worker[w] # [pc |-> "refused", job |-> k]
    OBVIOUS
  <2> QED
    BY <1>2, <2>1, <2>2
<1> QED
  BY <1>3, <1>4, <1>5, <1>6 DEF Inv, RefusalsAreFinal

\* Bull's stalled-jobs check and the cleanup cron.
LEMMA DisturbingStep ==
    ASSUME Inv, NEW j \in Jobs, StallJob(j) \/ FailStuckActiveJob(j) \/ CleanActiveJob(j)
    PROVE  Inv'
<1>1. TypeOK /\ job[j] \in JobRecord
  BY DEF Inv, TypeOK
<1>2. CASE StallJob(j)
  <2>1. PICK rec \in JobRecord : job' = [job EXCEPT ![j] = rec]
    <3>1. CASE job[j].stalls < MaxStalls
      <4> DEFINE rec == [job[j] EXCEPT !.state = "waiting", !.stalls = job[j].stalls + 1,
                                       !.lock = None]
      <4>1. job[j].stalls + 1 \in 0..MaxStalls
        BY <1>1, <3>1, QueueConstants DEF JobRecord
      <4>2. rec \in JobRecord
        BY <1>1, <4>1 DEF JobRecord
      <4>3. job' = [job EXCEPT ![j] = rec]
        BY <1>1, <1>2, <3>1 DEF StallJob, TypeOK
      <4> QED
        BY <4>2, <4>3
    <3>2. CASE ~(job[j].stalls < MaxStalls)
      BY <1>1, <1>2, <3>2, OutcomesAreJobs DEF StallJob, TypeOK
    <3> QED
      BY <3>1, <3>2
  <2> QED
    BY <1>2, <2>1, DisturbedStep DEF StallJob
<1>3. CASE FailStuckActiveJob(j)
  BY <1>1, <1>3, OutcomesAreJobs, DisturbedStep DEF FailStuckActiveJob
<1>4. CASE CleanActiveJob(j)
  BY <1>1, <1>4, OutcomesAreJobs, DisturbedStep DEF CleanActiveJob
<1> QED
  BY <1>2, <1>3, <1>4

\* The handlers of the processors.
LEMMA HandlerStep ==
    ASSUME Inv, NEW w \in Workers, Call(w) \/ Hang(w) \/ Handler(w)
    PROVE  Inv'
<1>1. TypeOK
  BY DEF Inv
<1>2. CASE Sent(w)
  BY <1>2, WorkerStep DEF Sent, history
<1>3. CASE RefusedForGood(w)
  BY <1>3, WorkerStep DEF RefusedForGood
<1>4. CASE SendFails(w)
  BY <1>4, WorkerStep DEF SendFails, history
<1>5. CASE Hang(w)
  BY <1>5, WorkerStep DEF Hang, history
<1>6. CASE Handler(w)
  <2>1. worker[w].pc # "idle" /\ worker[w].job \in Jobs /\ UNCHANGED history
    BY <1>1, <1>6 DEF Handler, HandlerReturns, HandlerThrows, TypeOK
  <2>2. CASE HandlerReturns(w)
    BY <1>1, <2>1, <2>2, OutcomesAreJobs, ReportStep DEF HandlerReturns
  <2>3. CASE HandlerThrows(w)
    BY <1>1, <2>1, <2>3, OutcomesAreJobs, ReportStep DEF HandlerThrows
  <2> QED
    BY <1>6, <2>2, <2>3 DEF Handler
<1> QED
  BY <1>2, <1>3, <1>4, <1>5, <1>6 DEF Call


\* The initial states have no message.
THEOREM InitInv == Init => Inv
<1> SUFFICES ASSUME Init PROVE Inv
  OBVIOUS
<1>1. FreeJob \in JobRecord /\ IdleWorker \in WorkerRecord
  BY QueueConstants DEF FreeJob, JobRecord, IdleWorker, WorkerRecord
<1>2. TypeOK
  BY <1>1 DEF Init, TypeOK, IdleWorker
<1> QED
  BY <1>2 DEF Init, Inv, IdleWorker, WorkersHoldTheirJobs, RefusedJobsEnd, RefusalsAreFinal

\* Every step of Bull, of the processors and of the cron keeps the invariant.
THEOREM InvStep == Inv /\ [Next]_vars => Inv'
<1> SUFFICES ASSUME Inv, [Next]_vars PROVE Inv'
  OBVIOUS
<1>1. CASE \E j \in Jobs :
              \/ QueueMessage(j) \/ StallJob(j) \/ FailStuckActiveJob(j) \/ CleanActiveJob(j)
              \/ \E w \in Workers : Take(w, j)
  BY <1>1, QueueStep, DisturbingStep, TakeStep
<1>2. CASE \E w \in Workers : Call(w) \/ Hang(w) \/ Handler(w) \/ Crash(w)
  BY <1>2, HandlerStep, CrashStep
<1>3. CASE UNCHANGED vars
  BY <1>3 DEF vars, history, Inv, TypeOK, WorkersHoldTheirJobs, RefusedJobsEnd, RefusalsAreFinal
<1> QED
  BY <1>1, <1>2, <1>3 DEF Next

\* The invariant holds of every reachable state.
THEOREM Invariance == Spec => []Inv
<1> QED
  BY InitInv, InvStep, PTL DEF Spec

\* Every job and process has its type.
THEOREM TypeCorrect == Spec => []TypeOK
<1>1. Inv => TypeOK
  BY DEF Inv
<1> QED
  BY <1>1, Invariance, PTL

\* The provider is never called again with a message it refused for good, but for one
\* whose process died, stalled or was declared stuck before it could return.
THEOREM RefusalsStayFinal == Spec => []RefusalsAreFinal
<1>1. Inv => RefusalsAreFinal
  BY DEF Inv
<1> QED
  BY <1>1, Invariance, PTL

-----------------------------------------------------------------------------
(* Delivery events                                                          *)

\* A delivery whose statuses are being looked up, or stored: each one it looked up is
\* stored or to be stored.
DeliveryOK(r) ==
    \/ r = E!Idle
    \/ /\ r.pc # "idle" /\ r.payload \in Payloads
       /\ r.seen <= Len(Statuses[r.payload])
       /\ r.pc = "store" => r.seen = Len(Statuses[r.payload])
       /\ \A k \in 1..r.seen :
             \/ E!Key(Statuses[r.payload][k]) \in log
             \/ \E i \in 1..Len(r.todo) : r.todo[i] = Statuses[r.payload][k]

EventsInv ==
    /\ E!TypeOK
    /\ \A q \in Requests : DeliveryOK(request[q])
    /\ E!AnsweredIsStored

\* The statuses of a payload.
LEMMA StatusesAreSequences ==
    ASSUME NEW p \in Payloads
    PROVE  /\ Statuses[p] \in Seq(E!All) /\ Len(Statuses[p]) \in Nat
           /\ DOMAIN Statuses[p] = 1..Len(Statuses[p])
           /\ \A k \in 1..Len(Statuses[p]) : Statuses[p][k] \in E!All
<1>1. Statuses[p] \in Seq(E!All)
  BY MessageConstants DEF E!DeliveryConstants
<1> HIDE DEF E!All
<1> QED
  BY <1>1

\* The duplicate check asks for the id of the message and the log holds the reference: a
\* status that is found is stored all the same, for a reference that is the id of a
\* message is that message's.
LEMMA FoundIsStored ==
    ASSUME E!TypeOK, NEW e \in E!All, E!Duplicate(e)
    PROVE  E!Key(e) \in log
<1>1. PICK f \in E!All : e = <<Ref[f[1]], f[2]>>
  BY DEF E!TypeOK, E!Duplicate
<1>2. e[1] = Ref[f[1]] /\ e[2] = f[2]
  BY <1>1
<1>3. e[1] \in DOMAIN Ref /\ f[1] \in DOMAIN Ref
  BY MessageConstants DEF E!DeliveryConstants
<1>4. Ref[f[1]] = f[1]
  BY <1>2, <1>3, MessageConstants DEF E!DeliveryConstants
<1>5. E!Key(e) = e
  BY <1>1, <1>2, <1>4 DEF E!Key
<1> QED
  BY <1>5 DEF E!Duplicate

\* A step of one delivery that does not answer.
LEMMA DeliveryStep ==
    ASSUME EventsInv, NEW q \in Requests, NEW r \in E!RequestRecord,
           request' = [request EXCEPT ![q] = r], DeliveryOK(r)',
           log \subseteq log', log' \subseteq {<<Ref[e[1]], e[2]>> : e \in E!All},
           UNCHANGED answered, failures' \in 0..MaxFailures
    PROVE  EventsInv'
<1>1. /\ request' \in [Requests -> E!RequestRecord]
      /\ \A k \in Requests : request'[k] = IF k = q THEN r ELSE request[k]
  BY DEF EventsInv, E!TypeOK
<1>2. \A k \in Requests : DeliveryOK(request[k])'
  <2> SUFFICES ASSUME NEW k \in Requests PROVE DeliveryOK(request[k])'
    OBVIOUS
  <2>1. PICK s : s = request'[k]
    OBVIOUS
  <2>2. DeliveryOK(s)'
    <3>1. CASE k = q
      BY <1>1, <2>1, <3>1
    <3>2. CASE k # q
      <4>1. DeliveryOK(s)
        BY <1>1, <2>1, <3>2 DEF EventsInv
      <4> QED
        BY <4>1 DEF DeliveryOK
    <3> QED
      BY <3>1, <3>2
  <2> QED
    BY <2>1, <2>2 DEF DeliveryOK
<1>3. E!TypeOK'
  BY <1>1 DEF EventsInv, E!TypeOK
<1>4. E!AnsweredIsStored'
  BY DEF EventsInv, E!AnsweredIsStored
<1> QED
  BY <1>2, <1>3, <1>4 DEF EventsInv

LEMMA IdleDelivery == E!Idle \in E!RequestRecord /\ DeliveryOK(E!Idle)'
<1>1. <<>> \in Seq(E!All)
  OBVIOUS
<1> QED
  BY <1>1 DEF E!Idle, E!RequestRecord, DeliveryOK

LEMMA DeliveryFacts ==
    ASSUME EventsInv, NEW q \in Requests, request[q].pc # "idle"
    PROVE  /\ request[q] \in E!RequestRecord /\ DeliveryOK(request[q]) /\ request[q] # E!Idle
           /\ request[q].payload \in Payloads
           /\ request[q].seen \in Nat /\ request[q].todo \in Seq(E!All)
<1>1. request[q] # E!Idle /\ request[q] \in E!RequestRecord /\ DeliveryOK(request[q])
  BY DEF E!Idle, EventsInv, E!TypeOK
<1> QED
  BY <1>1 DEF DeliveryOK, E!RequestRecord

LEMMA EventsStep ==
    ASSUME EventsInv, [E!Next]_evars
    PROVE  EventsInv'
<1>0. /\ E!TypeOK /\ log \subseteq {<<Ref[e[1]], e[2]>> : e \in E!All}
      /\ failures \in 0..MaxFailures /\ MaxFailures \in Nat
  BY MessageConstants DEF EventsInv, E!TypeOK, E!DeliveryConstants
<1>1. ASSUME NEW q \in Requests, NEW p \in Payloads, E!Receive(q, p)
      PROVE  EventsInv'
  <2>1. E!Idle \in E!RequestRecord /\ E!Idle.seen = 0 /\ Len(Statuses[p]) \in Nat
    BY IdleDelivery, StatusesAreSequences DEF E!Idle
  <2>2. PICK r : r = [E!Idle EXCEPT !.pc = "extract", !.payload = p]
    OBVIOUS
  <2>3. request' = [request EXCEPT ![q] = r] /\ UNCHANGED <<log, answered, failures>>
    BY <1>1, <2>2 DEF E!Receive
  <2>4. r \in E!RequestRecord /\ r.pc = "extract" /\ r.payload = p /\ r.seen = 0
    <3> HIDE DEF E!All
    <3> QED
      BY <2>1, <2>2 DEF E!RequestRecord
  <2>5. DeliveryOK(r)'
    BY <2>1, <2>4 DEF DeliveryOK
  <2> QED
    BY <1>0, <2>3, <2>4, <2>5, DeliveryStep
<1>2. ASSUME NEW q \in Requests, E!Extract(q)
      PROVE  EventsInv'
  <2>s. PICK s : s = request[q]
    OBVIOUS
  <2>p. PICK p : p = s.payload
    OBVIOUS
  <2>e. PICK e : e = Statuses[p][s.seen + 1]
    OBVIOUS
  <2>t. PICK todo : todo = IF E!Duplicate(e) THEN s.todo ELSE Append(s.todo, e)
    OBVIOUS
  <2>1. /\ s.pc = "extract" /\ s.seen < Len(Statuses[p])
        /\ UNCHANGED <<log, answered, failures>>
    BY <1>2, <2>s, <2>p DEF E!Extract
  <2>2. /\ s \in E!RequestRecord /\ DeliveryOK(s) /\ s # E!Idle
        /\ p \in Payloads /\ s.seen \in Nat /\ s.todo \in Seq(E!All)
    BY <2>1, <2>s, <2>p, DeliveryFacts
  <2>3. PICK r : r = [s EXCEPT !.seen = s.seen + 1, !.todo = todo]
    OBVIOUS
  <2>4. request' = [request EXCEPT ![q] = r]
    <3>1. request' = [request EXCEPT ![q].seen = @ + 1,
                        ![q].todo = IF E!Duplicate(e) THEN @ ELSE Append(@, e)]
      BY <1>2, <2>s, <2>p, <2>e DEF E!Extract
    <3>2. request \in [Requests -> E!RequestRecord]
      BY <1>0 DEF E!TypeOK
    <3>3. s = [pc |-> s.pc, payload |-> s.payload, seen |-> s.seen, todo |-> s.todo]
      BY <2>2 DEF E!RequestRecord
    <3> QED
      BY <2>2, <2>3, <2>s, <2>t, <3>1, <3>2, <3>3
  <2>5. e \in E!All /\ Len(Statuses[p]) \in Nat
    <3>1. s.seen + 1 \in 1..Len(Statuses[p]) /\ Len(Statuses[p]) \in Nat
      BY <2>1, <2>2, StatusesAreSequences
    <3> QED
      BY <2>2, <2>e, <3>1, StatusesAreSequences
  <2>6. /\ todo \in Seq(E!All)
        /\ \A i \in 1..Len(s.todo) : i \in 1..Len(todo) /\ todo[i] = s.todo[i]
        /\ E!Key(e) \in log \/ \E i \in 1..Len(todo) : todo[i] = e
    <3>1. CASE E!Duplicate(e)
      BY <1>0, <2>2, <2>5, <2>t, <3>1, FoundIsStored
    <3>2. CASE ~E!Duplicate(e)
      <4>1. todo = Append(s.todo, e)
        BY <2>t, <3>2
      <4> HIDE DEF E!All
      <4>2. /\ todo \in Seq(E!All)
            /\ Len(todo) = Len(s.todo) + 1 /\ Len(s.todo) \in Nat
            /\ todo[Len(s.todo) + 1] = e
            /\ \A i \in 1..Len(s.todo) : todo[i] = s.todo[i]
        BY <2>2, <2>5, <4>1
      <4> QED
        BY <4>2
    <3> QED
      BY <3>1, <3>2
  <2>7. /\ r \in E!RequestRecord /\ r.pc = "extract" /\ r.payload = p
        /\ r.seen = s.seen + 1 /\ r.todo = todo
    <3> HIDE DEF E!All
    <3>1. s.seen + 1 \in Nat /\ todo \in Seq(E!All)
      BY <2>2, <2>6
    <3>2. r \in E!RequestRecord
      BY <2>2, <2>3, <3>1 DEF E!RequestRecord
    <3>3. r.pc = s.pc /\ r.payload = s.payload /\ r.seen = s.seen + 1
      BY <2>2, <2>3 DEF E!RequestRecord
    <3>4. r.todo = todo
      BY <2>2, <2>3 DEF E!RequestRecord
    <3> QED
      BY <2>1, <2>p, <3>2, <3>3, <3>4
  <2>8. ASSUME NEW k \in 1..r.seen
        PROVE  \/ E!Key(Statuses[p][k]) \in log
               \/ \E i \in 1..Len(r.todo) : r.todo[i] = Statuses[p][k]
    <3>1. CASE k = s.seen + 1
      BY <2>6, <2>7, <2>e, <3>1
    <3>2. CASE k # s.seen + 1
      <4>1. k \in 1..s.seen
        BY <2>2, <2>7, <2>8, <3>2
      <4>2. \/ E!Key(Statuses[p][k]) \in log
            \/ \E i \in 1..Len(s.todo) : s.todo[i] = Statuses[p][k]
        BY <2>2, <2>p, <4>1 DEF DeliveryOK
      <4> QED
        BY <2>6, <2>7, <4>2
    <3> QED
      BY <3>1, <3>2
  <2>9. r.seen <= Len(Statuses[p])
    BY <2>1, <2>2, <2>5, <2>7
  <2>10. DeliveryOK(r)
    BY <2>2, <2>7, <2>8, <2>9 DEF DeliveryOK
  <2>11. DeliveryOK(r)'
    BY <2>1, <2>10 DEF DeliveryOK
  <2> QED
    BY <1>0, <2>1, <2>4, <2>7, <2>11, DeliveryStep
<1>3. ASSUME NEW q \in Requests, E!Extracted(q)
      PROVE  EventsInv'
  <2>1. PICK r : r = [request[q] EXCEPT !.pc = "store"]
    OBVIOUS
  <2>2. /\ request[q].pc = "extract"
        /\ request[q].seen = Len(Statuses[request[q].payload])
        /\ UNCHANGED <<log, answered, failures>>
        /\ request' = [request EXCEPT ![q].pc = "store"]
    BY <1>3 DEF E!Extracted
  <2>3. request' = [request EXCEPT ![q] = r]
    BY <1>0, <2>1, <2>2 DEF E!TypeOK
  <2>4. request[q] \in E!RequestRecord /\ DeliveryOK(request[q]) /\ request[q] # E!Idle
    BY <2>2, DeliveryFacts
  <2>5. /\ r \in E!RequestRecord /\ r.pc = "store" /\ r.payload = request[q].payload
        /\ r.seen = request[q].seen /\ r.todo = request[q].todo
    BY <2>1, <2>4 DEF E!RequestRecord
  <2>6. DeliveryOK(r)
    BY <2>2, <2>4, <2>5 DEF DeliveryOK
  <2>7. DeliveryOK(r)'
    BY <2>2, <2>6 DEF DeliveryOK
  <2> QED
    BY <1>0, <2>2, <2>3, <2>5, <2>7, DeliveryStep
<1>4. ASSUME NEW q \in Requests, E!Store(q)
      PROVE  EventsInv'
  <2>s. PICK s : s = request[q]
    OBVIOUS
  <2>1. /\ s.pc = "store" /\ s.todo # <<>>
        /\ log' = log \union {E!Key(Head(s.todo))}
        /\ request' = [request EXCEPT ![q].todo = Tail(@)]
        /\ UNCHANGED <<answered, failures>>
    BY <1>4, <2>s DEF E!Store
  <2>2. /\ s \in E!RequestRecord /\ DeliveryOK(s) /\ s # E!Idle
        /\ s.payload \in Payloads /\ s.seen \in Nat /\ s.todo \in Seq(E!All)
    BY <2>1, <2>s, DeliveryFacts
  <2>3. PICK r : r = [s EXCEPT !.todo = Tail(s.todo)]
    OBVIOUS
  <2>4. request' = [request EXCEPT ![q] = r]
    BY <1>0, <2>1, <2>3, <2>s DEF E!TypeOK
  <2>5. /\ Tail(s.todo) \in Seq(E!All) /\ Head(s.todo) = s.todo[1] /\ s.todo[1] \in E!All
        /\ \A i \in 1..Len(s.todo) :
              i = 1 \/ (i - 1 \in 1..Len(Tail(s.todo)) /\ Tail(s.todo)[i - 1] = s.todo[i])
    <3> HIDE DEF E!All
    <3> QED
      BY <2>1, <2>2
  <2>6. /\ r \in E!RequestRecord /\ r.pc = "store" /\ r.payload = s.payload
        /\ r.seen = s.seen /\ r.todo = Tail(s.todo)
    BY <2>1, <2>2, <2>3, <2>5 DEF E!RequestRecord
  <2>7. ASSUME NEW k \in 1..r.seen
        PROVE  \/ E!Key(Statuses[s.payload][k]) \in log'
               \/ \E i \in 1..Len(r.todo) : r.todo[i] = Statuses[s.payload][k]
    <3>1. \/ E!Key(Statuses[s.payload][k]) \in log
          \/ \E i \in 1..Len(s.todo) : s.todo[i] = Statuses[s.payload][k]
      BY <2>2, <2>6 DEF DeliveryOK
    <3>2. ASSUME NEW i \in 1..Len(s.todo), s.todo[i] = Statuses[s.payload][k]
          PROVE  \/ E!Key(Statuses[s.payload][k]) \in log'
                 \/ \E j \in 1..Len(r.todo) : r.todo[j] = Statuses[s.payload][k]
      <4>1. CASE i = 1
        BY <2>1, <2>5, <3>2, <4>1
      <4>2. CASE i # 1
        BY <2>5, <2>6, <3>2, <4>2
      <4> QED
        BY <4>1, <4>2
    <3> QED
      BY <2>1, <3>1, <3>2
  <2>8. DeliveryOK(r)'
    <3>1. /\ r.pc # "idle" /\ r.payload \in Payloads
          /\ r.seen = Len(Statuses[r.payload]) /\ r.seen <= Len(Statuses[r.payload])
      BY <2>1, <2>2, <2>6 DEF DeliveryOK
    <3>2. \A k \in 1..r.seen :
             \/ E!Key(Statuses[r.payload][k]) \in log'
             \/ \E i \in 1..Len(r.todo) : r.todo[i] = Statuses[r.payload][k]
      BY <2>6, <2>7
    <3> QED
      BY <3>1, <3>2 DEF DeliveryOK, E!Key
  <2>9. log \subseteq log' /\ log' \subseteq {<<Ref[e[1]], e[2]>> : e \in E!All}
    BY <1>0, <2>1, <2>5 DEF E!Key
  <2> QED
    BY <1>0, <2>1, <2>4, <2>6, <2>8, <2>9, DeliveryStep
<1>5. ASSUME NEW q \in Requests, E!Refuse(q) \/ E!RequestFails(q)
      PROVE  EventsInv'
  <2>1. /\ request' = [request EXCEPT ![q] = E!Idle]
        /\ UNCHANGED <<log, answered>> /\ failures' \in 0..MaxFailures
    BY <1>0, <1>5 DEF E!Refuse, E!RequestFails
  <2> QED
    BY <1>0, <2>1, IdleDelivery, DeliveryStep
<1>6. ASSUME NEW q \in Requests, E!Answer(q)
      PROVE  EventsInv'
  <2>p. PICK p : p = request[q].payload
    OBVIOUS
  <2>1. /\ request[q].pc = "store" /\ request[q].todo = <<>>
        /\ answered' = answered \union {p}
        /\ request' = [request EXCEPT ![q] = E!Idle]
        /\ UNCHANGED <<log, failures>>
    BY <1>6, <2>p DEF E!Answer, E!Done
  <2>2. DeliveryOK(request[q]) /\ request[q] # E!Idle /\ p \in Payloads
    BY <2>1, <2>p, DeliveryFacts
  <2>3. \A k \in DOMAIN Statuses[p] : E!Key(Statuses[p][k]) \in log
    <3>1. request[q].seen = Len(Statuses[p])
      BY <2>1, <2>2, <2>p DEF DeliveryOK
    <3>2. Len(request[q].todo) = 0
      BY <2>1
    <3> QED
      BY <2>2, <2>p, <3>1, <3>2, StatusesAreSequences DEF DeliveryOK
  <2>4. /\ request' \in [Requests -> E!RequestRecord]
        /\ \A k \in Requests : request'[k] = IF k = q THEN E!Idle ELSE request[k]
    BY <1>0, <2>1, IdleDelivery DEF E!TypeOK
  <2>5. \A k \in Requests : DeliveryOK(request[k])'
    BY <2>1, <2>4 DEF EventsInv, DeliveryOK
  <2>6. E!TypeOK'
    BY <1>0, <2>1, <2>2, <2>4 DEF E!TypeOK
  <2>7. E!AnsweredIsStored'
    BY <2>1, <2>3 DEF EventsInv, E!AnsweredIsStored, E!Key
  <2> QED
    BY <2>5, <2>6, <2>7 DEF EventsInv
<1>7. CASE UNCHANGED evars
  BY <1>7 DEF evars, EventsInv, E!TypeOK, E!AnsweredIsStored, DeliveryOK
<1> QED
  BY <1>1, <1>2, <1>3, <1>4, <1>5, <1>6, <1>7 DEF E!Next, E!Handle

LEMMA EventsInit == E!Init => EventsInv
<1> SUFFICES ASSUME E!Init PROVE EventsInv
  OBVIOUS
<1>1. E!Idle \in E!RequestRecord /\ 0 \in 0..MaxFailures
  BY IdleDelivery, MessageConstants DEF E!DeliveryConstants
<1> QED
  BY <1>1 DEF E!Init, E!TypeOK, EventsInv, E!AnsweredIsStored, DeliveryOK

-----------------------------------------------------------------------------
(* Clean-up                                                                 *)

Cleaners == {c \in Calls : C!Cleaning(c)}
Monitors == {c \in Calls : C!Monitoring(c)}

\* A flag says whether there is a call that set it, and there is never more than one.
Alone(flag, S) == IF flag THEN \E c \in Calls : S = {c} ELSE S = {}

CleanupInv ==
    /\ C!TypeOK
    /\ Alone(hourly, Cleaners)
    /\ Alone(monitoring, Monitors)

\* A step of one call changes no other.
LEMMA CallStep ==
    ASSUME C!TypeOK, NEW c \in Calls, NEW r \in C!CallRecord \union {None},
           call' = [call EXCEPT ![c] = r]
    PROVE  /\ call' \in [Calls -> C!CallRecord \union {None}]
           /\ Cleaners' = IF r # None /\ r.inner THEN Cleaners \union {c} ELSE Cleaners \ {c}
           /\ Monitors' = IF r # None /\ r.outer THEN Monitors \union {c} ELSE Monitors \ {c}
<1>1. /\ call' \in [Calls -> C!CallRecord \union {None}]
      /\ \A k \in Calls : call'[k] = IF k = c THEN r ELSE call[k]
  BY DEF C!TypeOK
<1>2. Cleaners' = IF r # None /\ r.inner THEN Cleaners \union {c} ELSE Cleaners \ {c}
  BY <1>1 DEF Cleaners, C!Cleaning
<1>3. Monitors' = IF r # None /\ r.outer THEN Monitors \union {c} ELSE Monitors \ {c}
  BY <1>1 DEF Monitors, C!Monitoring
<1> QED
  BY <1>1, <1>2, <1>3

\* A call that is only further than it was.
LEMMA CallGoesOn ==
    ASSUME CleanupInv, NEW c \in Calls, call[c] # None,
           NEW pc \in {"memory", "clean", "aggressive", "stats"},
           call' = [call EXCEPT ![c].pc = pc], UNCHANGED <<hourly, monitoring, memory, old>>,
           outages' \in 0..MaxFailures
    PROVE  CleanupInv'
<1>1. C!TypeOK /\ call[c] \in C!CallRecord
  BY DEF CleanupInv, C!TypeOK
<1>2. PICK r : r = [call[c] EXCEPT !.pc = pc]
  OBVIOUS
<1>3. call' = [call EXCEPT ![c] = r]
  BY <1>1, <1>2 DEF C!TypeOK
<1>4. r \in C!CallRecord /\ r.inner = call[c].inner /\ r.outer = call[c].outer
  BY <1>1, <1>2 DEF C!CallRecord
<1>5. r # None
  BY <1>4, MessageConstants DEF C!CallsAreCalls
<1>6. /\ call' \in [Calls -> C!CallRecord \union {None}]
      /\ Cleaners' = IF r.inner THEN Cleaners \union {c} ELSE Cleaners \ {c}
      /\ Monitors' = IF r.outer THEN Monitors \union {c} ELSE Monitors \ {c}
  BY <1>1, <1>3, <1>4, <1>5, CallStep
<1>7. Cleaners' = Cleaners /\ Monitors' = Monitors
  BY <1>4, <1>6 DEF Cleaners, Monitors, C!Cleaning, C!Monitoring
<1>8. C!TypeOK'
  BY <1>1, <1>6 DEF C!TypeOK
<1> QED
  BY <1>7, <1>8 DEF CleanupInv, Alone

\* The finally blocks: each resets the flag its own handler set.
LEMMA CallEnds ==
    ASSUME CleanupInv, NEW c \in Calls, call[c] # None, C!Finally(c),
           memory' \in {"normal", "critical"}, old' \in BOOLEAN, outages' \in 0..MaxFailures
    PROVE  CleanupInv'
<1>1. /\ C!TypeOK /\ call[c] \in C!CallRecord /\ call[c].inner \in BOOLEAN
      /\ call[c].outer \in BOOLEAN /\ hourly \in BOOLEAN /\ monitoring \in BOOLEAN
  BY DEF CleanupInv, C!TypeOK, C!CallRecord
<1>2. /\ call' \in [Calls -> C!CallRecord \union {None}]
      /\ Cleaners' = Cleaners \ {c} /\ Monitors' = Monitors \ {c}
  BY <1>1, CallStep DEF C!Finally
<1>3. /\ c \in Cleaners <=> call[c].inner
      /\ c \in Monitors <=> call[c].outer
  BY DEF Cleaners, Monitors, C!Cleaning, C!Monitoring
<1>4. hourly' = (hourly /\ ~call[c].inner) /\ monitoring' = (monitoring /\ ~call[c].outer)
  BY DEF C!Finally
<1>5. hourly' \in BOOLEAN /\ monitoring' \in BOOLEAN
  BY <1>4
<1>6. Alone(hourly, Cleaners)'
  BY <1>2, <1>3, <1>4 DEF CleanupInv, Alone
<1>7. Alone(monitoring, Monitors)'
  BY <1>2, <1>3, <1>4 DEF CleanupInv, Alone
<1>8. C!TypeOK'
  BY <1>2, <1>5 DEF C!TypeOK
<1> QED
  BY <1>6, <1>7, <1>8 DEF CleanupInv

\* Every step of the two handlers keeps the invariant.
LEMMA CleanupStep ==
    ASSUME CleanupInv, [C!Next]_cvars
    PROVE  CleanupInv'
<1>0. /\ C!TypeOK /\ call \in [Calls -> C!CallRecord \union {None}]
      /\ hourly \in BOOLEAN /\ monitoring \in BOOLEAN /\ memory \in {"normal", "critical"}
      /\ old \in BOOLEAN /\ outages \in 0..MaxFailures /\ MaxFailures \in Nat
  BY MessageConstants DEF CleanupInv, C!TypeOK, C!CleanupConstants
<1>n. \A r \in C!CallRecord : r # None
  BY MessageConstants DEF C!CallsAreCalls
<1>1. ASSUME NEW c \in Calls, C!HandleHourlyCleanup(c)
      PROVE  CleanupInv'
  <2> DEFINE r == [outer |-> FALSE, inner |-> TRUE, pc |-> "memory"]
  <2>1. r \in C!CallRecord /\ r.inner = TRUE /\ r.outer = FALSE
    BY DEF C!CallRecord
  <2>2. /\ call[c] = None /\ ~hourly /\ hourly' = TRUE /\ call' = [call EXCEPT ![c] = r]
        /\ UNCHANGED <<monitoring, memory, old, outages>>
    BY <1>1 DEF C!HandleHourlyCleanup
  <2> HIDE DEF r
  <2>3. /\ call' \in [Calls -> C!CallRecord \union {None}]
        /\ Cleaners' = Cleaners \union {c} /\ Monitors' = Monitors \ {c}
    BY <1>0, <1>n, <2>1, <2>2, CallStep
  <2>4. c \notin Monitors
    BY <2>2 DEF Monitors, C!Monitoring
  <2>5. Alone(hourly, Cleaners)' /\ Alone(monitoring, Monitors)'
    BY <2>2, <2>3, <2>4 DEF CleanupInv, Alone
  <2>6. C!TypeOK'
    BY <1>0, <2>2, <2>3 DEF C!TypeOK
  <2> QED
    BY <2>5, <2>6 DEF CleanupInv
<1>2. ASSUME NEW c \in Calls, C!HandleMonitoring(c)
      PROVE  CleanupInv'
  <2> DEFINE r == [outer |-> TRUE, inner |-> FALSE, pc |-> "memory"]
  <2>1. r \in C!CallRecord /\ r.inner = FALSE /\ r.outer = TRUE
    BY DEF C!CallRecord
  <2>2. /\ call[c] = None /\ ~monitoring /\ monitoring' = TRUE
        /\ call' = [call EXCEPT ![c] = r] /\ UNCHANGED <<hourly, memory, old, outages>>
    BY <1>2 DEF C!HandleMonitoring
  <2> HIDE DEF r
  <2>3. /\ call' \in [Calls -> C!CallRecord \union {None}]
        /\ Cleaners' = Cleaners \ {c} /\ Monitors' = Monitors \union {c}
    BY <1>0, <1>n, <2>1, <2>2, CallStep
  <2>4. c \notin Cleaners
    BY <2>2 DEF Cleaners, C!Cleaning
  <2>5. Alone(hourly, Cleaners)' /\ Alone(monitoring, Monitors)'
    BY <2>2, <2>3, <2>4 DEF CleanupInv, Alone
  <2>6. C!TypeOK'
    BY <1>0, <2>2, <2>3 DEF C!TypeOK
  <2> QED
    BY <2>5, <2>6 DEF CleanupInv
<1>3. ASSUME NEW c \in Calls, C!ReadMemory(c) \/ C!ReadStats(c)
      PROVE  CleanupInv'
  <2>1. /\ call[c] # None /\ outages' \in 0..MaxFailures
        /\ UNCHANGED <<hourly, monitoring, memory, old>>
    BY <1>0, <1>3 DEF C!ReadMemory, C!ReadStats, C!Cleaning, C!Monitoring, C!flags
  <2>2. PICK pc \in {"memory", "clean", "aggressive", "stats"} :
            call' = [call EXCEPT ![c].pc = pc]
    BY <1>3 DEF C!ReadMemory, C!ReadStats
  <2> QED
    BY <2>1, <2>2, CallGoesOn
<1>4. ASSUME NEW c \in Calls, C!CleanAllQueues(c)
      PROVE  CleanupInv'
  <2>1. call[c] # None /\ C!Finally(c)
    BY <1>4 DEF C!CleanAllQueues, C!Cleaning
  <2>2. memory' \in {"normal", "critical"}
    BY <1>0, <1>4 DEF C!CleanAllQueues
  <2>3. old' = FALSE \/ old' = old
    BY <1>4 DEF C!CleanAllQueues
  <2>4. old' \in BOOLEAN
    BY <1>0, <2>3
  <2>5. outages' = outages \/ (outages < MaxFailures /\ outages' = outages + 1)
    BY <1>4 DEF C!CleanAllQueues
  <2>6. outages' \in 0..MaxFailures
    BY <1>0, <2>5
  <2> QED
    BY <2>1, <2>2, <2>4, <2>6, CallEnds
<1>5. ASSUME NEW c \in Calls, C!EndMonitoring(c)
      PROVE  CleanupInv'
  <2>1. /\ call[c] # None /\ C!Finally(c) /\ outages' \in 0..MaxFailures
        /\ memory' \in {"normal", "critical"} /\ old' \in BOOLEAN
    BY <1>0, <1>5 DEF C!EndMonitoring, C!Monitoring
  <2> QED
    BY <2>1, CallEnds
<1>6. ASSUME NEW c \in Calls, C!TriggerCleanup(c)
      PROVE  CleanupInv'
  <2>1. /\ call[c] # None /\ call[c].outer /\ ~call[c].inner
        /\ UNCHANGED <<memory, old, outages>>
    BY <1>6 DEF C!TriggerCleanup, C!Monitoring
  <2>2. CASE hourly
    BY <1>0, <1>6, <2>1, <2>2, CallEnds DEF C!TriggerCleanup
  <2>3. CASE ~hourly
    <3>1. PICK r : r = [call[c] EXCEPT !.inner = TRUE, !.pc = "memory"]
      OBVIOUS
    <3>2. call[c] \in C!CallRecord
      BY <1>0, <2>1
    <3>3. r \in C!CallRecord /\ r.inner = TRUE /\ r.outer = call[c].outer
      BY <3>1, <3>2 DEF C!CallRecord
    <3>4. hourly' = TRUE /\ monitoring' = monitoring /\ call' = [call EXCEPT ![c] = r]
      BY <1>0, <1>6, <2>3, <3>1 DEF C!TriggerCleanup
    <3>5. /\ call' \in [Calls -> C!CallRecord \union {None}]
          /\ Cleaners' = Cleaners \union {c}
          /\ Monitors' = Monitors \union {c}
      BY <1>0, <1>n, <2>1, <3>3, <3>4, CallStep
    <3>6. c \in Monitors
      BY <2>1 DEF Monitors, C!Monitoring
    <3>7. Alone(hourly, Cleaners)' /\ Alone(monitoring, Monitors)'
      BY <2>3, <3>4, <3>5, <3>6 DEF CleanupInv, Alone
    <3>8. C!TypeOK'
      BY <1>0, <2>1, <3>4, <3>5 DEF C!TypeOK
    <3> QED
      BY <3>7, <3>8 DEF CleanupInv
  <2> QED
    BY <2>2, <2>3
<1>7. CASE \/ C!JobsGrowOld \/ C!RedisFillsUp \/ UNCHANGED cvars
  <2>1. /\ UNCHANGED <<hourly, monitoring, call>> /\ memory' \in {"normal", "critical"}
        /\ old' \in BOOLEAN /\ outages' \in 0..MaxFailures
    BY <1>0, <1>7 DEF C!JobsGrowOld, C!RedisFillsUp, C!flags, cvars
  <2> QED
    BY <1>0, <2>1 DEF CleanupInv, C!TypeOK, Alone, Cleaners, Monitors, C!Cleaning, C!Monitoring
<1> QED
  BY <1>1, <1>2, <1>3, <1>4, <1>5, <1>6, <1>7 DEF C!Next, C!Step

LEMMA CleanupInit == C!Init => CleanupInv
<1> SUFFICES ASSUME C!Init PROVE CleanupInv
  OBVIOUS
<1>1. C!TypeOK
  <2>1. call \in [Calls -> C!CallRecord \union {None}]
    BY DEF C!Init
  <2>2. 0 \in 0..MaxFailures
    BY MessageConstants DEF C!CleanupConstants
  <2> QED
    BY <2>1, <2>2 DEF C!Init, C!TypeOK
<1>2. Cleaners = {} /\ Monitors = {} /\ ~hourly /\ ~monitoring
  BY DEF C!Init, Cleaners, Monitors, C!Cleaning, C!Monitoring
<1> QED
  BY <1>1, <1>2 DEF CleanupInv, Alone

\* What the flags say is the number of the calls.
LEMMA FlagsCount == CleanupInv => C!OneCleanupAtATime
<1> SUFFICES ASSUME CleanupInv PROVE C!OneCleanupAtATime
  OBVIOUS
<1>1. \A S : C!Cardinality(S) = Cardinality(S)
  BY DEF C!Cardinality, Cardinality, C!IsFiniteSet, IsFiniteSet
<1>2. ASSUME NEW flag, NEW S, Alone(flag, S)
      PROVE  C!Cardinality(S) = IF flag THEN 1 ELSE 0
  BY <1>1, <1>2, FS_EmptySet, FS_Singleton DEF Alone
<1> QED
  BY <1>2 DEF CleanupInv, C!OneCleanupAtATime, Cleaners, Monitors

-----------------------------------------------------------------------------
(* The instance that the runs check                                         *)

MessagesInv == Inv /\ EventsInv /\ CleanupInv

\* The three components have no state in common: each keeps its part.
LEMMA MessagesStep == MessagesInv /\ [MCNext]_mcvars => MessagesInv'
<1> SUFFICES ASSUME MessagesInv, [MCNext]_mcvars PROVE MessagesInv'
  OBVIOUS
<1>1. [Next]_vars /\ [E!Next]_evars /\ [C!Next]_cvars
  BY DEF MCNext, QueueNext, EventsNext, CleanupNext, mcvars
<1> QED
  BY <1>1, InvStep, EventsStep, CleanupStep DEF MessagesInv

THEOREM MessagesInvariance == MCSpec => []MessagesInv
<1>1. MCInit => MessagesInv
  BY InitInv, EventsInit, CleanupInit DEF MCInit, MessagesInv
<1> QED
  BY <1>1, MessagesStep, PTL DEF MCSpec

\* Every job, delivery, call and flag has its type.
THEOREM MessagesTypes == MCSpec => []TypesOK
<1>1. MessagesInv => TypesOK
  BY DEF MessagesInv, Inv, EventsInv, CleanupInv, TypesOK
<1> QED
  BY <1>1, MessagesInvariance, PTL

\* Success is answered only for a payload all of whose statuses are stored, whatever
\* number of deliveries of whatever payloads overlap, are refused or fail.
THEOREM AnswersVouch == MCSpec => []AnsweredIsStored
<1>1. MessagesInv => AnsweredIsStored
  BY DEF MessagesInv, EventsInv, AnsweredIsStored
<1> QED
  BY <1>1, MessagesInvariance, PTL

\* However many calls the timers start, at most one cleans up and at most one monitors,
\* and a flag is set exactly while there is one.
THEOREM CleanupsOneAtATime == MCSpec => []OneCleanupAtATime
<1>1. MessagesInv => OneCleanupAtATime
  BY FlagsCount DEF MessagesInv, OneCleanupAtATime
<1> QED
  BY <1>1, MessagesInvariance, PTL

\* The same of the webhooks on their own, for every set of payloads and of requests.
THEOREM EventsCorrect == E!Spec => [](E!TypeOK /\ E!AnsweredIsStored)
<1>1. EventsInv /\ [E!Next]_(E!vars) => EventsInv'
  BY EventsStep DEF E!vars, evars
<1>2. EventsInv => E!TypeOK /\ E!AnsweredIsStored
  BY DEF EventsInv
<1> QED
  BY EventsInit, <1>1, <1>2, PTL DEF E!Spec

\* The same of the clean-up on its own, for every number of calls.
THEOREM CleanupCorrect == C!Spec => [](C!TypeOK /\ C!OneCleanupAtATime)
<1>1. CleanupInv /\ [C!Next]_(C!vars) => CleanupInv'
  BY CleanupStep DEF C!vars, cvars
<1>2. CleanupInv => C!TypeOK /\ C!OneCleanupAtATime
  BY FlagsCount DEF CleanupInv
<1> QED
  BY CleanupInit, <1>1, <1>2, PTL DEF C!Spec

=============================================================================
