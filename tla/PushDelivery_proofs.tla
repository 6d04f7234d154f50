------------------------- MODULE PushDelivery_proofs -------------------------
(***************************************************************************)
(* Proofs about PushDelivery, for any users, tokens, rows, jobs and        *)
(* registrations and any number of attempts and stalls: its types, how     *)
(* often a push is sent, and which tokens are held invalid.                *)
(***************************************************************************)
EXTENDS PushDelivery, TLAPS

\* A job that was never queued has no device.
FreeJobsAreBlank == \A j \in Jobs : job[j].pc = "free" => job[j].device = None

Inv ==
    /\ TypeOK
    /\ FreeJobsAreBlank
    /\ SendsAreCounted
    /\ InvalidTokensWereReported
    /\ MarksAreOfTheToken

-----------------------------------------------------------------------------
(* What the helpers return                                                  *)

\* A job whose attempt failed is a job that waits, with one attempt more, or is done.
LEMMA AfterAttemptIs ==
    ASSUME TypeOK, NEW j \in Jobs
    PROVE  /\ AfterAttempt(j) \in JobRecord
           /\ AfterAttempt(j).token = job[j].token
           /\ AfterAttempt(j).stalls = job[j].stalls
           /\ \/ /\ AfterAttempt(j).pc = "waiting"
                 /\ AfterAttempt(j).device = None
                 /\ AfterAttempt(j).attempts = job[j].attempts + 1
              \/ /\ AfterAttempt(j).pc = "done"
                 /\ AfterAttempt(j).device = job[j].device
                 /\ AfterAttempt(j).attempts = job[j].attempts
<1>1. job[j] \in JobRecord
  BY DEF TypeOK
<1>2. CASE job[j].attempts + 1 < MaxAttempts
  <2>1. job[j].attempts + 1 \in 0..MaxAttempts-1
    BY <1>1, <1>2, PushConstants DEF JobRecord
  <2> QED
    BY <1>1, <1>2, <2>1 DEF AfterAttempt, JobRecord
<1>3. CASE ~(job[j].attempts + 1 < MaxAttempts)
  BY <1>1, <1>3 DEF AfterAttempt, JobRecord
<1> QED
  BY <1>2, <1>3

\* A row that is there is a row.
LEMMA ExistingRow ==
    ASSUME TypeOK, NEW i \in Ids, Exists(i)
    PROVE  device[i] \in DeviceRow
  BY DEF TypeOK, Exists

\* updateDeliveryStatus leaves everything but the status as it is.
LEMMA WithStatusIs ==
    ASSUME TypeOK, NEW i \in Ids, Exists(i), NEW s \in {"success", "failed"}
    PROVE  /\ WithStatus(i, s) \in [Ids -> DeviceRow \union {None, Gone}]
           /\ WithStatus(i, s)[i] \in DeviceRow
           /\ WithStatus(i, s)[i].token = device[i].token
           /\ WithStatus(i, s)[i].invalid = device[i].invalid
           /\ \A k \in Ids \ {i} : WithStatus(i, s)[k] = device[k]
  BY ExistingRow DEF TypeOK, WithStatus, DeviceRow

-----------------------------------------------------------------------------

\* The initial states have no row, no job and no send.
THEOREM InitInv == Init => Inv
<1> SUFFICES ASSUME Init PROVE Inv
  OBVIOUS
<1>1. FreeJob \in JobRecord
  BY PushConstants DEF FreeJob, JobRecord
<1>2. TypeOK
  BY <1>1 DEF Init, TypeOK
<1>3. FreeJobsAreBlank /\ SendsAreCounted
  BY DEF Init, FreeJob, FreeJobsAreBlank, SendsAreCounted
<1>4. InvalidTokensWereReported /\ MarksAreOfTheToken
  BY PushConstants DEF Init, FreeJob, Exists, InvalidTokensWereReported, MarksAreOfTheToken
<1> QED
  BY <1>2, <1>3, <1>4 DEF Inv

-----------------------------------------------------------------------------
(* Each step of DevicesService                                              *)

\* The steps of DevicesService that write no row.
LEMMA RequestStep ==
    ASSUME Inv, NEW q \in Requests,
           \/ \E u \in Users, t \in Tokens : ValidateRegister(q, u, t)
           \/ RegisterFails(q)
    PROVE  Inv'
<1>0. TypeOK
  BY DEF Inv
<1>1. request' \in [Requests -> RequestRecord \union {None}]
  <2>1. CASE \E u \in Users, t \in Tokens : ValidateRegister(q, u, t)
    BY <1>0, <2>1 DEF TypeOK, ValidateRegister, RequestRecord
  <2>2. CASE RegisterFails(q)
    BY <1>0, <2>2 DEF TypeOK, RegisterFails
  <2> QED
    BY <2>1, <2>2
<1>2. UNCHANGED <<device, dead, job, sends>>
  BY DEF ValidateRegister, RegisterFails
<1> QED
  BY <1>1, <1>2 DEF Inv, TypeOK, FreeJobsAreBlank, SendsAreCounted,
                    InvalidTokensWereReported, MarksAreOfTheToken, Exists

\* A row that is deleted is not read again.
LEMMA UnregisterStep ==
    ASSUME Inv, NEW i \in Ids, Unregister(i)
    PROVE  Inv'
<1>1. TypeOK'
  BY DEF Inv, TypeOK, Unregister
<1>2. InvalidTokensWereReported' /\ MarksAreOfTheToken'
  BY DEF Inv, TypeOK, Unregister, InvalidTokensWereReported, MarksAreOfTheToken, Exists
<1> QED
  BY <1>1, <1>2 DEF Inv, Unregister, FreeJobsAreBlank, SendsAreCounted

\* The other steps of DevicesService change one row, and neither jobs nor what FCM
\* knows.
LEMMA DevicesStep ==
    ASSUME Inv, NEW q \in Requests, NEW i \in Ids,
           CreateDevice(q, i) \/ UpdateByToken(q, i)
    PROVE  Inv'
<1>0. TypeOK
  BY DEF Inv
<1>1. CASE CreateDevice(q, i)
  <2>1. PICK rec \in DeviceRow :
           /\ ~rec.invalid
           /\ device' = [device EXCEPT ![i] = rec]
    <3>1. request[q] \in RequestRecord
      BY <1>0, <1>1 DEF TypeOK, CreateDevice
    <3> DEFINE rec == [user |-> request[q].user, token |-> request[q].token,
                       enabled |-> TRUE, invalid |-> FALSE, status |-> None]
    <3>2. rec \in DeviceRow /\ ~rec.invalid
      BY <3>1 DEF RequestRecord, DeviceRow
    <3> QED
      BY <1>1, <3>2 DEF CreateDevice
  <2>2. TypeOK'
    BY <1>0, <1>1, <2>1 DEF TypeOK, CreateDevice
  <2>3. InvalidTokensWereReported'
    BY <1>0, <1>1, <2>1 DEF Inv, TypeOK, CreateDevice, InvalidTokensWereReported, Exists
  <2>4. MarksAreOfTheToken'
    \* The new row was None: no processor had found it.
    <3>1. \A j \in Jobs : job[j].device \in Ids => job[j].device # i
      BY <1>1, PushConstants DEF Inv, CreateDevice, MarksAreOfTheToken, Exists
    <3> QED
      BY <1>0, <1>1, <2>1, <3>1 DEF Inv, TypeOK, CreateDevice, MarksAreOfTheToken, Exists
  <2> QED
    BY <1>1, <2>2, <2>3, <2>4 DEF Inv, CreateDevice, FreeJobsAreBlank, SendsAreCounted
<1>2. CASE UpdateByToken(q, i)
  <2>1. device[i] \in DeviceRow
    BY <1>0, <1>2, ExistingRow DEF UpdateByToken, FindByToken
  <2>2. /\ device' \in [Ids -> DeviceRow \union {None, Gone}]
        /\ device'[i] \in DeviceRow
        /\ device'[i].token = device[i].token
        /\ device'[i].invalid = device[i].invalid
        /\ \A k \in Ids \ {i} : device'[k] = device[k]
    BY <1>0, <1>2, <2>1 DEF TypeOK, UpdateByToken, DeviceRow
  <2>3. TypeOK'
    BY <1>0, <1>2, <2>2 DEF TypeOK, UpdateByToken
  <2>4. \A k \in Ids :
           /\ device'[k] \in {None, Gone} <=> device[k] \in {None, Gone}
           /\ device'[k] = Gone <=> device[k] = Gone
           /\ device[k] \notin {None, Gone} =>
                 /\ device'[k].token = device[k].token
                 /\ device'[k].invalid = device[k].invalid
    BY <1>2, <2>1, <2>2, RowsAreRows DEF UpdateByToken, FindByToken, Exists
  <2>5. UNCHANGED <<dead, job, sends>>
    BY <1>2 DEF UpdateByToken
  <2>6. InvalidTokensWereReported'
    BY <2>4, <2>5 DEF Inv, InvalidTokensWereReported, Exists
  <2>7. MarksAreOfTheToken'
    BY <2>4, <2>5 DEF Inv, MarksAreOfTheToken, Exists
  <2> QED
    BY <2>3, <2>5, <2>6, <2>7 DEF Inv, FreeJobsAreBlank, SendsAreCounted
<1> QED
  BY <1>1, <1>2

-----------------------------------------------------------------------------
(* Each step of a job                                                       *)

\* What a job does to the rows: it never takes a token away, nor marks one that FCM
\* knows.
KeepsTokens ==
    /\ device' \in [Ids -> DeviceRow \union {None, Gone}]
    /\ \A i \in Ids :
          /\ device'[i] = None <=> device[i] = None
          /\ device'[i] = Gone <=> device[i] = Gone
          /\ Exists(i) =>
                /\ device'[i].token = device[i].token
                /\ device'[i].invalid => device[i].invalid \/ device[i].token \in dead

\* A step of one job keeps the invariant if what it leaves of the job does.
LEMMA JobStep ==
    ASSUME Inv, NEW j \in Jobs, NEW rec \in JobRecord, NEW n \in Nat,
           job' = [job EXCEPT ![j] = rec],
           sends' = [sends EXCEPT ![j] = n],
           KeepsTokens,
           UNCHANGED <<dead, request>>,
           rec.pc # "free",
           n <= rec.attempts + rec.stalls
                + IF rec.pc \in {"sent", "error", "done"} THEN 1 ELSE 0,
           rec.pc = "invalid" => rec.token \in dead /\ rec.device \in Ids,
           rec.device \in Ids =>
               \/ device[rec.device] = Gone
               \/ Exists(rec.device) /\ device[rec.device].token = rec.token
    PROVE  Inv'
<1>1. TypeOK /\ TypeOK'
  BY DEF Inv, TypeOK, KeepsTokens
<1>2. \A k \in Jobs :
         /\ job'[k] = IF k = j THEN rec ELSE job[k]
         /\ sends'[k] = IF k = j THEN n ELSE sends[k]
  BY <1>1 DEF TypeOK
<1>3. FreeJobsAreBlank' /\ SendsAreCounted'
  BY <1>2 DEF Inv, FreeJobsAreBlank, SendsAreCounted
<1>4. InvalidTokensWereReported'
  BY DEF Inv, InvalidTokensWereReported, Exists, KeepsTokens
<1>5. MarksAreOfTheToken'
  BY <1>2 DEF Inv, MarksAreOfTheToken, Exists, KeepsTokens
<1> QED
  BY <1>1, <1>3, <1>4, <1>5 DEF Inv

\* A step that changes no row takes no token away.
LEMMA SameRows == TypeOK /\ UNCHANGED device => KeepsTokens
  BY DEF TypeOK, KeepsTokens

\* Nor does updateDeliveryStatus.
LEMMA StatusKeepsTokens ==
    ASSUME TypeOK, NEW i \in Ids, Exists(i),
           NEW s \in {"success", "failed"}, device' = WithStatus(i, s)
    PROVE  KeepsTokens
  BY WithStatusIs, RowsAreRows DEF TypeOK, Exists, KeepsTokens

\* What holds of a job before the step.
LEMMA JobFacts ==
    ASSUME Inv, NEW j \in Jobs
    PROVE  /\ job[j] \in JobRecord
           /\ sends[j] \in Nat
           /\ sends = [sends EXCEPT ![j] = sends[j]]
           /\ sends[j] <= job[j].attempts + job[j].stalls
                          + IF job[j].pc \in {"sent", "error", "done"} THEN 1 ELSE 0
           /\ job[j].attempts \in Nat
           /\ job[j].stalls \in Nat
           /\ job[j].device \in Ids =>
                 \/ device[job[j].device] = Gone
                 \/ Exists(job[j].device) /\ device[job[j].device].token = job[j].token
  BY DEF Inv, TypeOK, JobRecord, SendsAreCounted, MarksAreOfTheToken

\* The attempt that failed pays for the send that may have come before it.
LEMMA AfterAttemptStep ==
    ASSUME Inv, NEW j \in Jobs,
           job' = [job EXCEPT ![j] = AfterAttempt(j)],
           KeepsTokens,
           UNCHANGED <<dead, request, sends>>
    PROVE  Inv'
<1>1. TypeOK
  BY DEF Inv
<1>2. AfterAttempt(j).pc \in {"waiting", "done"} /\ AfterAttempt(j).stalls \in Nat
  BY <1>1, AfterAttemptIs DEF JobRecord
<1>3. sends[j] <= AfterAttempt(j).attempts + AfterAttempt(j).stalls
                  + IF AfterAttempt(j).pc \in {"sent", "error", "done"} THEN 1 ELSE 0
  BY <1>1, JobFacts, AfterAttemptIs
<1>4. AfterAttempt(j).device \in Ids =>
          \/ device[AfterAttempt(j).device] = Gone
          \/ /\ Exists(AfterAttempt(j).device)
             /\ device[AfterAttempt(j).device].token = AfterAttempt(j).token
  BY <1>1, JobFacts, AfterAttemptIs, PushConstants
<1> QED
  BY <1>1, <1>2, <1>3, <1>4, AfterAttemptIs, JobFacts, JobStep

\* A step that moves a job on, and changes nothing else of it.
LEMMA PcStep ==
    ASSUME Inv, NEW j \in Jobs, NEW n \in Nat,
           NEW pc \in {"found", "sent", "invalid", "error", "done"},
           job' = [job EXCEPT ![j].pc = pc],
           sends' = [sends EXCEPT ![j] = n],
           KeepsTokens,
           UNCHANGED <<dead, request>>,
           n <= job[j].attempts + job[j].stalls
                + IF pc \in {"sent", "error", "done"} THEN 1 ELSE 0,
           pc = "invalid" => job[j].token \in dead /\ job[j].device \in Ids
    PROVE  Inv'
<1> DEFINE rec == [job[j] EXCEPT !.pc = pc]
<1>0. job[j] \in JobRecord
  BY JobFacts
<1>1. rec \in JobRecord /\ job' = [job EXCEPT ![j] = rec]
  BY <1>0 DEF JobRecord
<1>2. /\ rec.pc = pc /\ rec.device = job[j].device /\ rec.token = job[j].token
      /\ rec.attempts = job[j].attempts /\ rec.stalls = job[j].stalls
  BY <1>0 DEF JobRecord
<1> HIDE DEF rec
<1>3. rec.pc # "free" /\ (rec.pc = "invalid" => rec.token \in dead /\ rec.device \in Ids)
  BY <1>2
<1>4. n <= rec.attempts + rec.stalls
           + IF rec.pc \in {"sent", "error", "done"} THEN 1 ELSE 0
  BY <1>2
<1>5. rec.device \in Ids =>
          \/ device[rec.device] = Gone
          \/ Exists(rec.device) /\ device[rec.device].token = rec.token
  BY <1>2, JobFacts
<1> QED
  BY <1>1, <1>3, <1>4, <1>5, JobStep

\* The steps of a job up to what FCM answers.
LEMMA SendStep ==
    ASSUME Inv, NEW j \in Jobs,
           FindDevice(j) \/ Accepted(j) \/ ReportedInvalid(j) \/ SendFails(j)
    PROVE  Inv'
<1>0. TypeOK /\ job[j] \in JobRecord /\ sends[j] \in Nat
  BY JobFacts DEF Inv
<1>1. CASE FindDevice(j)
  <2>1. PICK d \in Ids \union {None} :
           /\ job' = [job EXCEPT ![j].pc = "found", ![j].device = d]
           /\ d \in Ids => Exists(d) /\ device[d].token = job[j].token
    BY <1>1, PushConstants DEF FindDevice, FindByToken
  <2> DEFINE rec == [job[j] EXCEPT !.pc = "found", !.device = d]
  <2>2. rec \in JobRecord /\ job' = [job EXCEPT ![j] = rec]
    BY <1>0, <2>1 DEF JobRecord, TypeOK
  <2>3. /\ rec.pc = "found" /\ rec.device = d /\ rec.token = job[j].token
        /\ rec.attempts = job[j].attempts /\ rec.stalls = job[j].stalls
    BY <1>0 DEF JobRecord
  <2> HIDE DEF rec
  <2>4. sends[j] <= job[j].attempts + job[j].stalls
    BY <1>1, JobFacts DEF FindDevice
  <2>5. sends[j] <= rec.attempts + rec.stalls
                    + IF rec.pc \in {"sent", "error", "done"} THEN 1 ELSE 0
    BY <2>3, <2>4, JobFacts
  <2>6. /\ KeepsTokens
        /\ UNCHANGED <<dead, request>>
        /\ sends' = [sends EXCEPT ![j] = sends[j]]
    BY <1>0, <1>1, SameRows, JobFacts DEF FindDevice
  <2>7. /\ rec.pc # "free" /\ rec.pc # "invalid"
        /\ rec.device \in Ids =>
              Exists(rec.device) /\ device[rec.device].token = rec.token
    BY <2>1, <2>3
  <2> QED
    BY <1>0, <2>2, <2>5, <2>6, <2>7, JobStep
<1>2. CASE Accepted(j)
  <2>1. /\ KeepsTokens
        /\ UNCHANGED <<dead, request>>
        /\ sends' = [sends EXCEPT ![j] = sends[j] + 1]
        /\ job' = [job EXCEPT ![j].pc = "sent"]
    BY <1>0, <1>2, SameRows DEF Accepted
  <2>2. sends[j] + 1 \in Nat /\ sends[j] + 1 <= job[j].attempts + job[j].stalls + 1
    BY <1>2, JobFacts DEF Accepted
  <2> QED
    BY <2>1, <2>2, PcStep
<1>3. CASE ReportedInvalid(j) /\ job[j].device = None
  <2>1. /\ KeepsTokens
        /\ UNCHANGED <<dead, request, sends>>
        /\ job' = [job EXCEPT ![j] = AfterAttempt(j)]
    BY <1>0, <1>3, SameRows DEF ReportedInvalid, TypeOK
  <2> QED
    BY <2>1, AfterAttemptStep
<1>4. CASE ReportedInvalid(j) /\ job[j].device # None
  <2>1. /\ KeepsTokens
        /\ UNCHANGED <<dead, request>>
        /\ sends' = [sends EXCEPT ![j] = sends[j]]
        /\ job' = [job EXCEPT ![j].pc = "invalid"]
    BY <1>0, <1>4, SameRows, JobFacts DEF ReportedInvalid, TypeOK
  <2>2. sends[j] <= job[j].attempts + job[j].stalls
    BY <1>4, JobFacts DEF ReportedInvalid
  <2>3. job[j].token \in dead /\ job[j].device \in Ids
    BY <1>0, <1>4 DEF ReportedInvalid, JobRecord
  <2>4. sends[j] <= job[j].attempts + job[j].stalls
                    + IF "invalid" \in {"sent", "error", "done"} THEN 1 ELSE 0
    BY <2>2, JobFacts
  <2> QED
    BY <1>0, <2>1, <2>3, <2>4, PcStep
<1>5. CASE SendFails(j)
  <2>1. /\ KeepsTokens
        /\ UNCHANGED <<dead, request>>
        /\ sends' = [sends EXCEPT ![j] = sends[j]]
        /\ job' = [job EXCEPT ![j].pc = "error"]
    BY <1>0, <1>5, SameRows, JobFacts DEF SendFails
  <2>2. sends[j] <= job[j].attempts + job[j].stalls + 1
    BY <1>5, JobFacts DEF SendFails
  <2> QED
    BY <1>0, <2>1, <2>2, PcStep
<1> QED
  BY <1>1, <1>2, <1>3, <1>4, <1>5

\* The steps of a job that record what FCM answered.
LEMMA RecordStep ==
    ASSUME Inv, NEW j \in Jobs,
           \/ RecordSuccess(j) \/ RecordSuccessThrows(j)
           \/ MarkTokenInvalid(j) \/ MarkTokenInvalidThrows(j)
           \/ RecordFailure(j)
    PROVE  Inv'
<1>0. TypeOK /\ job[j] \in JobRecord /\ sends[j] \in Nat
  BY JobFacts DEF Inv
<1>b. sends[j] <= job[j].attempts + job[j].stalls + 1
  BY JobFacts
<1>1. CASE RecordSuccess(j)
  <2>1. KeepsTokens
    <3>1. CASE job[j].device = None
      BY <1>0, <1>1, <3>1, SameRows DEF RecordSuccess
    <3>2. CASE job[j].device # None
      <4>1. job[j].device \in Ids
        BY <1>0, <3>2 DEF JobRecord
      <4> QED
        BY <1>0, <1>1, <3>2, <4>1, StatusKeepsTokens DEF RecordSuccess
    <3> QED
      BY <3>1, <3>2
  <2>2. /\ UNCHANGED <<dead, request>>
        /\ sends' = [sends EXCEPT ![j] = sends[j]]
        /\ job' = [job EXCEPT ![j].pc = "done"]
    BY <1>1, JobFacts DEF RecordSuccess
  <2> QED
    BY <1>0, <1>b, <2>1, <2>2, PcStep
<1>2. CASE RecordSuccessThrows(j)
  <2>1. /\ KeepsTokens
        /\ UNCHANGED <<dead, request>>
        /\ sends' = [sends EXCEPT ![j] = sends[j]]
        /\ job' = [job EXCEPT ![j].pc = "error"]
    BY <1>0, <1>2, SameRows, JobFacts DEF RecordSuccessThrows
  <2> QED
    BY <1>0, <1>b, <2>1, PcStep
<1>3. CASE MarkTokenInvalid(j)
  \* The row found before the send still has the token that FCM refused.
  <2> DEFINE i == job[j].device
  <2>1. i \in Ids /\ Exists(i) /\ device[i].token \in dead
    <3>1. i \in Ids /\ Exists(i) /\ job[j].token \in dead
      BY <1>3 DEF Inv, MarkTokenInvalid, MarksAreOfTheToken
    <3>2. device[i].token = job[j].token
      BY <3>1, JobFacts DEF Exists
    <3> QED
      BY <3>1, <3>2
  <2>2. device[i] \in DeviceRow
    BY <1>0, <2>1, ExistingRow
  <2> HIDE DEF i
  <2>3. device' = [device EXCEPT ![i].invalid = TRUE, ![i].enabled = FALSE]
    BY <1>3 DEF MarkTokenInvalid, i
  <2>4. /\ device' \in [Ids -> DeviceRow \union {None, Gone}]
        /\ device'[i] \in DeviceRow
        /\ device'[i].token = device[i].token
        /\ \A k \in Ids \ {i} : device'[k] = device[k]
    BY <1>0, <2>1, <2>2, <2>3 DEF TypeOK, DeviceRow
  <2>5. KeepsTokens
    BY <2>1, <2>2, <2>4, RowsAreRows DEF KeepsTokens, Exists
  <2>6. /\ UNCHANGED <<dead, request>>
        /\ sends' = [sends EXCEPT ![j] = sends[j]]
        /\ job' = [job EXCEPT ![j].pc = "done"]
    BY <1>3, JobFacts DEF MarkTokenInvalid
  <2> QED
    BY <1>0, <1>b, <2>5, <2>6, PcStep
<1>4. CASE MarkTokenInvalidThrows(j)
  BY <1>0, <1>4, SameRows, AfterAttemptStep DEF MarkTokenInvalidThrows
<1>5. CASE RecordFailure(j)
  <2>1. KeepsTokens
    BY <1>0, <1>5, SameRows, StatusKeepsTokens DEF RecordFailure
  <2> QED
    BY <1>5, <2>1, AfterAttemptStep DEF RecordFailure
<1> QED
  BY <1>1, <1>2, <1>3, <1>4, <1>5

\* A stall pays for the send that may have come before it, as an attempt does.
LEMMA CrashStep ==
    ASSUME Inv, NEW j \in Jobs, CrashAndStall(j)
    PROVE  Inv'
<1>0. TypeOK /\ job[j] \in JobRecord /\ sends[j] \in Nat
  BY JobFacts DEF Inv
<1>1. /\ KeepsTokens
      /\ UNCHANGED <<dead, request>>
      /\ sends' = [sends EXCEPT ![j] = sends[j]]
  BY <1>0, SameRows, JobFacts DEF CrashAndStall
<1>2. sends[j] <= job[j].attempts + job[j].stalls + 1
  BY JobFacts
<1>3. CASE job[j].stalls < MaxStalls
  <2> DEFINE rec == [job[j] EXCEPT !.pc = "waiting", !.device = None, !.stalls = @ + 1]
  <2>1. rec \in JobRecord /\ job' = [job EXCEPT ![j] = rec]
    <3>1. job[j].stalls + 1 \in 0..MaxStalls
      BY <1>0, <1>3, PushConstants DEF JobRecord
    <3>2. job' = [job EXCEPT ![j] = rec]
      BY <1>0, <1>3 DEF CrashAndStall, TypeOK
    <3> QED
      BY <1>0, <1>3, <3>1, <3>2 DEF JobRecord
  <2>2. /\ rec.pc = "waiting" /\ rec.device = None
        /\ rec.attempts = job[j].attempts /\ rec.stalls = job[j].stalls + 1
    BY <1>0 DEF JobRecord
  <2> HIDE DEF rec
  <2>3. sends[j] <= rec.attempts + rec.stalls
                    + IF rec.pc \in {"sent", "error", "done"} THEN 1 ELSE 0
    BY <1>2, <2>2, JobFacts
  <2>4. rec.pc # "free" /\ rec.pc # "invalid" /\ rec.device \notin Ids
    BY <2>2, PushConstants
  <2> QED
    BY <1>0, <1>1, <2>1, <2>3, <2>4, JobStep
<1>4. CASE ~(job[j].stalls < MaxStalls)
  <2>1. job' = [job EXCEPT ![j].pc = "done"]
    BY <1>4 DEF CrashAndStall
  <2> QED
    BY <1>0, <1>1, <1>2, <2>1, PcStep
<1> QED
  BY <1>3, <1>4

\* A job is queued with no device and no send of its own.
LEMMA QueueStep ==
    ASSUME Inv, NEW i \in Ids, NEW j \in Jobs, QueuePush(i, j)
    PROVE  Inv'
<1>0. TypeOK /\ job[j] \in JobRecord /\ device[i] \in DeviceRow
  BY JobFacts, ExistingRow DEF Inv, QueuePush
<1> DEFINE rec == [job[j] EXCEPT !.pc = "waiting", !.token = device[i].token]
<1>1. rec \in JobRecord /\ job' = [job EXCEPT ![j] = rec]
  BY <1>0 DEF QueuePush, TypeOK, JobRecord, DeviceRow
<1>2. /\ rec.pc = "waiting" /\ rec.device = None
      /\ rec.attempts = job[j].attempts /\ rec.stalls = job[j].stalls
  BY <1>0 DEF Inv, QueuePush, FreeJobsAreBlank, JobRecord
<1> HIDE DEF rec
<1>3. /\ KeepsTokens
      /\ UNCHANGED <<dead, request>>
      /\ sends' = [sends EXCEPT ![j] = sends[j]]
  BY <1>0, SameRows, JobFacts DEF QueuePush
<1>4. sends[j] <= job[j].attempts + job[j].stalls
  BY JobFacts DEF QueuePush
<1>5. sends[j] <= rec.attempts + rec.stalls
                  + IF rec.pc \in {"sent", "error", "done"} THEN 1 ELSE 0
  BY <1>2, <1>4, JobFacts
<1>6. rec.pc # "free" /\ rec.pc # "invalid" /\ rec.device \notin Ids
  BY <1>2, PushConstants
<1> QED
  BY <1>1, <1>3, <1>5, <1>6, JobStep, JobFacts

-----------------------------------------------------------------------------
(* The specification                                                        *)

\* Every step keeps the invariant: those of DevicesService, of the queue, of the
\* processor, of FCM and of a crash.
THEOREM InvStep == Inv /\ [Next]_vars => Inv'
<1> SUFFICES ASSUME Inv, [Next]_vars PROVE Inv'
  OBVIOUS
<1>1. CASE \E q \in Requests :
              \/ \E u \in Users, t \in Tokens : ValidateRegister(q, u, t)
              \/ \E i \in Ids : CreateDevice(q, i) \/ UpdateByToken(q, i)
              \/ RegisterFails(q)
  <2>1. PICK q \in Requests :
              \/ \E u \in Users, t \in Tokens : ValidateRegister(q, u, t)
              \/ \E i \in Ids : CreateDevice(q, i) \/ UpdateByToken(q, i)
              \/ RegisterFails(q)
    BY <1>1
  <2>2. CASE \E i \in Ids : CreateDevice(q, i) \/ UpdateByToken(q, i)
    BY <2>2, DevicesStep
  <2>3. CASE (\E u \in Users, t \in Tokens : ValidateRegister(q, u, t)) \/ RegisterFails(q)
    BY <2>3, RequestStep
  <2> QED
    BY <2>1, <2>2, <2>3
<1>2. CASE \E i \in Ids : Unregister(i)
  BY <1>2, UnregisterStep
<1>3. CASE \E t \in Tokens : TokenDies(t)
  BY <1>3 DEF Inv, TypeOK, TokenDies, FreeJobsAreBlank, SendsAreCounted,
              InvalidTokensWereReported, MarksAreOfTheToken, Exists
<1>4. CASE \E i \in Ids, j \in Jobs : QueuePush(i, j)
  BY <1>4, QueueStep
<1>5. CASE \E j \in Jobs : Process(j) \/ CrashAndStall(j)
  BY <1>5, SendStep, RecordStep, CrashStep DEF Process
<1>6. CASE UNCHANGED vars
  BY <1>6 DEF vars, Inv, TypeOK, FreeJobsAreBlank, SendsAreCounted,
              InvalidTokensWereReported, MarksAreOfTheToken, Exists
<1> QED
  BY <1>1, <1>2, <1>3, <1>4, <1>5, <1>6 DEF Next

\* The invariant holds of every reachable state.
THEOREM Invariance == Spec => []Inv
<1> QED
  BY InitInv, InvStep, PTL DEF Spec

\* Every row, job and registration has its type.
THEOREM TypeCorrect == Spec => []TypeOK
<1>1. Inv => TypeOK
  BY DEF Inv
<1> QED
  BY <1>1, Invariance, PTL

\* FCM is never sent a push more often than its attempts and stalls allow together,
\* whatever fails or crashes in between.
THEOREM SendsStayBounded == Spec => []SendsAreBounded
<1>1. Inv => SendsAreBounded
  <2> SUFFICES ASSUME Inv, NEW j \in Jobs PROVE sends[j] <= MaxAttempts + MaxStalls
    BY DEF SendsAreBounded
  <2>1. /\ sends[j] \in Nat
        /\ sends[j] <= job[j].attempts + job[j].stalls + 1
        /\ job[j].attempts \in 0..MaxAttempts-1 /\ job[j].stalls \in 0..MaxStalls
    BY JobFacts DEF JobRecord
  <2> QED
    BY <2>1, PushConstants
<1> QED
  BY <1>1, Invariance, PTL

\* The processor never marks a row whose token FCM did not refuse, though the row was
\* read before the send and may have been deleted and registered anew meanwhile.
THEOREM InvalidTokensAreReported == Spec => []InvalidTokensWereReported
<1>1. Inv => InvalidTokensWereReported
  BY DEF Inv
<1> QED
  BY <1>1, Invariance, PTL

=============================================================================
