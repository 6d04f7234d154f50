---------------------------- MODULE PushDelivery ----------------------------
(***************************************************************************)
(* Push notifications: DevicesService registers the tokens of devices,     *)
(* PushService queues a job for each enabled device of a user, and         *)
(* PushNotificationProcessor sends it through FCM and records in the       *)
(* device's row what came of it.                                           *)
(*                                                                         *)
(* A job is processed by one process at a time: one that loses its lock to *)
(* another (see module StripeCheckout) is taken to have stopped there.     *)
(***************************************************************************)
EXTENDS Naturals

CONSTANTS
    Users,
    Tokens,       \* FCM tokens
    Ids,          \* ids of table devices; an id is never used again
    Jobs,         \* jobs of the push queue
    Requests,     \* registrations that can be in progress at once
    MaxAttempts,  \* config.queue.jobRetryAttempts
    MaxStalls,    \* config.bullSettings.maxStalledCount
    Gone,         \* a deleted row
    None

ASSUME PushConstants ==
    /\ MaxAttempts \in Nat \ {0}
    /\ MaxStalls \in Nat
    /\ None # Gone
    /\ {None, Gone} \intersect (Users \union Ids \union Tokens) = {}

VARIABLES
    device,   \* table devices
    dead,     \* tokens FCM no longer knows
    job,      \* the push queue, with the processor of each job
    request,  \* requests inside DevicesService.registerDevice
    sends     \* history variable: how often FCM accepted each job

vars == <<device, dead, job, request, sends>>

-----------------------------------------------------------------------------

DeviceRow ==
    [user : Users, token : Tokens, enabled : BOOLEAN, invalid : BOOLEAN,
     status : {None, "success", "failed"}]

ASSUME RowsAreRows == {None, Gone} \intersect DeviceRow = {}

\* A job is waiting, or its processor has found the device, or knows what FCM said.
\* A job that is done was completed or failed for good.
JobRecord ==
    [pc : {"free", "waiting", "found", "sent", "invalid", "error", "done"},
     token : Tokens \union {None}, device : Ids \union {None},
     attempts : 0..MaxAttempts-1, stalls : 0..MaxStalls]

FreeJob == [pc |-> "free", token |-> None, device |-> None, attempts |-> 0, stalls |-> 0]

\* device is the one the token had when the registration was validated.
RequestRecord ==
    [user : Users, token : Tokens, device : Ids \union {None}]

TypeOK ==
    /\ device \in [Ids -> DeviceRow \union {None, Gone}]
    /\ dead \subseteq Tokens
    /\ job \in [Jobs -> JobRecord]
    /\ request \in [Requests -> RequestRecord \union {None}]
    /\ sends \in [Jobs -> Nat]

Init ==
    /\ device = [i \in Ids |-> None]
    /\ dead = {}
    /\ job = [j \in Jobs |-> FreeJob]
    /\ request = [q \in Requests |-> None]
    /\ sends = [j \in Jobs |-> 0]

Exists(i) == device[i] \notin {None, Gone}

FindByToken(i, t) == Exists(i) /\ device[i].token = t

Unused(t) == \A i \in Ids : ~FindByToken(i, t)

-----------------------------------------------------------------------------
(* DevicesService                                                           *)

\* A token that is another user's is refused.
ValidateRegister(q, u, t) ==
    /\ request[q] = None
    /\ \/ \E i \in Ids :
             /\ FindByToken(i, t)
             /\ device[i].user = u
             /\ request' = [request EXCEPT ![q] = [user |-> u, token |-> t, device |-> i]]
       \/ /\ Unused(t)
          /\ request' = [request EXCEPT ![q] = [user |-> u, token |-> t, device |-> None]]
    /\ UNCHANGED <<device, dead, job, sends>>

CreateDevice(q, i) ==
    /\ request[q] # None
    /\ request[q].device = None
    /\ Unused(request[q].token)
    /\ device[i] = None
    /\ device' = [device EXCEPT ![i] =
          [user |-> request[q].user, token |-> request[q].token,
           enabled |-> TRUE, invalid |-> FALSE, status |-> None]]
    /\ request' = [request EXCEPT ![q] = None]
    /\ UNCHANGED <<dead, job, sends>>

\* updateByToken: whichever row has the token by now is enabled; isInvalidToken is
\* left as it is.
UpdateByToken(q, i) ==
    /\ request[q] # None
    /\ request[q].device # None
    /\ FindByToken(i, request[q].token)
    /\ device' = [device EXCEPT ![i].enabled = TRUE]
    /\ request' = [request EXCEPT ![q] = None]
    /\ UNCHANGED <<dead, job, sends>>

\* The unique key or a missing row refuses the write, or the database throws.
RegisterFails(q) ==
    /\ request[q] # None
    /\ request' = [request EXCEPT ![q] = None]
    /\ UNCHANGED <<device, dead, job, sends>>

\* deleteMany asks again for what validateUnregisterDevice asked.
Unregister(i) ==
    /\ Exists(i)
    /\ device' = [device EXCEPT ![i] = Gone]
    /\ UNCHANGED <<dead, job, request, sends>>

\* The app is deleted, or FCM gives the device another token.
TokenDies(t) ==
    /\ dead' = dead \union {t}
    /\ UNCHANGED <<device, job, request, sends>>

-----------------------------------------------------------------------------
(* PushService and PushNotificationProcessor                                *)

\* findByUser lists the enabled devices; the job gets the token alone.
QueuePush(i, j) ==
    /\ Exists(i)
    /\ device[i].enabled
    /\ job[j].pc = "free"
    /\ job' = [job EXCEPT ![j].pc = "waiting", ![j].token = device[i].token]
    /\ UNCHANGED <<device, dead, request, sends>>

FindDevice(j) ==
    LET t == job[j].token
    IN  /\ job[j].pc = "waiting"
        /\ \/ \E i \in Ids :
                 /\ FindByToken(i, t)
                 /\ job' = [job EXCEPT ![j].pc = "found", ![j].device = i]
           \/ /\ Unused(t)
              /\ job' = [job EXCEPT ![j].pc = "found", ![j].device = None]
        /\ UNCHANGED <<device, dead, request, sends>>

\* Mutation of AfterAttempt: the attempt is not counted.
AfterAttemptUncounted(j) == [job[j] EXCEPT !.pc = "waiting", !.device = None]

\* The handler throws: Bull tries again, or gives the job up.
AfterAttempt(j) ==
    IF job[j].attempts + 1 < MaxAttempts
    THEN [job[j] EXCEPT !.pc = "waiting", !.device = None, !.attempts = @ + 1]
    ELSE [job[j] EXCEPT !.pc = "done"]

Accepted(j) ==
    /\ job[j].pc = "found"
    /\ job[j].token \notin dead
    /\ sends' = [sends EXCEPT ![j] = @ + 1]
    /\ job' = [job EXCEPT ![j].pc = "sent"]
    /\ UNCHANGED <<device, dead, request>>

\* FCM answers with one of invalidTokenCodes.  The processor only looks for them
\* when it has a device: without one this is an error as any other.
ReportedInvalid(j) ==
    /\ job[j].pc = "found"
    /\ job[j].token \in dead
    /\ job' = [job EXCEPT ![j] =
          IF @.device # None THEN [@ EXCEPT !.pc = "invalid"] ELSE AfterAttempt(j)]
    /\ UNCHANGED <<device, dead, request, sends>>

\* Mutation of SendFails: every error counts as an invalid token.
SendFailsInvalid(j) ==
    /\ job[j].pc = "found"
    /\ job' = [job EXCEPT ![j].pc = IF job[j].device = None THEN "error" ELSE "invalid"]
    /\ UNCHANGED <<device, dead, request, sends>>

SendFails(j) ==
    /\ job[j].pc = "found"
    /\ job' = [job EXCEPT ![j].pc = "error"]
    /\ UNCHANGED <<device, dead, request, sends>>

\* Mutation of WithStatus: the row is given up along with its token.
WithStatusNull(i, s) == [device EXCEPT ![i].token = None]

\* updateDeliveryStatus.
WithStatus(i, s) == [device EXCEPT ![i].status = s]

RecordSuccess(j) ==
    LET i == job[j].device
    IN  /\ job[j].pc = "sent"
        /\ i # None => Exists(i)
        /\ device' = IF i = None THEN device ELSE WithStatus(i, "success")
        /\ job' = [job EXCEPT ![j].pc = "done"]
        /\ UNCHANGED <<dead, request, sends>>

\* The row is gone, or the database throws, within the try: the push that was sent
\* is handled as an error.
RecordSuccessThrows(j) ==
    /\ job[j].pc = "sent"
    /\ job[j].device # None
    /\ job' = [job EXCEPT ![j].pc = "error"]
    /\ UNCHANGED <<device, dead, request, sends>>

MarkTokenInvalid(j) ==
    LET i == job[j].device
    IN  /\ job[j].pc = "invalid"
        /\ Exists(i)
        /\ device' = [device EXCEPT ![i].invalid = TRUE, ![i].enabled = FALSE]
        /\ job' = [job EXCEPT ![j].pc = "done"]
        /\ UNCHANGED <<dead, request, sends>>

MarkTokenInvalidThrows(j) ==
    /\ job[j].pc = "invalid"
    /\ job' = [job EXCEPT ![j] = AfterAttempt(j)]
    /\ UNCHANGED <<device, dead, request, sends>>

\* The error is thrown on whether its status was recorded or not.
RecordFailure(j) ==
    LET i == job[j].device
    IN  /\ job[j].pc = "error"
        /\ \/ i \in Ids /\ Exists(i) /\ device' = WithStatus(i, "failed")
           \/ UNCHANGED device
        /\ job' = [job EXCEPT ![j] = AfterAttempt(j)]
        /\ UNCHANGED <<dead, request, sends>>

Processed(j) == job[j].pc \in {"found", "sent", "invalid", "error"}

\* The process dies; Bull finds the job stalled.
CrashAndStall(j) ==
    /\ Processed(j)
    /\ job' = IF job[j].stalls < MaxStalls
              THEN [job EXCEPT ![j].pc = "waiting", ![j].device = None, ![j].stalls = @ + 1]
              ELSE [job EXCEPT ![j].pc = "done"]
    /\ UNCHANGED <<device, dead, request, sends>>

-----------------------------------------------------------------------------

Process(j) ==
    \/ FindDevice(j)
    \/ Accepted(j) \/ ReportedInvalid(j) \/ SendFails(j)
    \/ RecordSuccess(j) \/ RecordSuccessThrows(j)
    \/ MarkTokenInvalid(j) \/ MarkTokenInvalidThrows(j)
    \/ RecordFailure(j)

Next ==
    \/ \E q \in Requests :
          \/ \E u \in Users, t \in Tokens : ValidateRegister(q, u, t)
          \/ \E i \in Ids : CreateDevice(q, i) \/ UpdateByToken(q, i)
          \/ RegisterFails(q)
    \/ \E i \in Ids : Unregister(i)
    \/ \E t \in Tokens : TokenDies(t)
    \/ \E i \in Ids, j \in Jobs : QueuePush(i, j)
    \/ \E j \in Jobs : Process(j) \/ CrashAndStall(j)

Spec == Init /\ [][Next]_vars

-----------------------------------------------------------------------------
(* Properties                                                               *)

\* A push is sent again after an error that followed it, or a crash: never more often
\* than attempts and stalls allow together.
SendsAreBounded == \A j \in Jobs : sends[j] <= MaxAttempts + MaxStalls

\* What makes it inductive: each send but the last used up an attempt or a stall.
SendsAreCounted ==
    \A j \in Jobs :
        sends[j] <= job[j].attempts + job[j].stalls
                    + IF job[j].pc \in {"sent", "error", "done"} THEN 1 ELSE 0

\* A token is held invalid only if FCM said so of it, though the processor marks the
\* row it found before it sent.
InvalidTokensWereReported == \A i \in Ids : Exists(i) /\ device[i].invalid => device[i].token \in dead

\* What makes it inductive: the row a processor is to mark is gone or has its token.
MarksAreOfTheToken ==
    \A j \in Jobs :
        /\ job[j].pc = "invalid" => job[j].token \in dead /\ job[j].device \in Ids
        /\ job[j].device \in Ids =>
              LET i == job[j].device
              IN  device[i] = Gone \/ (Exists(i) /\ device[i].token = job[j].token)

=============================================================================
