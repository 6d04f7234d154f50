---------------------------- MODULE QueueCleanup ----------------------------
(***************************************************************************)
(* QueueCleanupCron of one process: the hourly clean-up of old jobs, the   *)
(* monitoring that starts it early when Redis is nearly full, and the      *)
(* flags that keep a handler from running twice at once.  A flag is read   *)
(* and set with no await in between.  (handleStuckJobsCleanup has a flag   *)
(* of the same kind; what it does to a job is in StripeCheckout and        *)
(* MessageQueue.)                                                          *)
(***************************************************************************)
EXTENDS Naturals, FiniteSets

CONSTANTS
    Calls,        \* calls of a handler that can be in progress at once
    MaxFailures,  \* bounds how often Redis fails
    None

CleanupConstants ==
    /\ IsFiniteSet(Calls)
    /\ MaxFailures \in Nat

VARIABLES
    hourly,     \* isHourlyCleanupRunning
    monitoring, \* isMonitoringRunning
    call,       \* calls of handleHourlyCleanup and handleMonitoring
    memory,     \* what Redis uses
    old,        \* whether there are completed or failed jobs past their grace
    failures    \* how often Redis failed

flags == <<hourly, monitoring>>
vars == <<hourly, monitoring, call, memory, old, failures>>

-----------------------------------------------------------------------------

\* pc is where the call awaits; outer says whether it is handleMonitoring, and
\* inner whether it is in handleHourlyCleanup, of its own or called by the former.
CallRecord ==
    [outer : BOOLEAN, inner : BOOLEAN, pc : {"memory", "clean", "aggressive", "stats"}]

CallsAreCalls == None \notin CallRecord

TypeOK ==
    /\ hourly \in BOOLEAN
    /\ monitoring \in BOOLEAN
    /\ call \in [Calls -> CallRecord \union {None}]
    /\ memory \in {"normal", "critical"}
    /\ old \in BOOLEAN
    /\ failures \in 0..MaxFailures

Init ==
    /\ hourly = FALSE
    /\ monitoring = FALSE
    /\ call = [c \in Calls |-> None]
    /\ memory = "normal"
    /\ old = FALSE
    /\ failures = 0

Cleaning(c)   == call[c] # None /\ call[c].inner
Monitoring(c) == call[c] # None /\ call[c].outer

-----------------------------------------------------------------------------

\* Mutation of HandleHourlyCleanup: the flag is not asked.
HandleHourlyCleanupAnyway(c) ==
    /\ call[c] = None
    /\ hourly' = TRUE
    /\ call' = [call EXCEPT ![c] = [outer |-> FALSE, inner |-> TRUE, pc |-> "memory"]]
    /\ UNCHANGED <<monitoring, memory, old, failures>>

HandleHourlyCleanup(c) ==
    /\ call[c] = None
    /\ ~hourly
    /\ hourly' = TRUE
    /\ call' = [call EXCEPT ![c] = [outer |-> FALSE, inner |-> TRUE, pc |-> "memory"]]
    /\ UNCHANGED <<monitoring, memory, old, failures>>

HandleMonitoring(c) ==
    /\ call[c] = None
    /\ ~monitoring
    /\ monitoring' = TRUE
    /\ call' = [call EXCEPT ![c] = [outer |-> TRUE, inner |-> FALSE, pc |-> "memory"]]
    /\ UNCHANGED <<hourly, memory, old, failures>>

\* handleHourlyCleanup reads how full Redis is; a failed read counts as empty.
ReadMemory(c) ==
    /\ Cleaning(c)
    /\ call[c].pc = "memory"
    /\ \/ /\ call' = [call EXCEPT ![c].pc = IF memory = "critical" THEN "aggressive" ELSE "clean"]
          /\ failures' = failures
       \/ /\ failures < MaxFailures
          /\ failures' = failures + 1
          /\ call' = [call EXCEPT ![c].pc = "clean"]
    /\ UNCHANGED <<flags, memory, old>>

\* Mutation of Finally: the flag of the clean-up is left set by handleMonitoring.
FinallyOfTheTimer(c) ==
    /\ hourly' = (hourly /\ call[c].outer)
    /\ monitoring' = (monitoring /\ ~call[c].outer)
    /\ call' = [call EXCEPT ![c] = None]

\* Both finally blocks: handleMonitoring awaits nothing after the clean-up.
Finally(c) ==
    /\ hourly' = (hourly /\ ~call[c].inner)
    /\ monitoring' = (monitoring /\ ~call[c].outer)
    /\ call' = [call EXCEPT ![c] = None]

\* cleanAllQueues: with short grace times and the active jobs when Redis is nearly
\* full, which frees memory.  A queue that cannot be cleaned is passed over.
CleanAllQueues(c) ==
    /\ Cleaning(c)
    /\ call[c].pc \in {"clean", "aggressive"}
    /\ \/ old' = FALSE /\ failures' = failures
       \/ old' = old /\ failures < MaxFailures /\ failures' = failures + 1
    /\ memory' = IF call[c].pc = "aggressive" /\ failures' = failures THEN "normal" ELSE memory
    /\ Finally(c)

\* handleMonitoring reads how full Redis is, and the counts of the queues.
ReadStats(c) ==
    /\ Monitoring(c)
    /\ ~call[c].inner
    /\ call[c].pc = "memory"
    /\ \/ /\ call' = [call EXCEPT ![c].pc = IF memory = "critical" THEN "aggressive" ELSE "stats"]
          /\ failures' = failures
       \/ /\ failures < MaxFailures
          /\ failures' = failures + 1
          /\ call' = [call EXCEPT ![c].pc = "stats"]
    /\ UNCHANGED <<flags, memory, old>>

\* The clean-up is started unless one is running.
TriggerCleanup(c) ==
    /\ Monitoring(c)
    /\ ~call[c].inner
    /\ call[c].pc = "aggressive"
    /\ IF hourly
       THEN Finally(c)
       ELSE /\ hourly' = TRUE
            /\ call' = [call EXCEPT ![c].inner = TRUE, ![c].pc = "memory"]
            /\ monitoring' = monitoring
    /\ UNCHANGED <<memory, old, failures>>

EndMonitoring(c) ==
    /\ Monitoring(c)
    /\ ~call[c].inner
    /\ call[c].pc = "stats"
    /\ Finally(c)
    /\ UNCHANGED <<memory, old, failures>>

JobsGrowOld ==
    /\ ~old
    /\ old' = TRUE
    /\ UNCHANGED <<flags, call, memory, failures>>

RedisFillsUp ==
    /\ memory = "normal"
    /\ memory' = "critical"
    /\ UNCHANGED <<flags, call, old, failures>>

Step(c) ==
    \/ ReadMemory(c) \/ CleanAllQueues(c)
    \/ ReadStats(c) \/ TriggerCleanup(c) \/ EndMonitoring(c)

Next ==
    \/ \E c \in Calls : HandleHourlyCleanup(c) \/ HandleMonitoring(c) \/ Step(c)
    \/ JobsGrowOld
    \/ RedisFillsUp

Spec == Init /\ [][Next]_vars

-----------------------------------------------------------------------------
(* Properties                                                               *)

\* Started by its timer or by the monitoring, a clean-up never runs beside another,
\* and the flags say what is running: none is left set, or reset by the other.
OneCleanupAtATime ==
    /\ Cardinality({c \in Calls : Cleaning(c)}) = IF hourly THEN 1 ELSE 0
    /\ Cardinality({c \in Calls : Monitoring(c)}) = IF monitoring THEN 1 ELSE 0

\* "Prevents Redis memory growth": whatever fails now and then, and whichever timer
\* comes first, a Redis that is nearly full is cleaned aggressively, and old jobs are
\* removed.
MemoryIsReclaimed ==
    /\ memory = "critical" ~> memory = "normal"
    /\ old ~> ~old

=============================================================================
