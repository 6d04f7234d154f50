--------------------------- MODULE CheckoutLedger ---------------------------
(***************************************************************************)
(* What the checkout path promises, without queue, crons, retries or       *)
(* processes: a session is opened, finished at Stripe, and then granted in *)
(* one step, or it expires or is rejected.  StripeCheckout implements it.  *)
(***************************************************************************)

CONSTANTS Sessions, Users, Owner, Plans, PlanOf, FreePlan, Rows, None

VARIABLES
    status,    \* of each session
    outcome,   \* at Stripe: "sold" with a subscription, "unsold" without one
    grant      \* of each row: whose it is, which plan, bought by which session

vars == <<status, outcome, grant>>

Granted == [user : Users, plan : Plans, link : Sessions \union {None}]

Init ==
    /\ status = [s \in Sessions |-> "NONE"]
    /\ outcome = [s \in Sessions |-> "none"]
    /\ grant \in [Rows -> [user : Users, plan : {FreePlan}, link : {None}] \union {None}]

Open(s) ==
    /\ status[s] = "NONE"
    /\ status' = [status EXCEPT ![s] = "PENDING"]
    /\ UNCHANGED <<outcome, grant>>

Finish(s) ==
    /\ status[s] = "PENDING"
    /\ outcome[s] = "none"
    /\ \E o \in {"sold", "unsold"} : outcome' = [outcome EXCEPT ![s] = o]
    /\ UNCHANGED <<status, grant>>

\* Any number of PENDING sessions at once.
Expire(S) ==
    /\ \A s \in S : status[s] = "PENDING"
    /\ status' = [s \in Sessions |-> IF s \in S THEN "EXPIRED" ELSE status[s]]
    /\ UNCHANGED <<outcome, grant>>

Reject(s) ==
    /\ outcome[s] = "unsold"
    /\ status[s] \in {"PENDING", "EXPIRED", "FAILED"}
    /\ status' = [status EXCEPT ![s] = "FAILED"]
    /\ UNCHANGED <<outcome, grant>>

\* Into a new row or one of the same user, and no second row for the session.
Grant(s, r) ==
    /\ outcome[s] = "sold"
    /\ status[s] \in {"PENDING", "EXPIRED", "COMPLETED"}
    /\ grant[r] # None => grant[r].user = Owner[s]
    /\ \A q \in Rows \ {r} : grant[q] # None => grant[q].link # s
    /\ grant' = [grant EXCEPT ![r] = [user |-> Owner[s], plan |-> PlanOf[s], link |-> s]]
    /\ status' = [status EXCEPT ![s] = "COMPLETED"]
    /\ UNCHANGED outcome

Next ==
    \/ \E s \in Sessions : Open(s) \/ Finish(s) \/ Reject(s)
    \/ \E S \in SUBSET Sessions : Expire(S)
    \/ \E s \in Sessions, r \in Rows : Grant(s, r)

Spec == Init /\ [][Next]_vars

=============================================================================
