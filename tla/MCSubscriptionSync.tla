------------------------- MODULE MCSubscriptionSync -------------------------
(* Small instances of SubscriptionSync: a row that two Stripe subscriptions  *)
(* of the user follow each other on, two webhook requests at a time.         *)
EXTENDS SubscriptionSync, FiniteSets, TLC

Symmetry == Permutations(Requests) \union Permutations(Subs)

\* refused is written and read by no action.
View == <<stripe, flagged, event, acked, handled, log, request, cancel, row, carried>>

\* Two requests at a time while one subscription is known to Stripe, one after that.
FewAtOnce ==
    \/ Cardinality({b \in Subs : stripe[b].status # "none"}) <= 1
    \/ Cardinality({q \in Requests : request[q] # IdleRequest}) <= 1

=============================================================================
