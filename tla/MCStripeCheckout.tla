-------------------------- MODULE MCStripeCheckout --------------------------
(* Small instances of StripeCheckout: checkouts s1 (plan basic) and s2 (plan *)
(* pro) of one user.                                                         *)
EXTENDS StripeCheckout, TLC

CONSTANTS s1, s2, u1, free, basic, pro

MCOwner  == [s \in Sessions |-> u1]
MCPlanOf == [s \in Sessions |-> IF s = s1 THEN basic ELSE pro]

\* Not for liveness.
Symmetry == Permutations(Jobs) \union Permutations(Workers) \union Permutations(Rows)

\* hist is written and never read: two states that differ in it alone go on alike.
View == <<stripe, sess, age, hook, todo, job, worker, row, applied>>

=============================================================================
