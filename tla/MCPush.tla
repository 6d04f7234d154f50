------------------------------- MODULE MCPush -------------------------------
(* A small instance of PushDelivery.                                         *)
EXTENDS PushDelivery, TLC

Symmetry == Permutations(Users) \union Permutations(Jobs) \union Permutations(Requests)

=============================================================================
