--------------------------- MODULE MCHostedOrders ---------------------------
(* Instances of HostedOrders for TLC. *)
EXTENDS HostedOrders, TLC

CONSTANTS h1, h2, c1, c2, a1, a2

Symmetric == Permutations(Handler) \cup Permutations(Client) \cup Permutations(Addition)
=============================================================================
