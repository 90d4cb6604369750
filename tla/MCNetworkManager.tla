-------------------------- MODULE MCNetworkManager --------------------------
(* NetworkManager with two profiles, the second of them a public one.      *)
EXTENDS NetworkManager

MCPreempt == [r \in Ranks |-> 2]

=============================================================================
