-------------------------- MODULE MCNetworkPolicy --------------------------
(* NetworkPolicy with four profiles, one of them disabled.                 *)
EXTENDS NetworkPolicy

MCPreempt == [r \in Ranks |-> IF r = 2 THEN 3 ELSE 2]

=============================================================================
