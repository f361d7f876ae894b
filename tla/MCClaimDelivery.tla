-------------------------- MODULE MCClaimDelivery --------------------------
(* Bounded instance of ClaimDelivery for TLC. *)
EXTENDS ClaimDelivery, TLC

\* Loops of one kind run the same code, and users are alike.
Symmetry == UNION {Permutations(S) : S \in {Relays, Workers, Schedulers, Compensators, Users}}
=============================================================================
