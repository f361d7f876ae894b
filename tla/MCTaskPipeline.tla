--------------------------- MODULE MCTaskPipeline ---------------------------
(* Bounded instances of TaskPipeline for TLC. *)
EXTENDS TaskPipeline, TLC

\* Loops of one kind run the same code and are interchangeable.
Symmetry == 
    UNION {Permutations(S) : S \in {Relays, Workers, Schedulers, Compensators, Replayers}}
=============================================================================
