-------------------------- MODULE MCClaimService --------------------------
(* Bounds of the TLC runs of ClaimService. *)
EXTENDS ClaimService, TLC

CONSTANTS u1, u2, k1, k2, r1, r2, r3

MCUsers == {u1, u2}
OneUser == {u1}
MCKeys == {k1, k2}
OneKey == {k1}
MCRequests == {r1, r2, r3}
TwoRequests == {r1, r2}

Both == {TRUE, FALSE}
NoMoves == {}
CampaignMoves == {<<"MISSING", "DRAFT">>, <<"DRAFT", "ACTIVE">>, <<"ACTIVE", "ENDED">>}
ClockRuns == {<<"before", "open">>, <<"open", "after">>}

Symmetry == Permutations(Users) \union Permutations(Keys) \union Permutations(Requests)
=============================================================================
