---------------------------- MODULE MCReviewDesk ----------------------------
(* A small instance of ReviewDesk: a caller of one team, an administrator of *)
(* another.                                                                  *)
EXTENDS ReviewDesk, TLC

CONSTANTS ann, ada, east, west

MCTeamOf == ann :> east @@ ada :> west
\* An answer of confidence 92 is at the threshold of one type, below that of the other.
MCThreshold == BaseRent :> 92 @@ FreeRentPeriod :> 95

MCBarriers == {{east}}

Symmetric == Permutations(Sessions) \cup Permutations(Runs)

=============================================================================
