------------------------------ MODULE MCListener ------------------------------
(* One chain starting at height 1 and growing to 5, three concurrent fetches,*)
(* so a round can straddle the chain head and fail part-way.               *)
EXTENDS Listener
=============================================================================
