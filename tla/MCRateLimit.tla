---------------------------- MODULE MCRateLimit ----------------------------
(***************************************************************************)
(* RateLimit for TLC.  Clients are alike, and so are requests; only safety *)
(* is checked.                                                             *)
(***************************************************************************)
EXTENDS RateLimit, TLC

Symmetry == Permutations(Clients) \cup Permutations(Requests)
=============================================================================
