-------------------------- MODULE MCQuotaReserveTx --------------------------
(* Model values of QuotaReserveTx: accounts, requests and sessions are      *)
(* interchangeable.                                                         *)
EXTENDS QuotaReserveTx, TLC

Symmetry == Permutations(Users) \cup Permutations(Requests) \cup Permutations(Procs)
=============================================================================
