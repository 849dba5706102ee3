-------------------------------- MODULE MCClub --------------------------------
(***************************************************************************)
(* Values for the constants of Club: users, invites and requests are each  *)
(* interchangeable.                                                        *)
(***************************************************************************)
EXTENDS Club, TLC

Interchangeable == Permutations(Users) \cup Permutations(Requests)

=============================================================================
