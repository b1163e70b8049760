---------------------------- MODULE MCUserRights ----------------------------
(* Small instances of UserRights for TLC. *)
EXTENDS UserRights, TLC

\* Users, channels and threads are alike.
Symmetry == Permutations(Users) \cup Permutations(Channels) \cup Permutations(Threads)
=============================================================================
