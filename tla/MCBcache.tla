------------------------------ MODULE MCBcache ------------------------------
(* Bcache for TLC: three users of two buffers, blocks 0 to 2. *)
EXTENDS Bcache, TLC

UserSymmetry == Permutations(Users)
=============================================================================
