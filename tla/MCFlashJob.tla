---------------------------- MODULE MCFlashJob ----------------------------
(* Instances of FlashJob for TLC. *)
EXTENDS FlashJob, TLC

\* A request for the last chunk of three, one with a duplicate and an index
\* past the end of the image, and one longer than MaxMissed = 3.
MCRequests == {<<2>>, <<0, 7, 0>>, <<0, 1, 2, 3>>}

MCNoRequests == {}

\* Sound for safety only.
JobSymmetry == Permutations(Jobs) \union Permutations(Procs)
===========================================================================
