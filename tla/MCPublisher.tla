----------------------------- MODULE MCPublisher -----------------------------
(* Small instances of Publisher for TLC. *)
EXTENDS Publisher, TLC

CONSTANTS s1, s2

TwoSubs == {s1, s2}
Everyone == {s1, s2, Pub}
OnlyPub == {Pub}
OneSub == {s1}
Nobody == {}

(* The two subscribers are interchangeable in the safety runs. *)
Symmetry == Permutations(TwoSubs)

=============================================================================
