------------------------------- MODULE MCBus -------------------------------
(* Small instances of Bus: the thread slots are interchangeable.           *)
EXTENDS Bus, TLC

Symmetry == Permutations(Readers) \cup Permutations(Writers)
=============================================================================
