-------------------------- MODULE MCWorldSimulation --------------------------
(* The instances of WorldSimulation that TLC checks.                          *)
EXTENDS WorldSimulation

\* Peers of one kind are interchangeable; no operator chooses between them.
Symmetry == Permutations(Sessions \ Guests) \cup Permutations(Guests)

==============================================================================
