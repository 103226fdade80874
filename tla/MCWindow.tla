------------------------------ MODULE MCWindow ------------------------------
(* Instances of the window for its safety properties.  Runs are told apart by
   nothing but their place in the state, and so are profiles, so states that
   differ by renaming them are explored once. *)
EXTENDS Window

Symmetry == Permutations(Run) \cup Permutations(Profile)
=============================================================================
