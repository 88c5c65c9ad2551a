---- MODULE MCStudyWrite ----
(* Runs are interchangeable, and so are contents. *)
EXTENDS StudyWrite, TLC

Symmetry == Permutations(Run) \cup Permutations(Contents)
====
