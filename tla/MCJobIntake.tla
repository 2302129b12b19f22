------------------------------ MODULE MCJobIntake ------------------------------
(* JobIntake, and with it FileUpload, on a small instance.                   *)
EXTENDS JobIntake, TLC

Symmetry == Permutations(Uploads) \cup Permutations(Creators)
              \cup Permutations(Checksums) \cup Permutations(Keys)

===============================================================================
