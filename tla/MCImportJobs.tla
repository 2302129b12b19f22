----------------------------- MODULE MCImportJobs -----------------------------
(* ImportJobs on a small instance.                                          *)
EXTENDS ImportJobs, TLC

Symmetry == Permutations(Patchers)

===============================================================================
