----------------------------- MODULE MCMigrations -----------------------------
(* Migrations on a small instance.                                           *)
EXTENDS Migrations

Symmetry == Permutations(Companies)

===============================================================================
