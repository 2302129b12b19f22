------------------------------ MODULE MCCatalogue ------------------------------
(* Catalogue on a small instance: an organization with a research and its    *)
(* datasource.                                                               *)
EXTENDS Catalogue, TLC

CONSTANTS a, x, d, v, n

SomeEntries ==
    a :> [kind |-> "organization", org |-> a, parent |-> a, value |-> v]
    @@ x :> [kind |-> "research", org |-> a, parent |-> a, value |-> n]
    @@ d :> [kind |-> "datasource", org |-> a, parent |-> x, value |-> n]

Symmetry == Permutations(Requests)

===============================================================================
