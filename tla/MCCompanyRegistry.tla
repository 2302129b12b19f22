--------------------------- MODULE MCCompanyRegistry ---------------------------
(* CompanyRegistry on a small instance: two payloads that differ in every    *)
(* column, PATCHes of each half, of a null, of the ISINs both ways and of    *)
(* nothing, and a header that names no organization.                         *)
EXTENDS CompanyRegistry, TLC

MCPayloads == {[exchange |-> "x1", ticker |-> "t1", isin |-> "i1"],
               [exchange |-> "x2", ticker |-> "t2", isin |-> "i2"]}

MCPatches == {[c \in {"exchange"} |-> "x2"], [c \in {"ticker"} |-> "t2"],
              [c \in {"ticker"} |-> Null],
              [c \in {"isin"} |-> "i1"], [c \in {"isin"} |-> "i2"],
              [c \in {} |-> Null]}

Symmetry == Permutations(Creators) \cup Permutations(Editors) \cup Permutations(Organizations)

===============================================================================
