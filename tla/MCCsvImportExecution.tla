------------------------- MODULE MCCsvImportExecution -------------------------
(* CsvImportExecution on a small instance.                                   *)
EXTENDS CsvImportExecution, TLC

Symmetry == Permutations(Executors)

===============================================================================
