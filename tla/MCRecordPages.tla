----------------------------- MODULE MCRecordPages -----------------------------
(* RecordPages on a small instance.                                         *)
EXTENDS RecordPages, TLC

===============================================================================
