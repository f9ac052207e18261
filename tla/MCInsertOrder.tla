------------------------------ MODULE MCInsertOrder ------------------------------
(* Every schema of three tables, with one more outside the export. *)
EXTENDS InsertOrder

Exported == 1 .. 3

Missing == {0}
=============================================================================
