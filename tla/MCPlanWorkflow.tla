----------------------------- MODULE MCPlanWorkflow -----------------------------
(* Small instances of PlanWorkflow for TLC: two tables, child references parent. *)
EXTENDS PlanWorkflow, TLC

CONSTANTS parent, child, b1, b2

MCInsertRank == (parent :> 1) @@ (child :> 2)

MCParents == (parent :> {}) @@ (child :> {parent})

\* Files with rows for both tables; the same rows in both; and an empty file.
EveryUpload == [Table -> {b1, b2}]

OneUpload == {[t \in Table |-> b1]}

EmptyFileUpload == OneUpload \cup {(parent :> b1) @@ (child :> EmptyBatch)}

Answer(intent, table, tables) == [intent |-> intent, table |-> table, tables |-> tables]

\* A fan-out job over both tables.
FanOutReply == {Answer("multi_table_job", NoTable, {parent, child})}

\* One reply for each way through plan().
EveryReply ==
  FanOutReply \cup
  {Answer("mask", child, {}), Answer("validate", child, {}), Answer("mask", NoTable, {}),
   Answer("multi_table_job", child, {parent}), Answer("unclear", child, {}),
   Answer("schema_question", NoTable, {}), Answer("schema_question", parent, {}),
   Answer("unparsable", NoTable, {}), Answer("mask", UnknownTable, {}),
   Answer("multi_table_job", NoTable, {parent, UnknownTable})}

\* A fan-out job or a single-table masking job.
ActingReply == FanOutReply \cup {Answer("mask", child, {})}

=============================================================================
