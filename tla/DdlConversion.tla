----------------------------- MODULE DdlConversion -----------------------------
(***************************************************************************)
(* What ddl_converter.py makes of the statements of a file of Oracle DDL:  *)
(* statements for PostgreSQL, to be executed at once, and foreign keys, to *)
(* be added when every table exists.                                       *)
(*                                                                         *)
(* A statement is a record: a table with its definitions, an index, a      *)
(* comment, an ALTER TABLE, or one of no interest.  Types and defaults are *)
(* abstracted: they make a statement fail or not, which is the executor's  *)
(* business.  "on" is the columns of a key or of an index.                 *)
(***************************************************************************)
EXTENDS Integers, SequencesExt

-----------------------------------------------------------------------------
(* Source *)

Column(name) == [kind |-> "column", name |-> name]

\* CONSTRAINT name ..., of kind "primary", "unique" or "check".
Constraint(kind, name, on) == [kind |-> kind, name |-> name, on |-> on]

\* A foreign key refers to columns of its parent.
ForeignKey(name, child, parent, on) ==
  [kind |-> "foreign", name |-> name, child |-> child, parent |-> parent, on |-> on]

Table(name, definitions) == [kind |-> "table", table |-> name, definitions |-> definitions]

IndexOn(name, table, unique, on) ==
  [name |-> name, table |-> table, unique |-> unique, on |-> on]

Index(index) == [kind |-> "index", index |-> index]

Comment(table) == [kind |-> "comment", table |-> table]

\* ALTER TABLE ... ADD CONSTRAINT of a definition.
Alter(table, definition) == [kind |-> "alter", table |-> table, definition |-> definition]

\* GRANT and the like.
Other == [kind |-> "other"]

\* CREATE TABLE in the text of a file: in a statement, a comment or a string.  The
\* schema is "quoted" or "plain", as it is written, or there is "none".
Mention(how, schema, table) == [how |-> how, schema |-> schema, table |-> table]

-----------------------------------------------------------------------------
(* PostgreSQL *)

Drop(table) == [do |-> "drop", table |-> table]

Create(table, columns, constraints) ==
  [do |-> "create", table |-> table, columns |-> columns, constraints |-> constraints]

CreateIndex(index) == [do |-> "index", table |-> index.table, index |-> index]

CommentOn(table) == [do |-> "comment", table |-> table]

-----------------------------------------------------------------------------
(* _convert_content() *)

\* The definitions of a kind, in the order of the list.
OfKind(definitions, kind) ==
  LET at == {k \in DOMAIN definitions : definitions[k].kind = kind}
      place(k) == Cardinality({l \in at : l <= k})
  IN [i \in 1 .. Cardinality(at) |-> definitions[CHOOSE k \in at : place(k) = i]]

\* Mutant: the table is created beside what an earlier run left.
ConvertTableKeeping(stmt) ==
  LET of(kind) == OfKind(stmt.definitions, kind)
  IN [statements |-> <<Create(stmt.table, of("column"), of("primary") \o of("unique") \o of("check"))>>,
      foreignKeys |-> of("foreign")]

\* _convert_create_table(): the table is dropped and created with its columns and
\* its keys, uniqueness before checks; its foreign keys wait.
ConvertTable(stmt) ==
  LET of(kind) == OfKind(stmt.definitions, kind)
  IN [statements |-> <<Drop(stmt.table),
                       Create(stmt.table, of("column"), of("primary") \o of("unique") \o of("check"))>>,
      foreignKeys |-> of("foreign")]

\* _convert_alter_table(): of what it adds, only foreign keys are kept.
ConvertAlter(stmt) ==
  [statements |-> <<>>,
   foreignKeys |-> IF stmt.definition.kind = "foreign" THEN <<stmt.definition>> ELSE <<>>]

Convert(stmt) ==
  CASE stmt.kind = "table" -> ConvertTable(stmt)
    [] stmt.kind = "index" ->
         [statements |-> <<CreateIndex(stmt.index)>>, foreignKeys |-> <<>>]
    [] stmt.kind = "comment" -> [statements |-> <<CommentOn(stmt.table)>>, foreignKeys |-> <<>>]
    [] stmt.kind = "alter" -> ConvertAlter(stmt)
    [] OTHER -> [statements |-> <<>>, foreignKeys |-> <<>>]

\* Before the first statement.
NothingConverted == [statements |-> <<>>, foreignKeys |-> <<>>]

\* One more statement of the file.
Extended(converted, stmt) ==
  [statements |-> converted.statements \o Convert(stmt).statements,
   foreignKeys |-> converted.foreignKeys \o Convert(stmt).foreignKeys]

\* _first_table_name() looks for the first CREATE TABLE of the text, and takes a schema
\* without quotes for the table.
FirstTable(mentions) ==
  IF mentions = <<>> THEN "unknown"
  ELSE IF Head(mentions).how = "plain" THEN Head(mentions).schema ELSE Head(mentions).table
=============================================================================
