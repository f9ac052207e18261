------------------------------- MODULE Migration -------------------------------
(***************************************************************************)
(* The migration of Oracle DDL to PostgreSQL: OracleToPostgresConverter    *)
(* (converter.py), SQLExecutor (sql_executor.py), DataLoader               *)
(* (data_loader.py) and DatabaseManager (db.py).                           *)
(*                                                                         *)
(* Each statement commits by itself: a run that is interrupted leaves what *)
(* it did, and the next run starts from the first file again.  An action   *)
(* converts a statement, executes one, or inserts a row.                   *)
(*                                                                         *)
(* Abstractions.  A row has a key, what every unique index of its table is *)
(* on, and may refer to a key: the reference of all foreign keys of its    *)
(* table.  Rows that are equal count once.  Statements may also fail for   *)
(* reasons outside the model: faults.                                      *)
(***************************************************************************)
EXTENDS DdlConversion

CONSTANTS
  Source,     \* the files of DDL, in the order of their names: sequences of statements
  Mentions,   \* the mentions of CREATE TABLE in the text of each file
  Sample,     \* the sample rows of each table with a CSV file
  MaxRows,    \* sample rows that are loaded (_MAX_ROWS)
  Null,       \* no key, in columns that are NOT NULL; no reference
  MaxFaults,  \* bound: conversions, connections, statements and rows that fail
  MaxRuns     \* bound: runs

-----------------------------------------------------------------------------
(* What the files declare *)

Files == DOMAIN Source

Statements == UNION {ToSet(Source[f]) : f \in Files}

TablesDeclared == {stmt \in Statements : stmt.kind = "table"}

\* Every definition of a constraint, in a table or added to one later.
ConstraintsOf(stmt) ==
  IF stmt.kind = "table" THEN ToSet(stmt.definitions)
  ELSE IF stmt.kind = "alter" THEN {stmt.definition} ELSE {}

References == {key \in UNION {ConstraintsOf(stmt) : stmt \in Statements} : key.kind = "foreign"}

\* Primary and unique keys make an index of their name.
KeyIndexesOf(table, constraints) ==
  {IndexOn(c.name, table, TRUE, c.on) : c \in {c \in constraints : c.kind \in {"primary", "unique"}}}

IndexesIn(stmt) ==
  IF stmt.kind = "index" THEN {stmt.index}
  ELSE IF stmt.kind \in {"table", "alter"} THEN KeyIndexesOf(stmt.table, ConstraintsOf(stmt)) ELSE {}

IndexesDeclared == UNION {IndexesIn(stmt) : stmt \in Statements}

\* Primary and unique keys that only ALTER TABLE declares are lost: the converter keeps
\* nothing else of it than foreign keys.
IndexesLost ==
  {index \in IndexesDeclared : \A stmt \in Statements : index \in IndexesIn(stmt) => stmt.kind = "alter"}

IndexesKept == IndexesDeclared \ IndexesLost

\* A unique index lets a foreign key refer to its columns.
Serves(index, key) == index.table = key.parent /\ index.unique /\ index.on = key.on

Unique(table, set) == \E index \in set : index.table = table /\ index.unique

SampleRows(table) == IF table \in DOMAIN Sample THEN Sample[table] ELSE <<>>

Refers(row) == row.ref # Null

\* The first rows of a sample, each key once where the table has a unique index.
SampleOf(table) ==
  LET sample == SampleRows(table)
  IN {sample[i] : i \in {i \in DOMAIN sample :
        /\ i <= MaxRows /\ sample[i].key # Null
        /\ Unique(table, IndexesKept) => \A j \in 1 .. i - 1 : sample[j].key # sample[i].key}}

\* The sample of a table is loaded with the file whose text mentions the table first:
\* its own file, or a later one; otherwise it is not loaded.
Sampled(table) ==
  \E f, g \in Files :
    /\ f <= g /\ FirstTable(Mentions[g]) = table
    /\ \E stmt \in ToSet(Source[f]) : stmt.kind = "table" /\ stmt.table = table

RowsExpected(table) == IF Sampled(table) THEN SampleOf(table) ELSE {}

\* The foreign keys that a unique index serves and that the rows respect.
KeysExpected ==
  {key \in References :
     /\ \E index \in IndexesKept : Serves(index, key)
     /\ \A row \in RowsExpected(key.child) :
          Refers(row) => row.ref \in {r.key : r \in RowsExpected(key.parent)}}

\* An export: a file for each table, with its indexes and comments after it.  run()
\* has nothing to do without files.
ASSUME SourceAssumption ==
  /\ Source \in Seq(Seq(Statements)) /\ Source # <<>>
  /\ \A stmt \in TablesDeclared : stmt.definitions \in Seq(ToSet(stmt.definitions))
  /\ \A f \in Files : \E k \in DOMAIN Source[f] :
       /\ Source[f][k].kind = "table"
       /\ \A l \in DOMAIN Source[f] :
            /\ Source[f][l].kind = "table" => l = k
            /\ Source[f][l].kind = "index" => l > k /\ Source[f][l].index.table = Source[f][k].table
            /\ Source[f][l].kind = "comment" => l > k /\ Source[f][l].table = Source[f][k].table
  /\ \A f, g \in Files :
       (\E stmt \in TablesDeclared, other \in TablesDeclared :
          stmt \in ToSet(Source[f]) /\ other \in ToSet(Source[g]) /\ stmt.table = other.table) => f = g

\* Foreign keys are between the tables of the files.  The foreign keys of a table have
\* different names; the indexes have different names, that are not those of tables.
ASSUME NameAssumption ==
  /\ \A key \in References : {key.child, key.parent} \subseteq {stmt.table : stmt \in TablesDeclared}
  /\ \A key, other \in References : key.child = other.child /\ key.name = other.name => key = other
  /\ \A x, y \in IndexesKept : x.name = y.name => x = y
  /\ \A x \in IndexesKept, stmt \in TablesDeclared : x.name # stmt.table

ASSUME SampleAssumption ==
  MaxRows \in Nat /\ \A table \in DOMAIN Sample : Sample[table] \in Seq(ToSet(Sample[table]))

-----------------------------------------------------------------------------
VARIABLES
  tables,    \* the tables of the database and their rows
  indexes,   \* its indexes
  keys,      \* its foreign keys
  phase,     \* what the run is doing; "none" between runs
  connected, \* whether the run executes what it converts
  file,      \* the file that comes next
  todo,      \* statements left to convert or to execute, or foreign keys left
  converted, \* pg_stmts and fk_stmts of the file that is being converted
  rows,      \* sample rows left
  collected, \* _all_fks
  output,    \* the files of converted DDL on disk, and the file of foreign keys
  summaries, \* _summaries
  faults,    \* faults of this run
  total,     \* faults of all runs
  runs       \* runs that were started

database == <<tables, indexes, keys>>

migrationVars ==
  <<database, phase, connected, file, todo, converted, rows, collected, output, summaries, faults,
    total, runs>>

MigrationInit ==
  /\ tables = [t \in {} |-> {}] /\ indexes = {} /\ keys = {}
  /\ phase = "none" /\ connected = FALSE /\ file = 1
  /\ todo = <<>> /\ converted = NothingConverted /\ rows = <<>> /\ collected = <<>>
  /\ output = [ddl |-> {}, foreignKeys |-> <<>>]
  /\ summaries = <<>>
  /\ faults = 0 /\ total = 0 /\ runs = 0

-----------------------------------------------------------------------------
(* The database *)

\* DROP TABLE IF EXISTS ... CASCADE: with the table go its rows, its indexes, and
\* the foreign keys on both sides.
Dropped(table) ==
  /\ tables' = [t \in (DOMAIN tables) \ {table} |-> tables[t]]
  /\ indexes' = {index \in indexes : index.table # table}
  /\ keys' = {key \in keys : table \notin {key.child, key.parent}}

NamesOf(set) == {index.name : index \in set}

\* Tables and indexes share their names.
Taken == (DOMAIN tables) \cup NamesOf(indexes)

\* The indexes that the keys of a table make.
KeyIndexes(stmt) == KeyIndexesOf(stmt.table, ToSet(stmt.constraints))

Creatable(stmt) ==
  stmt.table \notin Taken /\ NamesOf(KeyIndexes(stmt)) \cap (Taken \cup {stmt.table}) = {}

\* A statement that PostgreSQL accepts; IF NOT EXISTS skips an index whose name is taken.
Accepted(stmt) ==
  CASE stmt.do = "drop" -> Dropped(stmt.table)
    [] stmt.do = "create" ->
         /\ Creatable(stmt)
         /\ tables' = [t \in (DOMAIN tables) \cup {stmt.table} |->
                         IF t = stmt.table THEN {} ELSE tables[t]]
         /\ indexes' = indexes \cup KeyIndexes(stmt)
         /\ UNCHANGED keys
    [] stmt.do = "index" ->
         /\ stmt.table \in DOMAIN tables
         /\ indexes' = IF stmt.index.name \in Taken THEN indexes ELSE indexes \cup {stmt.index}
         /\ UNCHANGED <<tables, keys>>
    [] stmt.do = "comment" -> stmt.table \in DOMAIN tables /\ UNCHANGED database

Rejected(stmt) ==
  CASE stmt.do = "drop" -> FALSE
    [] stmt.do = "create" -> ~Creatable(stmt)
    [] OTHER -> stmt.table \notin DOMAIN tables

KeysOf(table) == {row.key : row \in tables[table]}

\* The rows of the two tables respect a foreign key.
Respected(key) ==
  \A row \in tables[key.child] : Refers(row) => row.ref \in KeysOf(key.parent)

-----------------------------------------------------------------------------
(* A run: run() and _process_file() *)

Fault == total < MaxFaults /\ total' = total + 1 /\ faults' = faults + 1

NoFault == UNCHANGED <<total, faults>>

\* A process starts with nothing collected; without a connection it only converts.
StartRun ==
  /\ phase = "none" /\ runs < MaxRuns
  /\ runs' = runs + 1
  /\ \/ connected' = TRUE /\ faults' = 0 /\ UNCHANGED total
     \/ connected' = FALSE /\ total < MaxFaults /\ total' = total + 1 /\ faults' = 1
  /\ phase' = "file" /\ file' = 1
  /\ collected' = <<>> /\ summaries' = <<>>
  /\ UNCHANGED <<database, todo, converted, rows, output>>

Summary(conversion, execution) == [file |-> file, converted |-> conversion, executed |-> execution]

\* The file is done, however it went.
EndFile(summary) ==
  /\ summaries' = Append(summaries, summary)
  /\ file' = file + 1
  /\ phase' = "file"

ReadFile ==
  /\ phase = "file" /\ file \in Files
  /\ phase' = "convert"
  /\ todo' = Source[file]
  /\ NoFault
  /\ UNCHANGED <<database, connected, file, converted, rows, collected, output, summaries, runs>>

ConvertNext ==
  /\ phase = "convert" /\ todo # <<>>
  /\ converted' = Extended(converted, Head(todo))
  /\ todo' = Tail(todo)
  /\ NoFault
  /\ UNCHANGED <<database, phase, connected, file, rows, collected, output, summaries, runs>>

\* The file cannot be read or converted: nothing is collected, nothing executed.
FailToConvert ==
  /\ phase = "convert"
  /\ Fault
  /\ todo' = <<>> /\ converted' = NothingConverted
  /\ EndFile(Summary(FALSE, FALSE))
  /\ UNCHANGED <<database, connected, rows, collected, output, runs>>

Collect ==
  /\ phase = "convert" /\ todo = <<>>
  /\ output' = [output EXCEPT !.ddl = @ \cup (IF converted.statements # <<>> THEN {file} ELSE {})]
  /\ collected' = collected \o converted.foreignKeys
  /\ converted' = NothingConverted
  /\ IF connected THEN phase' = "execute" /\ todo' = converted.statements /\ UNCHANGED <<file, summaries>>
     ELSE EndFile(Summary(TRUE, TRUE)) /\ UNCHANGED todo
  /\ NoFault
  /\ UNCHANGED <<database, connected, rows, runs>>

-----------------------------------------------------------------------------
(* execute_table_ddl() and load_sample_data() *)

ExecuteStatement ==
  /\ phase = "execute" /\ todo # <<>>
  /\ Accepted(Head(todo))
  /\ todo' = Tail(todo)
  /\ NoFault
  /\ UNCHANGED <<phase, connected, file, converted, rows, collected, output, summaries, runs>>

\* The first error ends the execution of the file.
StopAtError ==
  /\ phase = "execute" /\ todo # <<>>
  /\ IF Rejected(Head(todo)) THEN NoFault ELSE Fault
  /\ todo' = <<>>
  /\ EndFile(Summary(TRUE, FALSE))
  /\ UNCHANGED <<database, connected, converted, rows, collected, output, runs>>

\* table_name of the file's conversion: the CSV file that is read, and the table that
\* its rows are for, whatever table the file creates.
Loaded == FirstTable(Mentions[file])

StartLoad ==
  /\ phase = "execute" /\ todo = <<>>
  /\ LET sample == SampleRows(Loaded)
     IN rows' = SubSeq(sample, 1, IF Len(sample) < MaxRows THEN Len(sample) ELSE MaxRows)
  /\ phase' = "load"
  /\ NoFault
  /\ UNCHANGED <<database, connected, file, todo, converted, collected, output, summaries, runs>>

\* A row may refer to itself.
CanInsert(row, table) ==
  /\ table \in DOMAIN tables /\ row.key # Null
  /\ \A key \in keys :
       (key.child = table /\ Refers(row)) =>
         row.ref \in KeysOf(key.parent) \/ (key.parent = table /\ row.ref = row.key)

\* INSERT ... ON CONFLICT DO NOTHING
Inserted(row, table) ==
  tables' = IF Unique(table, indexes) /\ row.key \in KeysOf(table) THEN tables
            ELSE [tables EXCEPT ![table] = @ \cup {row}]

\* A row that fails is skipped.
LoadRow ==
  /\ phase = "load" /\ rows # <<>>
  /\ \/ CanInsert(Head(rows), Loaded) /\ Inserted(Head(rows), Loaded) /\ NoFault
     \/ ~CanInsert(Head(rows), Loaded) /\ UNCHANGED tables /\ NoFault
     \/ Fault /\ UNCHANGED tables
  /\ rows' = Tail(rows)
  /\ UNCHANGED <<indexes, keys, phase, connected, file, todo, converted, collected, output,
                 summaries, runs>>

FinishFile ==
  /\ phase = "load" /\ rows = <<>>
  /\ EndFile(Summary(TRUE, TRUE))
  /\ NoFault
  /\ UNCHANGED <<database, connected, todo, converted, rows, collected, output, runs>>

-----------------------------------------------------------------------------
(* execute_fk_statements() *)

ToAdd == IF connected THEN collected ELSE <<>>

WriteForeignKeys ==
  /\ phase = "file" /\ file \notin Files
  /\ output' = [output EXCEPT !.foreignKeys = collected]
  /\ todo' = ToAdd
  /\ phase' = "keys"
  /\ NoFault
  /\ UNCHANGED <<database, connected, file, converted, rows, collected, summaries, runs>>

\* Each key is tried by itself: it fails if a table is missing, if no unique index is
\* on the columns it refers to, if the child has a foreign key of that name, or if
\* rows do not respect it.
AddForeignKey ==
  /\ phase = "keys" /\ todo # <<>>
  /\ LET key == Head(todo)
         valid == /\ {key.child, key.parent} \subseteq DOMAIN tables
                  /\ \E index \in indexes : Serves(index, key)
                  /\ \A other \in keys : other.child # key.child \/ other.name # key.name
                  /\ Respected(key)
     IN \/ keys' = (IF valid THEN keys \cup {key} ELSE keys) /\ NoFault
        \/ UNCHANGED keys /\ Fault
  /\ todo' = Tail(todo)
  /\ UNCHANGED <<tables, indexes, phase, connected, file, converted, rows, collected, output,
                 summaries, runs>>

FinishRun ==
  /\ phase = "keys" /\ todo = <<>>
  /\ phase' = "summary"
  /\ NoFault
  /\ UNCHANGED <<database, connected, file, todo, converted, rows, collected, output, summaries, runs>>

\* The process ends, at the end or before: only the database and the files remain.
EndProcess ==
  /\ phase # "none"
  /\ phase' = "none"
  /\ todo' = <<>> /\ converted' = NothingConverted /\ rows' = <<>> /\ file' = 1
  /\ connected' = FALSE /\ collected' = <<>> /\ summaries' = <<>> /\ faults' = 0
  /\ UNCHANGED <<database, output, total, runs>>

MigrationNext ==
  \/ StartRun \/ ReadFile \/ ConvertNext \/ FailToConvert \/ Collect
  \/ ExecuteStatement \/ StopAtError \/ StartLoad \/ LoadRow \/ FinishFile
  \/ WriteForeignKeys \/ AddForeignKey \/ FinishRun \/ EndProcess

MigrationSpec == MigrationInit /\ [][MigrationNext]_migrationVars

-----------------------------------------------------------------------------
(* Properties *)

\* A run that ends without a fault leaves the same schema and samples, whatever earlier
\* runs left behind: tables half converted, foreign keys lost to a CASCADE, or rows.
\* It has every table that the files declare; every index but those of the primary and
\* unique keys that only ALTER TABLE adds; the samples of the tables that the text of
\* their file or of a later one mentions first, and no other rows; and of the foreign
\* keys exactly those that a unique index serves and that these rows respect.
RerunConverges ==
  (phase = "summary" /\ connected /\ faults = 0) =>
    /\ DOMAIN tables = {stmt.table : stmt \in TablesDeclared}
    /\ \A t \in DOMAIN tables : tables[t] = IF Sampled(t) THEN SampleOf(t) ELSE {}
    /\ indexes = IndexesDeclared \ IndexesLost
    /\ keys = KeysExpected
    /\ \A k \in DOMAIN summaries : summaries[k].converted /\ summaries[k].executed
=============================================================================
