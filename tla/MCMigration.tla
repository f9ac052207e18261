------------------------------ MODULE MCMigration ------------------------------
(* Small instances for TLC: a behaviour is either the parsing of one script and one *)
(* table, or runs of a migration; neither shares state with the other.              *)
EXTENDS DdlScript, Migration

TextPiece == Piece("text", <<>>)

Strings ==
  {Piece("string", of) :
     of \in {<<"semicolon">>, <<"newline", "keyword">>, <<"quote", "quote">>, <<"line">>, <<"open">>}}

Comments ==
  {Piece("block", of) : of \in {<<"semicolon">>, <<"newline">>, <<"quote">>, <<"line">>}}
    \cup {Piece("line", of) : of \in {<<"quote">>, <<"keyword">>, <<"open">>}}

StatementsOf(n) ==
  {[before |-> b, pieces |-> p, end |-> e] :
     b \in {<<>>} \cup {<<c>> : c \in Comments},
     p \in BoundedSeq({TextPiece, Piece("newline", <<>>)} \cup Strings \cup Comments, n),
     e \in {"semicolon", "newline", "nothing"}}

\* Two statements; the first one may have two pieces.
MCScript ==
  {<<a, b>> : a \in {s \in StatementsOf(2) : s.before = <<>>},
              b \in {s \in StatementsOf(1) : s.end = "nothing"}}

DefinitionPieces ==
  {TextPiece, Piece("newline", <<>>), Piece("list", <<"text", "comma", "text">>),
   Piece("list", <<"(", "quote", "comma", "quote", ")">>),
   Piece("string", <<"comma">>), Piece("string", <<"quote", "quote", "comma">>), Piece("string", <<")">>)}

MCDefinitions ==
  LET definition == {d \in BoundedSeq(DefinitionPieces, 2) : \E k \in DOMAIN d : d[k].kind # "newline"}
  IN {<<d>> : d \in definition} \cup {<<d, e>> : d, e \in definition}

\* A table and its child refer to each other; the child's reference to itself is
\* added later.  The key of the child has the name of an index, as Oracle exports it;
\* the parent's key is added by ALTER TABLE, and a visit refers to both.
MCSource ==
  << <<Table("child", <<Column("id"), ForeignKey("fk_parent", "child", "parent", "id"),
                        Constraint("check", "positive", "id"), Constraint("primary", "pk_child", "id")>>),
       Index(IndexOn("pk_child", "child", TRUE, "id")), Other,
       Alter("child", ForeignKey("fk_self", "child", "child", "id"))>>,
     <<Table("parent", <<Column("id"), ForeignKey("fk_child", "parent", "child", "id")>>),
       Comment("parent"), Index(IndexOn("by_name", "parent", FALSE, "name")),
       Alter("parent", Constraint("primary", "pk_late", "id"))>>,
     <<Table("visit", <<ForeignKey("fk_visit", "visit", "child", "id"), Constraint("unique", "uk_visit", "id"),
                        ForeignKey("fk_late", "visit", "parent", "id")>>)>> >>

\* The parent's schema has no quotes; the visit's file begins with a comment on the
\* parent's table.
MCMentions ==
  << <<Mention("quoted", "owner", "child")>>,
     <<Mention("plain", "owner", "parent")>>,
     <<Mention("none", "none", "parent"), Mention("quoted", "owner", "visit")>> >>

Row(key, ref) == [key |-> key, ref |-> ref]

\* The child's rows refer to a row of its own that is not among the first ones; keys
\* are there twice, and a row has none.
MCSample ==
  [t \in {"child", "parent", "visit", "owner"} |->
     IF t = "child" THEN <<Row(1, 7), Row(1, 8), Row(Null, Null), Row(7, 7)>>
     ELSE IF t = "parent" THEN <<Row(7, 1), Row(7, Null)>> ELSE <<Row(5, 9)>>]

NoParse == script = <<>> /\ defs = <<>> /\ parsed = NotParsed

NoMigration ==
  /\ tables = [t \in {} |-> {}] /\ indexes = {} /\ keys = {}
  /\ phase = "parse" /\ connected = FALSE /\ file = 1
  /\ todo = <<>> /\ converted = NothingConverted /\ rows = <<>> /\ collected = <<>>
  /\ output = [ddl |-> {}, foreignKeys |-> <<>>]
  /\ summaries = <<>> /\ faults = 0 /\ total = 0 /\ runs = 0

MCInit == (ParseInit /\ NoMigration) \/ (NoParse /\ MigrationInit)

MCNext ==
  \/ phase = "parse" /\ Parse /\ UNCHANGED migrationVars
  \/ phase # "parse" /\ MigrationNext /\ UNCHANGED scriptVars

MCSpec == MCInit /\ [][MCNext]_<<scriptVars, migrationVars>>
=============================================================================
