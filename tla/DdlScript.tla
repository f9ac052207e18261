------------------------------- MODULE DdlScript -------------------------------
(***************************************************************************)
(* How ddl_converter.py takes a script of Oracle DDL apart: statements     *)
(* (_split_statements()), the parenthesised body of a table                *)
(* (_paren_body_at()), and the definitions in it (_top_level_split()).     *)
(*                                                                         *)
(* A text is a sequence of tokens: "line" is --, "open" and "close" are    *)
(* the ends of a block comment, "keyword" is one of the phrases that start *)
(* a statement, "text" stands for anything else.  A doubled quote leaves a *)
(* string and enters it again, which comes to the same.                    *)
(***************************************************************************)
EXTENDS Integers, FiniteSets, SequencesExt

CONSTANTS
  Script,      \* scripts, each a sequence of statements as they are written
  Definitions  \* tables, each the sequence of its definitions

VARIABLES
  script,  \* the script of a file
  defs,    \* the definitions of a table
  parsed   \* the statements, and the definitions, that were made of them

scriptVars == <<script, defs, parsed>>

Token == {"text", "keyword", "newline", "quote", "semicolon", "line", "open", "close",
          "(", ")", "comma"}

-----------------------------------------------------------------------------
(* _split_statements() *)

\* Where the next token of a text stands: in code, in a string or in a comment.
\* Strings do not matter to the look-ahead, which stops at a quote.
AfterComment(mode, token) ==
  CASE mode = "line" -> IF token = "newline" THEN "code" ELSE "line"
    [] mode = "block" -> IF token = "close" THEN "code" ELSE "block"
    [] OTHER -> IF token = "line" THEN "line" ELSE IF token = "open" THEN "block" ELSE "code"

\* The look-ahead from i, after each token.
LookAhead(text, i) ==
  LET mode[j \in i .. Len(text)] == IF j = i THEN "code" ELSE AfterComment(mode[j - 1], text[j])
  IN mode

\* Mutant: the look-ahead passes whitespace only.
KeywordNext(text, i) ==
  LET telling == {j \in i + 1 .. Len(text) : text[j] # "newline"}
  IN telling # {} /\ text[CHOOSE j \in telling : \A k \in telling : j <= k] = "keyword"

\* The first token after the newline at i that is neither blank nor in a comment
\* starts a statement.
KeywordAhead(text, i) ==
  LET mode == LookAhead(text, i)
      telling == {j \in i + 1 .. Len(text) :
                    mode[j - 1] = "code" /\ text[j] \notin {"newline", "line", "open"}}
  IN telling # {} /\ text[CHOOSE j \in telling : \A k \in telling : j <= k] = "keyword"

\* strip()
Stripped(part) ==
  LET told == {i \in DOMAIN part : part[i] # "newline"}
  IN IF told = {} THEN <<>>
     ELSE SubSeq(part, CHOOSE i \in told : \A j \in told : i <= j,
                 CHOOSE i \in told : \A j \in told : j <= i)

\* A statement ends: it is kept unless it is blank.
Ended(scan) ==
  [scan EXCEPT !.done = IF Stripped(scan.current) = <<>> THEN @ ELSE Append(@, Stripped(scan.current)),
               !.current = <<>>]

\* One token in code.
InCode(scan, text, i) ==
  CASE text[i] = "line" -> [scan EXCEPT !.mode = "line"]
    [] text[i] = "open" -> [scan EXCEPT !.mode = "block"]
    [] text[i] = "quote" -> [scan EXCEPT !.mode = "string", !.current = Append(@, "quote")]
    [] text[i] = "semicolon" -> Ended(scan)
    [] text[i] = "newline" /\ scan.current # <<>> /\ KeywordAhead(text, i) -> Ended(scan)
    [] OTHER -> [scan EXCEPT !.current = Append(@, text[i])]

\* One token: the newline of a line comment is kept, but starts no statement.
Scanned(scan, text, i) ==
  CASE scan.mode = "line" ->
         IF text[i] = "newline" THEN [scan EXCEPT !.mode = "code", !.current = Append(@, "newline")] ELSE scan
    [] scan.mode = "block" -> IF text[i] = "close" THEN [scan EXCEPT !.mode = "code"] ELSE scan
    [] scan.mode = "string" ->
         [scan EXCEPT !.mode = IF text[i] = "quote" THEN "code" ELSE "string",
                      !.current = Append(@, text[i])]
    [] OTHER -> InCode(scan, text, i)

\* The scan of a text, after each token.
Scan(text) ==
  LET scan[i \in 0 .. Len(text)] ==
        IF i = 0 THEN [mode |-> "code", current |-> <<>>, done |-> <<>>]
        ELSE Scanned(scan[i - 1], text, i)
  IN scan

SplitStatements(text) == Ended(Scan(text)[Len(text)]).done

-----------------------------------------------------------------------------
(* _paren_body(), _paren_body_at() and _top_level_split() *)

\* How many parentheses are open after i tokens of a text.
Depths(text) ==
  LET depth[i \in 0 .. Len(text)] ==
        IF i = 0 THEN 0
        ELSE CASE text[i] = "(" -> depth[i - 1] + 1
               [] text[i] = ")" -> depth[i - 1] - 1
               [] OTHER -> depth[i - 1]
  IN depth

\* From the first parenthesis to the one that closes it, strings or not; none when
\* it is never closed.
ParenBody(stmt) ==
  LET opens == {i \in DOMAIN stmt : stmt[i] = "("}
      first == CHOOSE i \in opens : \A j \in opens : i <= j
      rest == SubSeq(stmt, first, Len(stmt))
      closes == {i \in DOMAIN rest : rest[i] = ")" /\ Depths(rest)[i] = 0}
  IN IF opens = {} \/ closes = {} THEN {}
     ELSE {SubSeq(rest, 2, (CHOOSE i \in closes : \A j \in closes : i <= j) - 1)}

\* One token of a body, outside its strings.  Mutant of Cut: strings are not respected.
CutOutside(cut, token) ==
  CASE token = "(" -> [cut EXCEPT !.depth = @ + 1, !.current = Append(@, token)]
    [] token = ")" -> [cut EXCEPT !.depth = @ - 1, !.current = Append(@, token)]
    [] token = "comma" /\ cut.depth = 0 ->
         [cut EXCEPT !.parts = Append(@, Stripped(cut.current)), !.current = <<>>]
    [] OTHER -> [cut EXCEPT !.current = Append(@, token)]

\* One token of a body.
Cut(cut, token) ==
  IF token = "quote" THEN [cut EXCEPT !.quoted = ~@, !.current = Append(@, token)]
  ELSE IF cut.quoted THEN [cut EXCEPT !.current = Append(@, token)]
  ELSE CutOutside(cut, token)

\* The split of a body, after each token.
Cuts(body) ==
  LET cut[i \in 0 .. Len(body)] ==
        IF i = 0 THEN [parts |-> <<>>, current |-> <<>>, depth |-> 0, quoted |-> FALSE]
        ELSE Cut(cut[i - 1], body[i])
  IN cut

TopLevelSplit(body) ==
  LET cut == Cuts(body)[Len(body)]
      last == Stripped(cut.current)
  IN IF last = <<>> THEN cut.parts ELSE Append(cut.parts, last)

-----------------------------------------------------------------------------
(* Scripts as they are written *)

\* A piece of a statement: a text, a break of the line, a string, a comment, or a
\* list in parentheses; of holds the tokens inside.
Piece(kind, of) == [kind |-> kind, of |-> of]

Written(piece) ==
  CASE piece.kind = "string" -> <<"quote">> \o piece.of \o <<"quote">>
    [] piece.kind = "block" -> <<"open">> \o piece.of \o <<"close">>
    [] piece.kind = "line" -> <<"line">> \o piece.of \o <<"newline">>
    [] piece.kind = "list" -> <<"(">> \o piece.of \o <<")">>
    [] OTHER -> <<piece.kind>>

\* What a piece means: comments are white space.
Meant(piece) ==
  CASE piece.kind = "block" -> <<>>
    [] piece.kind = "line" -> <<"newline">>
    [] OTHER -> Written(piece)

WrittenAll(pieces) == FlattenSeq([k \in DOMAIN pieces |-> Written(pieces[k])])

MeantAll(pieces) == FlattenSeq([k \in DOMAIN pieces |-> Meant(pieces[k])])

\* A statement: comments before its keyword, the pieces after it, and what ends it:
\* a semicolon, a new line, or nothing more.
WrittenStatement(stmt) ==
  WrittenAll(stmt.before) \o <<"keyword">> \o WrittenAll(stmt.pieces)
    \o (IF stmt.end = "nothing" THEN <<>> ELSE <<stmt.end>>)

WrittenScript == FlattenSeq([k \in DOMAIN script |-> WrittenStatement(script[k])])

\* Every statement but the last is followed by a semicolon or by a new line of its own.
Separated == \A k \in 1 .. Len(script) - 1 : script[k].end # "nothing"

\* A table's definitions in parentheses.
WrittenTable ==
  <<"keyword", "(">>
    \o FlattenSeq([k \in DOMAIN defs |->
                     WrittenAll(defs[k]) \o (IF k < Len(defs) THEN <<"comma">> ELSE <<>>)])
    \o <<")", "text">>

\* Whether a text is in a string after each of its tokens.
Quoted(text) ==
  LET quoted[i \in 0 .. Len(text)] ==
        IF i = 0 THEN FALSE ELSE IF text[i] = "quote" THEN ~quoted[i - 1] ELSE quoted[i - 1]
  IN quoted

\* No string of a text holds a parenthesis.
Plain(text) == \A i \in DOMAIN text : text[i] \in {"(", ")"} => ~Quoted(text)[i]

PlainStrings == \A k \in DOMAIN defs : \A n \in DOMAIN defs[k] : Plain(Written(defs[k][n]))

\* A quote in a string is written twice.
Doubled(of) == ~Quoted(of)[Len(of)] /\ \A i \in DOMAIN of : Quoted(of)[i - 1] => of[i] = "quote"

\* A new line or a comment.
Spacing(piece) ==
  \/ piece.kind = "newline"
  \/ piece.kind = "block" /\ "close" \notin ToSet(piece.of)
  \/ piece.kind = "line" /\ "newline" \notin ToSet(piece.of)

\* The strings of a text end, its parentheses match, and its commas are in either.
Closed(text) ==
  /\ ~Quoted(text)[Len(text)]
  /\ Plain(text) => Depths(text)[Len(text)] = 0 /\ \A i \in DOMAIN text : Depths(text)[i] >= 0
  /\ \A i \in DOMAIN text : text[i] = "comma" => Quoted(text)[i] \/ Depths(text)[i] > 0

PieceSet == [kind : {"text", "newline", "string", "block", "line", "list"}, of : Seq(Token)]

\* Comments and new lines may stand anywhere between texts and strings.
ASSUME ScriptAssumption ==
  \A s \in Script :
    /\ s \in Seq([before : Seq(PieceSet), pieces : Seq(PieceSet),
                   end : {"semicolon", "newline", "nothing"}])
    /\ \A k \in DOMAIN s :
         /\ \A n \in DOMAIN s[k].before : Spacing(s[k].before[n])
         /\ \A n \in DOMAIN s[k].pieces :
              LET piece == s[k].pieces[n]
              IN Spacing(piece) \/ piece.kind = "text" \/ (piece.kind = "string" /\ Doubled(piece.of))

\* A definition says something, and its commas are inside its lists and strings.
ASSUME DefinitionsAssumption ==
  \A table \in Definitions :
    /\ table \in Seq(Seq(PieceSet))
    /\ \A k \in DOMAIN table :
         /\ Stripped(WrittenAll(table[k])) # <<>>
         /\ \A n \in DOMAIN table[k] : Closed(Written(table[k][n]))
-----------------------------------------------------------------------------
(* The converter reads a script and a table *)

NotParsed == [statements |-> {}, definitions |-> {}]

\* A script without tables, or a table by itself.
ParseInit ==
  /\ \/ script \in Script /\ defs = <<>>
     \/ script = <<>> /\ defs \in Definitions
  /\ parsed = NotParsed

Parse ==
  /\ parsed = NotParsed
  /\ parsed' = [statements |-> {SplitStatements(WrittenScript)},
                definitions |-> {TopLevelSplit(body) : body \in ParenBody(WrittenTable)}]
  /\ UNCHANGED <<script, defs>>

ParseSpec == ParseInit /\ [][Parse]_scriptVars

-----------------------------------------------------------------------------
(* Properties *)

\* Each statement of a script is found, whole and alone, with its comments taken
\* out: whether a semicolon or a new line ends it, and whatever its strings and
\* comments hold.
SplitExact ==
  (parsed # NotParsed /\ Separated) =>
    parsed.statements =
      {[k \in DOMAIN script |->
          Stripped(MeantAll(script[k].before) \o <<"keyword">> \o MeantAll(script[k].pieces))]}

\* Each definition of a table is found, whole and alone, commas and parentheses in
\* it or not, if no string holds a parenthesis: one that does may end the body, and
\* the definitions after it are lost.
BodyExact ==
  (parsed # NotParsed /\ PlainStrings) =>
    parsed.definitions = {[k \in DOMAIN defs |-> Stripped(WrittenAll(defs[k]))]}
=============================================================================
