------------------------------ MODULE MCGeneration ------------------------------
(* Small instances of Generation for TLC: parts of the provider schema. *)
EXTENDS Generation

CONSTANTS Tops, Audited

SYS_ID == <<"p", "sys", "id">>

EVENT_SK == <<"p", "event", "sk">>

\* A column of identifiers whose sample goes up to top.
Key(name, top) ==
  [name |-> name, filled |-> TRUE, gaps |-> FALSE, distinct |-> TRUE, numeric |-> TRUE, top |-> top]

\* A column of texts, distinct in the sample or not.
Text(name, distinct) ==
  [name |-> name, filled |-> TRUE, gaps |-> ~distinct, distinct |-> distinct,
   numeric |-> FALSE, top |-> 0]

\* The column that every table of the real schema has.
AuditColumns(audited) == IF audited THEN <<Text(<<"g", "aud", "user", "id">>, FALSE)>> ELSE <<>>

Affiliation(audited) ==
  [name |-> <<"p", "affl", "tb">>,
   cols |-> <<Key(<<"p", "affl", "sk">>, 0), Text(<<"p", "grp", "sys", "id">>, FALSE)>>
            \o AuditColumns(audited)]

\* Transactions of affiliations, which have the affiliations' key.
AffiliationTx ==
  [name |-> <<"p", "affl", "tx">>, cols |-> <<Key(<<"p", "affl", "sk">>, 0)>>]

\* A table whose sample has a user and a time of its own in each row, and the users.
Log ==
  [name |-> <<"p", "log", "tb">>,
   cols |-> <<Text(<<"g", "aud", "user", "id">>, TRUE), Text(<<"g", "aud", "ts">>, TRUE)>>]

Stamped ==
  [name |-> <<"p", "stat", "tb">>,
   cols |-> AuditColumns(TRUE) \o <<Text(<<"g", "aud", "ts">>, FALSE)>>]

Users == [name |-> <<"p", "usr", "tb">>, cols |-> <<Text(<<"p", "user", "id">>, TRUE)>>]

Detail(top, audited) ==
  [name |-> <<"p", "dtl", "tb">>, cols |-> <<Key(SYS_ID, top)>> \o AuditColumns(audited)]

EventReason(topSk, topId) ==
  [name |-> <<"p", "event", "rsn", "tb">>, cols |-> <<Key(EVENT_SK, topSk), Key(SYS_ID, topId)>>]

Event(topSk, topId) ==
  [name |-> <<"p", "event", "tb">>, cols |-> <<Key(EVENT_SK, topSk), Key(SYS_ID, topId)>>]

\* A table outside the map, with a text that is as good as a key.
Type == [name |-> <<"t", "code", "tb">>, cols |-> <<Text(<<"t", "stat", "cd">>, TRUE)>>]

Status(audited) ==
  [name |-> <<"p", "stat", "tb">>,
   cols |-> <<Text(<<"p", "new", "stat", "cd">>, FALSE)>> \o AuditColumns(audited)]

\* relationships_verified.yaml, of these tables.
MCConstraint ==
  LET dtl == <<"p", "dtl", "tb">>
      affl == <<"p", "affl", "tb">>
      event == <<"p", "event", "tb">>
      reason == <<"p", "event", "rsn", "tb">>
      tx == <<"p", "affl", "tx">>
  IN {<<affl, dtl>>, <<tx, affl>>, <<tx, dtl>>, <<event, dtl>>, <<reason, event>>, <<reason, dtl>>}

MCSatellites == {<<"p", "event", "rsn", "tb">>, <<"p", "event", "tb">>}

MCSchema ==
  {<<Affiliation(a), Detail(d, b)>> : a, b \in Audited, d \in Tops}
  \cup {<<Detail(d, FALSE), Event(k, e)>> : d, e, k \in Tops}
  \cup {<<Affiliation(FALSE), Detail(d, FALSE), Event(0, e)>> : d, e \in Tops}
  \cup {<<Detail(5, FALSE), EventReason(j, e), Event(1, f)>> : e, f, j \in Tops}
  \cup {<<Detail(0, a), Status(a), Type>> : a \in Audited}
  \cup {<<Affiliation(FALSE), AffiliationTx>> \o s : s \in {<<>>, <<Detail(0, FALSE)>>}}
  \cup {<<Log, Stamped, Users>>}
=============================================================================
