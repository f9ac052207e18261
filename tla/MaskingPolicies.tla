---------------------------- MODULE MaskingPolicies ----------------------------
(***************************************************************************)
(* Masking policies and the cells they mask: core/masking.py, MaskingAgent *)
(* (agent/subagents/masking_agent.py), the Masking Designer screen         *)
(* (backend/routers/masking.py), and the rulesets of the command line      *)
(* (cli.py).                                                               *)
(*                                                                         *)
(* Requests that mask share the engine of the masking agent, whose         *)
(* generator of synthetic values is seeded and then read.                  *)
(*                                                                         *)
(* Abstractions.  A column is a pair of its table and its name.  A keyed   *)
(* hash is the pair of its salt and what it hashes, so distinct values do  *)
(* not collide.                                                            *)
(***************************************************************************)
EXTENDS Integers, FiniteSets

CONSTANTS
  Column,      \* columns, each <<table, name>>
  Link,        \* pairs of a column of a foreign key and the column it refers to
  Sensitive,   \* columns that the classifier finds sensitive
  HumanName,   \* columns whose names look like a person's name, not an identifier
  Salt,        \* salts that a person chooses
  Ruleset,     \* rules that a run starts with: a function of columns
  Strategy,    \* strategies that a person chooses
  Datum,       \* cells to mask
  Request,     \* requests that mask a cell
  NoRule,      \* a column without a rule
  Free,        \* a request that is not masking
  MaxChanges,  \* bound: changes of rules
  MaxMasked    \* bound: cells masked

ASSUME LinkAssumption == Link \subseteq Column \X Column /\ NoRule \notin Strategy

VARIABLES
  rules,     \* the rule of each column
  proposed,  \* tables with a policy in the cache (_proposed_policies)
  seed,      \* what the generator of synthetic values was last seeded with
  request,   \* the cell that each request is masking
  masked,    \* the cells that were masked
  changes    \* changes of rules so far

maskVars == <<rules, proposed, seed, request, masked, changes>>

TableOf(column) == column[1]

Tables == {TableOf(column) : column \in Column}

Rule(strategy, salt, provider, static) ==
  [strategy |-> strategy, salt |-> salt, provider |-> provider, static |-> static]

MaskInit ==
  /\ rules \in Ruleset
  /\ proposed = {}
  /\ seed = "none"
  /\ request = [r \in Request |-> Free]
  /\ masked = {}
  /\ changes = 0

-----------------------------------------------------------------------------
(* Rules *)

MayChange == changes < MaxChanges /\ changes' = changes + 1

\* propose_masking_rule(): a synthetic name for what looks like one, a keyed hash
\* for the rest; the salt is the table's own.
ProposedRule(column, prefix) ==
  IF column \in HumanName THEN Rule("synthetic", <<prefix, TableOf(column)>>, "name", "none")
  ELSE Rule("deterministic", <<prefix, TableOf(column)>>, "none", "none")

\* The new policy takes the place of the one in the cache, edited or not.
Propose(t, prefix) ==
  /\ MayChange
  /\ rules' = [c \in Column |-> IF TableOf(c) # t THEN rules[c]
                                ELSE IF c \in Sensitive THEN ProposedRule(c, prefix) ELSE NoRule]
  /\ proposed' = proposed \cup {t}
  /\ UNCHANGED <<seed, request, masked>>

\* override_rule(): the provider of the rule that was there stays, and its salt
\* unless another is given; static values are not kept.
Override(column, strategy, salt) ==
  /\ TableOf(column) \in proposed
  /\ MayChange
  /\ LET existing == rules[column]
         kept == IF existing # NoRule THEN existing.salt ELSE <<"auto", TableOf(column)>>
     IN rules' = [rules EXCEPT ![column] =
                    Rule(strategy, IF salt # "none" THEN salt ELSE kept,
                         IF existing # NoRule THEN existing.provider ELSE "none", "none")]
  /\ UNCHANGED <<proposed, seed, request, masked>>

Parents(column) == {link[2] : link \in {link \in Link : link[1] = column}}

\* propagate_fk_rules(): each column of the table without a rule takes that of a
\* column it refers to.
Propagate(t) ==
  /\ MayChange
  /\ \E source \in [Column -> Column \cup {NoRule}] :
       /\ \A c \in Column :
            LET ruled == {p \in Parents(c) : rules[p] # NoRule}
            IN IF TableOf(c) = t /\ rules[c] = NoRule /\ ruled # {}
               THEN source[c] \in ruled ELSE source[c] = NoRule
       /\ rules' = [c \in Column |-> IF source[c] = NoRule THEN rules[c] ELSE rules[source[c]]]
  /\ UNCHANGED <<proposed, seed, request, masked>>

\* Mutant: only the strategies are compared.
DivergesInStrategy(child, parent) == child.strategy # parent.strategy

Diverges(child, parent) == child.strategy # parent.strategy \/ child.salt # parent.salt

\* verify_fk_consistency(): the links whose two columns have rules that diverge.
Problems ==
  {link \in Link : /\ rules[link[1]] # NoRule /\ rules[link[2]] # NoRule
                   /\ Diverges(rules[link[1]], rules[link[2]])}

-----------------------------------------------------------------------------
(* Masking a cell: mask_value() *)

\* What a rule that needs no generator makes of a cell.
MaskOf(rule, value) ==
  CASE rule.strategy = "nullify" -> {<<"null">>}
    [] rule.strategy = "static" -> {<<"static", IF rule.static # "none" THEN rule.static ELSE "***">>}
    [] rule.strategy = "random" -> {<<"random", draw>> : draw \in {0, 1}}
    [] OTHER -> {<<rule.strategy, rule.salt, value>>}

Masked(column, rule, value, out, alone) ==
  [column |-> column, rule |-> rule, value |-> value, out |-> out, alone |-> alone]

MayMask == Cardinality(masked) < MaxMasked

MaskCell(column, value) ==
  /\ MayMask
  /\ rules[column] # NoRule /\ rules[column].strategy # "synthetic"
  /\ \E out \in MaskOf(rules[column], value) :
       masked' = masked \cup {Masked(column, rules[column], value, out, TRUE)}
  /\ UNCHANGED <<rules, proposed, seed, request, changes>>

\* A synthetic value: the generator is seeded with the hash of the cell ...
SeedGenerator(r, column, value) ==
  /\ MayMask /\ request[r] = Free
  /\ rules[column] # NoRule /\ rules[column].strategy = "synthetic"
  /\ seed' = <<rules[column].salt, value>>
  /\ LET alone == \A other \in Request : request[other] = Free
     IN request' = [other \in Request |->
                      IF other = r
                      THEN [column |-> column, rule |-> rules[column], value |-> value, alone |-> alone]
                      ELSE IF request[other] = Free THEN Free ELSE [request[other] EXCEPT !.alone = FALSE]]
  /\ UNCHANGED <<rules, proposed, masked, changes>>

\* ... and then asked for a word, whatever it was seeded with since.
DrawWord(r) ==
  /\ request[r] # Free
  /\ masked' = masked \cup {Masked(request[r].column, request[r].rule, request[r].value,
                                  <<request[r].rule.provider, seed>>, request[r].alone)}
  /\ request' = [request EXCEPT ![r] = Free]
  /\ UNCHANGED <<rules, proposed, seed, changes>>

MaskNext ==
  \/ \E t \in Tables, prefix \in Salt : Propose(t, prefix)
  \/ \E column \in Column, strategy \in Strategy, salt \in Salt \cup {"none"} :
       Override(column, strategy, salt)
  \/ \E t \in Tables : Propagate(t)
  \/ \E column \in Column, value \in Datum : MaskCell(column, value)
  \/ \E r \in Request, column \in Column, value \in Datum : SeedGenerator(r, column, value)
  \/ \E r \in Request : DrawWord(r)

MaskSpec == MaskInit /\ [][MaskNext]_maskVars

-----------------------------------------------------------------------------
(* Properties *)

\* The rule gives a cell the same mask whenever it is applied.
Repeatable(rule) == rule.strategy # "random"

\* What verify_fk_consistency() does not compare, where the strategy uses it.
SameDetail(rule, other) ==
  /\ rule.strategy = "synthetic" => rule.provider = other.provider
  /\ rule.strategy = "static" => rule.static = other.static

\* Joins survive masking: where verify_fk_consistency() reports nothing about a
\* foreign key, cells that were equal in its two columns are equal once masked by
\* their present rules.  The strategy must be repeatable; the check does not compare
\* providers or static values, and requests that overlap share one generator.
MaskedJoins ==
  \A link \in Link \ Problems, m, n \in masked :
    (/\ m.column = link[1] /\ m.rule = rules[link[1]] /\ m.alone
     /\ n.column = link[2] /\ n.rule = rules[link[2]] /\ n.alone
     /\ m.value = n.value
     /\ Repeatable(m.rule) /\ SameDetail(m.rule, n.rule))
      => m.out = n.out
=============================================================================
