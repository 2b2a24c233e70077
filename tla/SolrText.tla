---------------------------- MODULE SolrText ----------------------------
(***************************************************************************)
(* The text of a Solr query, as the filters build it.                      *)
(*                                                                         *)
(* A text is kept flat, as the parser meets it: a sequence of clauses      *)
(*      [and |-> follows an AND, not |-> follows a NOT, q |-> operand]     *)
(* so that joining two texts without parentheses mixes their clauses.  An  *)
(* operand is a field with the values it accepts, *:*, a text in           *)
(* parentheses, a text in filter(...), or a join with another index.       *)
(***************************************************************************)
EXTENDS Integers, SequencesExt

Clause(q) == <<[and |-> FALSE, not |-> FALSE, q |-> q]>>
Everything == Clause([t |-> "all"])                          \* *:*
Term(field, vals) == Clause([t |-> "term", field |-> field, vals |-> vals])
Paren(text)  == Clause([t |-> "group", text |-> text])
Filtered(text) == Clause([t |-> "filter", text |-> text])    \* filter(...)
Joined(text) == Clause([t |-> "join", text |-> text])        \* {!join ...}

(***************************************************************************)
(* NOT put before a text negates its first clause only, and texts joined   *)
(* by an operator put it before their first clause only.                   *)
(***************************************************************************)
Negated(text) == [text EXCEPT ![1].not = TRUE]

Join(op, texts) ==
  LET whole[n \in 1 .. Len(texts)] ==
        IF n = 1 THEN texts[1]
        ELSE whole[n - 1] \o [texts[n] EXCEPT ![1].and = op = "AND"]
  IN  whole[Len(texts)]

(* Several texts between parentheses, one text as it is. *)
Grouped(op, texts) == IF Len(texts) > 1 THEN Paren(Join(op, texts)) ELSE Head(texts)
=============================================================================
