--------------------------- MODULE FilterQuery ---------------------------
(***************************************************************************)
(* From the filters of a search to the query text and the filter list of a *)
(* Solr request: src/util/solr/filterReducers.ts, filterBuilders/base.ts   *)
(* and util/solr/index.ts.                                                 *)
(*                                                                         *)
(* A filter is [type, q, op, context]; q is the sequence of its values,    *)
(* empty when the client sent none.  A value is a number in 1..3; for a    *)
(* date, 4 and 5 are the ranges "1 TO 2" and "2 TO 3" given as one string. *)
(* What a phrase, its precision or an escaped character means to Solr is   *)
(* abstracted: a value stands for a whole phrase.                          *)
(***************************************************************************)
EXTENDS SolrText

Values == 1 .. 3
Period(v) == IF v > 3 THEN v - 3 .. v - 2 ELSE {v}
Span(q) == IF q = <<>> THEN Values ELSE q[1] .. q[Len(q)]

(* The configuration of the search index, one type for each way a filter   *)
(* is treated: rule, fields, which part of the request it goes to, and     *)
(* whether it is wrapped in filter(...) there.                             *)
Config ==
  LET of(rule, fields, to, wrap) == [rule |-> rule, fields |-> fields, to |-> to, wrap |-> wrap]
  IN  [string     |-> of("string", <<"text_fr", "text">>, "query", FALSE),
       title      |-> of("string", <<"title_fr", "title">>, "query", TRUE),
       uid        |-> of("value", <<"id">>, "filter", FALSE),
       language   |-> of("value", <<"lg">>, "filter", FALSE),
       topic      |-> of("value", <<"topics">>, "query", TRUE),
       entity     |-> of("value", <<"pers", "loc">>, "query", TRUE),
       ocrQuality |-> of("numericRange", <<"ocrqa">>, "query", TRUE),
       daterange  |-> of("dateRange", <<"date">>, "filter", FALSE),
       isFront    |-> of("boolean", <<"front">>, "filter", FALSE),
       regex      |-> of("regex", <<"text_fr", "text">>, "query", TRUE),
       collection |-> of("joinCollection", <<"collection">>, "filter", FALSE)]

Each(s, Op(_)) == [i \in DOMAIN s |-> Op(s[i])]

(* The elements of a sequence at some of its places, in their order. *)
Picked(s, places) ==
  LET upto[n \in 0 .. Len(s)] ==
        IF n = 0 THEN <<>>
        ELSE IF n \in places THEN Append(upto[n - 1], s[n]) ELSE upto[n - 1]
  IN  upto[Len(s)]

-----------------------------------------------------------------------------
(***************************************************************************)
(* The rules value and idValue: the fields of a value, the values of a     *)
(* filter and the filters are each grouped as soon as there are several,   *)
(* and NOT comes before the group.                                         *)
(***************************************************************************)
InFields(fields, vals) == Grouped("OR", Each(fields, LAMBDA f : Term(f, vals)))
ValuesOf(f) == IF f.q = <<>> THEN <<Values>> ELSE Each(f.q, LAMBDA v : {v})

(* Mutant: the group of a filter's values is left out, so NOT negates the  *)
(* first of them only.                                                     *)
ungroupedStatement(f, fields) ==
  LET statement == Join(f.op, Each(ValuesOf(f), LAMBDA vals : InFields(fields, vals)))
  IN  IF f.context = "exclude" THEN Negated(statement) ELSE statement

filterStatement(f, fields) ==
  LET statement == Grouped(f.op, Each(ValuesOf(f), LAMBDA vals : InFields(fields, vals)))
  IN  IF f.context = "exclude" THEN Negated(statement) ELSE statement

valueBuilder(filters, fields) ==
  Grouped("AND", Each(filters, LAMBDA f : filterStatement(f, fields)))

(***************************************************************************)
(* The rule string: the values of a filter are joined without parentheses, *)
(* and an exclusion puts a NOT before a text that starts and ends with a   *)
(* parenthesis, or before its own parentheses.                             *)
(***************************************************************************)
Excluded(i, text) ==
  LET first == Negated(text) IN IF i > 1 THEN first ELSE Join("AND", <<Everything, first>>)

StringFilter(f, i, fields) ==
  LET text == Join(f.op, Each(ValuesOf(f), LAMBDA vals : InFields(fields, vals)))
      bracketed == Head(text).q.t = "group" /\ Last(text).q.t = "group"
  IN  IF f.context # "exclude" THEN text
      ELSE Excluded(i, IF bracketed THEN text ELSE Paren(text))

reduceStringFilters(filters, fields) ==
  Join("AND", [i \in DOMAIN filters |-> StringFilter(filters[i], i, fields)])

(* The range rules: an interval, or for dates several periods. *)
RangeFilter(text, f, i) ==
  IF f.context = "exclude" THEN Excluded(i, Paren(text)) ELSE text

reduceNumericRangeFilters(filters, field) ==
  Join("AND", [i \in DOMAIN filters |->
                 RangeFilter(Term(field, Span(filters[i].q)), filters[i], i)])

DateText(f, field) ==
  IF f.q = <<>> \/ (Len(f.q) = 2 /\ \A i \in 1 .. 2 : f.q[i] <= 3)
  THEN Term(field, Span(f.q))
  ELSE Grouped(f.op, Each(f.q, LAMBDA v : Term(field, Period(v))))

reduceDaterangeFilters(filters, field) ==
  Join("AND", [i \in DOMAIN filters |->
                 RangeFilter(DateText(filters[i], field), filters[i], i)])

(* The rule regex: the pieces of the expression must all be found; the     *)
(* operator joins the fields and the context is not looked at.             *)
reduceRegexFilters(filters, fields) ==
  LET pieces(f) == Each(ValuesOf(f), LAMBDA vals :
                          Grouped(f.op, Each(fields, LAMBDA fd : Term(fd, vals))))
  IN  Join("AND", FlattenSeq(Each(filters, pieces)))

(* The rule boolean looks at neither the values nor the context. *)
booleanHandler(field) == Term(field, {1})

(***************************************************************************)
(* The rule joinCollection: all the filters become one query on the index  *)
(* of collection items, of which each document names one collection.       *)
(***************************************************************************)
joinCollectionHandler(filters) ==
  LET named(op, context) ==
        Picked(filters, {i \in DOMAIN filters : filters[i].op = op /\ filters[i].context = context})
      ids(op, context) ==
        FlattenSeq(Each(named(op, context),
                        LAMBDA f : Each(f.q, LAMBDA v : Term("collection", {v}))))
      as(op) == ids(op, "include") \o Each(ids(op, "exclude"), Negated)
      all  == as("AND")
      some == as("OR")
  IN  Joined(CASE all # <<>> /\ some # <<>> ->
                    Join("AND", <<Paren(Join("AND", all)), Paren(Join("OR", some))>>)
               [] all # <<>> /\ some = <<>> -> Join("AND", all)
               [] OTHER -> Join("OR", some))

(***************************************************************************)
(* InvalidArgumentError: joinCollection without a collection, a regular    *)
(* expression given in parts, or an interval that has no two ends.         *)
(***************************************************************************)
Refused(filters) ==
  LET of(type) == {i \in DOMAIN filters : filters[i].type = type}
  IN  \/ of("collection") # {} /\ \A i \in of("collection") : filters[i].q = <<>>
      \/ \E i \in of("regex") : Len(filters[i].q) > 1
      \/ \E i \in of("ocrQuality") : Len(filters[i].q) \notin {0, 2}

-----------------------------------------------------------------------------
filtersToSolr(filters) ==
  LET c == Config[Head(filters).type]
  IN  CASE c.rule = "value"          -> valueBuilder(filters, c.fields)
        [] c.rule = "string"         -> reduceStringFilters(filters, c.fields)
        [] c.rule = "numericRange"   -> reduceNumericRangeFilters(filters, Head(c.fields))
        [] c.rule = "dateRange"      -> reduceDaterangeFilters(filters, Head(c.fields))
        [] c.rule = "regex"          -> reduceRegexFilters(filters, c.fields)
        [] c.rule = "boolean"        -> booleanHandler(Head(c.fields))
        [] c.rule = "joinCollection" -> joinCollectionHandler(filters)

(* A text that starts with NOT keeps it outside of filter(...). *)
wrapAsFilter(text) ==
  IF Head(text).not THEN Negated(Filtered([text EXCEPT ![1].not = FALSE]))
                    ELSE Filtered(text)

(* Filters of one type go together, types in the order they first appear.  *)
GroupedByType(filters) ==
  LET starts == {i \in DOMAIN filters : \A j \in 1 .. i - 1 : filters[j].type # filters[i].type}
  IN  Each(Picked(filters, starts),
           LAMBDA f : Picked(filters, {i \in DOMAIN filters : filters[i].type = f.type}))

filtersToQuery(filters) ==
  LET groups == GroupedByType(filters)
      sentTo(part) ==
        Picked(groups, {k \in DOMAIN groups : Config[Head(groups[k]).type].to = part})
      inQuery(g) == IF Config[Head(g).type].wrap THEN wrapAsFilter(filtersToSolr(g))
                                                 ELSE filtersToSolr(g)
      queries == Each(sentTo("query"), inQuery)
  IN  [query  |-> IF queries = <<>> THEN Everything ELSE Join("AND", queries),
       filter |-> Each(sentTo("filter"), filtersToSolr)]

=============================================================================
