---------------------------- MODULE MCSearch ----------------------------
(***************************************************************************)
(* Searches with up to two filters of one or two types, and a term.        *)
(***************************************************************************)
EXTENDS Search, SolrParser

(* The values of a filter, with AND only where there are several. *)
Asks(type) ==
  CASE type = "isFront"   -> {<<>>}
    [] type = "daterange" -> {<<>>, <<2>>, <<1, 2>>, <<4, 5>>}
    [] OTHER              -> {<<>>, <<1>>, <<1, 2>>}

FiltersOf(type) ==
  {f \in [type : {type}, q : Asks(type), op : {"OR", "AND"}, context : {"include", "exclude"}] :
     Len(f.q) < 2 => f.op = "OR"}

AllFilters == UNION {FiltersOf(type) : type \in DOMAIN Config}

(* In pairs, filters with values; uid is treated like language. *)
Paired == {f \in AllFilters : f.type = "isFront" \/ (f.q # <<>> /\ f.type # "uid")}

(* Filters that leave the validation something to do. *)
Unusual == [type : {"language", "nothing"}, q : {<<1, 2>>}, op : {"none", "AND", "XOR"},
            context : {"none", "exclude", "neither"}]

UpToTwo == {<<>>} \cup {<<f>> : f \in AllFilters \cup Unusual} \cup (Paired \X Paired)

RECURSIVE Matched(_, _, _)
Matched(text, doc, top) == Reading(text, doc, top, Matched)

(* Solr ranks documents in some order, always the same. *)
RECURSIVE SomeOrder(_)
SomeOrder(docs) ==
  IF docs = {} THEN <<>>
  ELSE LET first == CHOOSE d \in docs : TRUE IN <<first>> \o SomeOrder(docs \ {first})

SomeTerm == {2}
AnyLimit == {NoLimit, 40}
=============================================================================
