----------------------------- MODULE Search -----------------------------
(***************************************************************************)
(* A client walks through the results of a search of content items: the    *)
(* find method with its hooks (hooks/params.ts, hooks/search.ts,           *)
(* content-items.class.ts) and the adapters of util/solr.                  *)
(*                                                                         *)
(* Every page is a request of its own: the server keeps nothing between    *)
(* two, validates and clamps what it gets, and builds the query again.     *)
(* The index is not written during a walk.  Its documents are all those    *)
(* the filters could tell apart, in the order of the ranking.              *)
(***************************************************************************)
EXTENDS FilterQuery, FiniteSets

CONSTANTS
  Matches(_, _, _),  \* whether Solr finds a document by a text, at the top or not
  Ranking(_),        \* the order in which it lists a set of documents
  FilterLists,   \* the filters a client may send, as sequences
  Terms,         \* the search terms it may add, {} or values
  Limits,        \* the limits it may ask for, NoLimit included
  MaxLimit,      \* max_limit, 1000 in the code
  DefaultLimit   \* the limit without one, 10 in the code

ASSUME LimitsAssumption ==
  /\ MaxLimit \in Nat \ {0} /\ DefaultLimit \in 1 .. MaxLimit
  /\ Limits \subseteq Int \ {0}

(* A client may send any type, operator and context; the ranges 4 and 5 are dates. *)
Filters == {f \in [type : STRING, q : Seq(1 .. 5), op : STRING, context : STRING] :
              f.type = "daterange" \/ f.q \in Seq(Values)}

ASSUME FiltersAssumption == FilterLists \subseteq Seq(Filters) /\ Terms \subseteq Values

VARIABLES
  filters,   \* the filters of the client
  term,      \* its search term, 0 when there is none
  limit,     \* its limit
  way,       \* how it names a page: "page", or "offset" (and "skip")
  request,   \* the request under way
  shown,     \* the documents it has been shown, in order
  phase      \* "walking", "done" or "refused"

vars == <<filters, term, limit, way, request, shown, phase>>

NoLimit == -1
Idle == [at |-> 0]

-----------------------------------------------------------------------------
(***************************************************************************)
(* The index: every combination of what the fields of the filters' types   *)
(* may hold.  A text is in one language, in its field or in the one for    *)
(* all others, and a document may be in two collections.                   *)
(***************************************************************************)
Holdings(type) ==
  LET one(field) == {(field :> {v}) : v \in Values}
      any(field) == {(field :> s) : s \in SUBSET (1 .. 2)}
      either(f, g) == {(f :> s @@ g :> {}) : s \in SUBSET (1 .. 2)}
                        \cup {(f :> {} @@ g :> s) : s \in SUBSET (1 .. 2)}
  IN  CASE type \in {"string", "regex"} -> either("text_fr", "text")
        [] type = "title"      -> either("title_fr", "title")
        [] type = "entity"     -> either("pers", "loc")
        [] type = "topic"      -> any("topics")
        [] type = "collection" -> any("collection")
        [] type = "isFront"    -> {("front" :> {v}) : v \in 0 .. 1}
        [] type = "uid"        -> one("id")
        [] type = "language"   -> one("lg")
        [] type = "ocrQuality" -> one("ocrqa")
        [] type = "daterange"  -> one("date")

TypesOf(fs) == {fs[i].type : i \in DOMAIN fs}

Documents(fs) ==
  LET together(type, docs) == {d @@ h : d \in docs, h \in Holdings(type)}
  IN  FoldSet(together, {<<>>}, TypesOf(fs))

-----------------------------------------------------------------------------
(***************************************************************************)
(* validateEach with eachFilterValidator: a filter that leaves out its     *)
(* operator or its context gets the default, and one with an unknown type, *)
(* operator or context has the whole request refused.                      *)
(***************************************************************************)
Default(v, d) == IF v = "none" THEN d ELSE v
Valid(f) == /\ f.type \in DOMAIN Config
            /\ f.op \in {"none", "OR", "AND"}
            /\ f.context \in {"none", "include", "exclude"}
validated(f) == [f EXCEPT !.op = Default(@, "OR"), !.context = Default(@, "include")]

(* termToSolrFilter: the term becomes the first of the filters. *)
termToSolrFilter(fs, v) ==
  IF v = 0 THEN fs
  ELSE <<[type |-> "string", q |-> <<v>>, op |-> "OR", context |-> "include"]>> \o fs

(***************************************************************************)
(* queryWithCommonParams: the limit is clamped, and the offset counted     *)
(* from the page with the limit that is used.                              *)
(***************************************************************************)
Least(a, b) == IF a < b THEN a ELSE b
Clamped(n) == IF n > -1 THEN Least(n, MaxLimit) ELSE DefaultLimit
(* Mutant: the offset of a page is counted with the limit the client sent. *)
UnclampedOffset(req) ==
  IF req.way = "page"
  THEN (req.at - 1) * (IF req.limit > -1 THEN req.limit ELSE DefaultLimit) ELSE req.at

OffsetOf(req) ==
  IF req.way = "page" THEN (req.at - 1) * Clamped(req.limit) ELSE req.at

(* filtersToSolrQuery: without filters, everything. *)
SolrQuery(fs) ==
  IF fs = <<>> THEN [query |-> Everything, filter |-> <<>>] ELSE filtersToQuery(fs)

(* Mutant: the limit goes to Solr as the client sent it. *)
UnclampedRequest(fs, req) ==
  [select |-> SolrQuery(fs), limit |-> IF req.limit > -1 THEN req.limit ELSE DefaultLimit,
   offset |-> OffsetOf(req)]

(* findAllRequestAdapter *)
SolrRequest(fs, req) ==
  [select |-> SolrQuery(fs), limit |-> Clamped(req.limit), offset |-> OffsetOf(req)]

(* Solr: the documents that match the query and every entry of the filter. *)
Found(select, docs) ==
  Ranking({d \in docs : /\ Matches(select.query, d, TRUE)
                        /\ \A i \in DOMAIN select.filter : Matches(select.filter[i], d, TRUE)})

Window(found, solr) ==
  SubSeq(found, solr.offset + 1, Least(solr.offset + solr.limit, Len(found)))

-----------------------------------------------------------------------------
(* The filters the hooks leave of what the client sends, with every page. *)
Wishes == termToSolrFilter(Each(filters, validated), term)

Init ==
  /\ filters \in FilterLists
  /\ term \in Terms \cup {0}
  /\ limit \in Limits
  /\ way \in {"page", "offset"}
  /\ request = Idle
  /\ shown = <<>>
  /\ phase = "walking"

(* The client asks for the next page, by its number or by what it has. *)
Ask ==
  /\ phase = "walking" /\ request = Idle
  /\ request' = [way |-> way, limit |-> limit,
                 at |-> IF way = "page" THEN Len(shown) \div Clamped(limit) + 1
                                        ELSE Len(shown)]
  /\ UNCHANGED <<filters, term, limit, way, shown, phase>>

(* A filter that is not valid, or not to be translated, has the request refused. *)
Rejected == (\E i \in DOMAIN filters : ~Valid(filters[i])) \/ Refused(Wishes)

(* The answer: the page, its limit and offset, and the total. *)
Answered(solr, found) ==
  /\ shown' = shown \o Window(found, solr)
  /\ phase' = IF solr.offset + solr.limit >= Len(found) THEN "done" ELSE phase

Find ==
  /\ request # Idle
  /\ request' = Idle
  /\ IF Rejected
        THEN phase' = "refused" /\ UNCHANGED shown
        ELSE LET solr == SolrRequest(Wishes, request)
             IN  Answered(solr, Found(solr.select, Documents(Wishes)))
  /\ UNCHANGED <<filters, term, limit, way>>

Next == Ask \/ Find

Spec == Init /\ [][Next]_vars
-----------------------------------------------------------------------------
(* What a filter asks of a document, by its words. *)
Holds(f, d) ==
  LET c == Config[f.type]
      has(vals) == \E i \in DOMAIN c.fields : d[c.fields[i]] \cap vals # {}
      vs == {f.q[i] : i \in DOMAIN f.q}
      span == \/ f.type = "ocrQuality"
              \/ f.type = "daterange" /\ Len(f.q) = 2 /\ vs \subseteq Values
  IN  CASE f.q = <<>> -> has(Values)
        [] f.q # <<>> /\ span -> has(Span(f.q))
        [] f.q # <<>> /\ ~span /\ f.op = "AND" -> \A v \in vs : has(Period(v))
        [] OTHER -> \E v \in vs : has(Period(v))

Wanted(f, d) ==
  LET holds == IF f.type = "isFront" THEN 1 \in d["front"] ELSE Holds(f, d)
  IN  holds = (f.context = "include")

(***************************************************************************)
(* The filters whose words the query keeps.  The others are known not to   *)
(* mean what they say: several values of a string filter are joined        *)
(* without parentheses, regex does not look at the context and puts its    *)
(* operator between the fields, and the collections are matched one        *)
(* collection item at a time, and a flag is asked for even when excluded.  *)
(***************************************************************************)
Plain(fs) ==
  \A i \in DOMAIN fs :
    LET f == fs[i]
        alone == \A j \in DOMAIN fs \ {i} : fs[j].type # f.type
    IN  CASE f.type \in {"string", "title"} ->
               \/ Len(f.q) <= 1
               \/ /\ f.context = "include"
                  /\ f.op = "AND"
               \/ /\ f.context = "include"
                  /\ \A j \in DOMAIN fs \ {i} : Config[fs[j].type].to = "filter"
          [] f.type = "isFront" -> f.context = "include"
          [] f.type = "regex" -> f.context = "include" /\ f.op = "OR"
          [] f.type = "collection" ->
               /\ alone /\ f.context = "include"
               /\ f.q # <<>>
               /\ Len(f.q) = 1 \/ f.op = "OR"
          [] OTHER -> TRUE

Good(d) == \A i \in DOMAIN Wishes : Wanted(Wishes[i], d)

-----------------------------------------------------------------------------
(* The types of the variables; a request is for what the client walks through. *)
TypeOK ==
  /\ filters \in FilterLists /\ term \in Terms \cup {0}
  /\ limit \in Limits /\ way \in {"page", "offset"}
  /\ phase \in {"walking", "done", "refused"}
  /\ request # Idle => request.at \in Nat /\ request.limit = limit /\ request.way = way

(* The client has the start of what is found, and all of it by the end. *)
HasStartOf(found) ==
  /\ shown = SubSeq(found, 1, Len(shown))
  /\ phase = "done" => Len(shown) = Len(found)

(***************************************************************************)
(* What the client has been shown are whole pages from the start of what   *)
(* Solr finds, none left out and none repeated, until a last one, after    *)
(* which it has all of it: the clamped limit, the offset counted from it   *)
(* and the client's own count never disagree.                              *)
(***************************************************************************)
WalkInOrder ==
  /\ TypeOK
  /\ phase = "walking" => Len(shown) % Clamped(limit) = 0
  /\ \A j \in DOMAIN shown : \A i \in 1 .. j - 1 : shown[i] # shown[j]
  /\ (shown # <<>> \/ phase = "done")
        => HasStartOf(Found(SolrQuery(Wishes), Documents(Wishes)))

(***************************************************************************)
(* No document is shown that one of the filters leaves out: what the       *)
(* grouping by type, the parentheses, the NOTs and filter(...) make of     *)
(* several filters together still means all of them.                       *)
(***************************************************************************)
NothingUnwanted == Plain(Wishes) => \A i \in DOMAIN shown : Good(shown[i])

(***************************************************************************)
(* A walk that came to its end has shown every document the filters ask    *)
(* for, whether the client counts documents or pages and whatever limit it *)
(* asks for.                                                               *)
(***************************************************************************)
NothingMissed ==
  (phase = "done" /\ Plain(Wishes)) =>
     \A d \in Documents(Wishes) : Good(d) => \E i \in DOMAIN shown : shown[i] = d
=============================================================================
