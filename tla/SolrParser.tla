---------------------------- MODULE SolrParser ----------------------------
(***************************************************************************)
(* What Solr makes of a text: the standard query parser, with its default  *)
(* operator OR.  A clause with a NOT is prohibited, a clause with an AND   *)
(* on either side is required, any other is optional, and optional clauses *)
(* count only when nothing is required.  A query of prohibited clauses     *)
(* only matches nothing inside parentheses, and everything else at the     *)
(* top, which includes filter(...) and every entry of the filter list.  A  *)
(* document of a joined index holds one collection.  Read is the parser    *)
(* itself, on the texts inside.                                            *)
(***************************************************************************)
EXTENDS Naturals, Sequences

Kept(text) == {i \in DOMAIN text : ~text[i].not}
Required(text) == {i \in Kept(text) : \/ text[i].and
                                      \/ i < Len(text) /\ text[i + 1].and}

Reading(text, doc, top, Read(_, _, _)) ==
  LET Hit(q) ==
        CASE q.t = "all"    -> TRUE
          [] q.t = "term"   -> doc[q.field] \cap q.vals # {}
          [] q.t = "group"  -> Read(q.text, doc, FALSE)
          [] q.t = "filter" -> Read(q.text, doc, TRUE)
          [] q.t = "join"   -> \E c \in doc["collection"] :
                                  Read(q.text, [collection |-> {c}], TRUE)
  IN  CASE Len(text) = 1 /\ Kept(text) = {1} /\ text[1].q.t = "group" ->
             Read(text[1].q.text, doc, top)
        [] OTHER ->
             /\ \A i \in DOMAIN text \ Kept(text) : ~Hit(text[i].q)
             /\ CASE Required(text) # {} -> \A i \in Required(text) : Hit(text[i].q)
                  [] Kept(text) = {}     -> top
                  [] OTHER               -> \E i \in Kept(text) : Hit(text[i].q)
=============================================================================
