---------------------------- MODULE QuotaBudget ----------------------------
(***************************************************************************)
(* What the quota checker promises a user, with Redis, clocks and the      *)
(* bloom filter left out: within one window documents are charged one by   *)
(* one and never refunded, at most Limit of them, and a new window starts  *)
(* with exactly the document that opened it.                               *)
(***************************************************************************)
EXTENDS Naturals, FiniteSets

CONSTANTS Docs,   (* documents a user may open                             *)
          Limit   (* quotaLimit: unique documents per window               *)

VARIABLE charged  (* documents charged in the current window; {} between   *)
                  (* windows                                               *)

Init == charged = {}

\* First access ever, or first access after the previous window ended.
Open(d) == charged' = {d}

\* A new document within the window.
Charge(d) ==
    /\ charged # {}
    /\ Cardinality(charged) < Limit
    /\ charged' = charged \cup {d}

\* The window ends.
Close == charged' = {}

Next == Close \/ \E d \in Docs : Open(d) \/ Charge(d)

Spec == Init /\ [][Next]_charged
=============================================================================
