---------------------------- MODULE SearchProofs ----------------------------
(***************************************************************************)
(* Proofs about Search, SolrText, SolrParser and FilterQuery.              *)
(*                                                                         *)
(* For any list of filters of any length: what Solr, which reads a text as *)
(* SolrParser says, selects by the request the filters become, is what     *)
(* every one of them asks for, as long as they are Plain and not Refused.  *)
(* For any filters, limits and order of Solr's: the walk through the pages *)
(* shows exactly that, in order.                                           *)
(***************************************************************************)
EXTENDS Search, SolrParser, WellFoundedInduction, TLAPS

-----------------------------------------------------------------------------
(* Induction, and the texts: their clauses, and what joins them. *)

\* Induction over the natural numbers, for a set in place of a predicate.
LEMMA Induction ==
  ASSUME NEW T, 0 \in T, \A n \in Nat : n \in T => n + 1 \in T
  PROVE  Nat \subseteq T
<1> DEFINE R == OpToRel(<, Nat)
           U == Nat \ T
<1> SUFFICES ASSUME U # {} PROVE FALSE
  OBVIOUS
<1>1. IsWellFoundedOn(R, Nat)
  BY NatLessThanWellFounded
<1>2. U \subseteq Nat
  OBVIOUS
<1>3. \A x, y \in Nat : y < x => <<y, x>> \in R
  BY DEF OpToRel
<1> HIDE DEF R
<1>4. PICK x \in U : \A y \in U : <<y, x>> \notin R
  <2> HIDE DEF U
  <2> QED
    BY <1>1, <1>2, WFMin
<1>5. x - 1 \in Nat /\ x - 1 < x /\ (x - 1) + 1 = x
  OBVIOUS
<1>6. x - 1 \in T
  BY <1>3, <1>4, <1>5
<1>7. QED
  BY <1>5, <1>6

\* A function may be defined by what it is at 0 and by its last value.
StepsIn(step, V) == \A n \in Nat : \A v \in V : step[n][v] \in V
HasIterates(base, step, V, N) ==
  \E f \in [0 .. N -> V] : f[0] = base /\ \A n \in 1 .. N : f[n] = step[n][f[n - 1]]

\* A function with these values exists.
LEMMA Iterates ==
  ASSUME NEW V, NEW base \in V, NEW step, StepsIn(step, V), NEW N \in Nat
  PROVE  HasIterates(base, step, V, N)
<1> DEFINE Follows(f, m) == f[0] = base /\ \A n \in 1 .. m : f[n] = step[n][f[n - 1]]
           T == {m \in Nat : \E f \in [0 .. m -> V] : Follows(f, m)}
<1>1. 0 \in T
  <2>1. [n \in 0 .. 0 |-> base] \in [0 .. 0 -> V] /\ Follows([n \in 0 .. 0 |-> base], 0)
    OBVIOUS
  <2>2. QED
    BY <2>1
<1>2. ASSUME NEW m \in Nat, m \in T PROVE m + 1 \in T
  <2>1. PICK f \in [0 .. m -> V] : Follows(f, m)
    BY <1>2
  <2> DEFINE g == [n \in 0 .. (m + 1) |-> IF n = m + 1 THEN step[m + 1][f[m]] ELSE f[n]]
  <2>2. step[m + 1][f[m]] \in V
    BY DEF StepsIn
  <2>3. g \in [0 .. (m + 1) -> V]
    BY <2>2
  <2>4. g[0] = base
    BY <2>1
  <2>5. ASSUME NEW n \in 1 .. (m + 1) PROVE g[n] = step[n][g[n - 1]]
    <3>1. CASE n = m + 1
      BY <3>1
    <3>2. CASE n # m + 1
      <4>1. n \in 1 .. m /\ n - 1 \in 0 .. m
        BY <3>2
      <4>2. g[n] = f[n] /\ g[n - 1] = f[n - 1]
        BY <4>1
      <4>3. QED
        BY <2>1, <4>1, <4>2
    <3>3. QED
      BY <3>1, <3>2
  <2>6. Follows(g, m + 1)
    BY <2>4, <2>5
  <2> HIDE DEF g, Follows
  <2>7. QED
    BY <2>3, <2>6
<1> HIDE DEF T
<1>3. N \in T
  BY <1>1, <1>2, Induction
<1>4. QED
  BY <1>3 DEF T, HasIterates

-----------------------------------------------------------------------------
Clauses(Q) == [and : BOOLEAN, not : BOOLEAN, q : Q]
Texts(Q) == Seq(Clauses(Q)) \ {<<>>}
Operands(text) == {text[i].q : i \in DOMAIN text}
IsText(text) == text \in Texts(Operands(text))
IsList(s) == Len(s) \in Nat /\ DOMAIN s = 1 .. Len(s)

Parts(text) == {[not |-> text[i].not, q |-> text[i].q] : i \in DOMAIN text}
Conj(text) == \A i \in 2 .. Len(text) : text[i].and
Disj(text) == \A i \in DOMAIN text : ~text[i].and /\ ~text[i].not

\* A clause, and what a change of one of its flags makes of it.
LEMMA ClauseFacts ==
  ASSUME NEW Q, NEW c \in Clauses(Q)
  PROVE  /\ c.and \in BOOLEAN /\ c.not \in BOOLEAN /\ c.q \in Q
         /\ \A P : c.q \in P => c \in Clauses(P)
         /\ \A b \in BOOLEAN : LET new == [c EXCEPT !.and = b]
               IN  new \in Clauses(Q) /\ new.and = b /\ new.not = c.not /\ new.q = c.q
         /\ \A b \in BOOLEAN : LET new == [c EXCEPT !.not = b]
               IN  new \in Clauses(Q) /\ new.not = b /\ new.and = c.and /\ new.q = c.q
BY DEF Clauses

\* A text is one over the set of its own operands.
LEMMA TextIn ==
  ASSUME NEW Q, NEW text \in Texts(Q)
  PROVE  IsText(text)
<1>1. text \in Seq(Clauses(Q)) /\ text # <<>>
  BY DEF Texts
<1>2. \A i \in DOMAIN text : text[i] \in Clauses(Operands(text))
  <2> SUFFICES ASSUME NEW i \in DOMAIN text PROVE text[i] \in Clauses(Operands(text))
    OBVIOUS
  <2>1. text[i] \in Clauses(Q) /\ text[i].q \in Operands(text)
    BY <1>1 DEF Operands
  <2>2. QED
    BY <2>1, ClauseFacts
<1>3. text \in Seq(Clauses(Operands(text)))
  BY <1>1, <1>2
<1>4. QED
  BY <1>1, <1>3 DEF IsText, Texts

\* A text over some operands is one over more of them.
LEMMA TextWider ==
  ASSUME NEW text, IsText(text), NEW Q, Operands(text) \subseteq Q
  PROVE  text \in Texts(Q)
<1>1. text \in Seq(Clauses(Operands(text))) /\ text # <<>>
  BY DEF Texts, IsText
<1>2. Clauses(Operands(text)) \subseteq Clauses(Q)
  BY DEF Clauses
<1> QED
  BY <1>1, <1>2 DEF Texts

\* A clause of a text is a record of two flags and an operand.
LEMMA TextFacts ==
  ASSUME NEW text, IsText(text)
  PROVE  /\ IsList(text) /\ Len(text) >= 1
         /\ \A i \in DOMAIN text : text[i].and \in BOOLEAN /\ text[i].not \in BOOLEAN
         /\ Head(text) = text[1]
<1>1. text \in Seq(Clauses(Operands(text))) /\ text # <<>>
  BY DEF IsText, Texts
<1>2. IsList(text) /\ Len(text) >= 1 /\ Head(text) = text[1]
  BY <1>1 DEF IsList
<1>3. \A i \in DOMAIN text : text[i] \in Clauses(Operands(text))
  BY <1>1
<1>4. QED
  BY <1>2, <1>3, ClauseFacts

\* A text whose first clause follows an operator, or none.
After(text, b) == [text EXCEPT ![1].and = b]

\* A text put after an operator keeps its length and its parts.
LEMMA Following ==
  ASSUME NEW Q, NEW text \in Texts(Q), NEW b \in BOOLEAN
  PROVE  /\ After(text, b) \in Texts(Q) /\ Len(After(text, b)) = Len(text)
         /\ After(text, b)[1] = [text[1] EXCEPT !.and = b] /\ After(text, b)[1].and = b
         /\ After(text, b)[1].not = text[1].not /\ After(text, b)[1].q = text[1].q
         /\ Tail(After(text, b)) = Tail(text)
         /\ Parts(After(text, b)) = Parts(text)
<1>1. text \in Seq(Clauses(Q)) /\ Len(text) \in Nat /\ Len(text) >= 1 /\ DOMAIN text = 1 .. Len(text)
  BY DEF Texts
<1> DEFINE first == [text[1] EXCEPT !.and = b]
           new == After(text, b)
<1>2. /\ first \in Clauses(Q) /\ first.and = b
      /\ first.not = text[1].not /\ first.q = text[1].q
  <2>1. text[1] \in Clauses(Q)
    BY <1>1
  <2>2. QED
    BY <2>1, ClauseFacts
<1>3. new = [text EXCEPT ![1] = first]
  BY DEF After
<1> HIDE DEF first, new
<1>4. new \in Seq(Clauses(Q)) /\ Len(new) = Len(text) /\ new[1] = first
      /\ DOMAIN new = 1 .. Len(text) /\ \A i \in 2 .. Len(text) : new[i] = text[i]
  BY <1>1, <1>2, <1>3
<1>5. new # <<>>
  BY <1>1, <1>4
<1>6. Parts(new) = Parts(text)
  <2>1. \A i \in 1 .. Len(text) : new[i].not = text[i].not /\ new[i].q = text[i].q
    <3> TAKE i \in 1 .. Len(text)
    <3>1. i = 1 \/ i \in 2 .. Len(text)
      BY <1>1
    <3>2. QED
      BY <1>2, <1>4, <3>1
  <2>2. QED
    BY <1>1, <1>4, <2>1 DEF Parts
<1>7. Tail(new) = Tail(text)
  BY <1>1, <1>4
<1> QED
  BY <1>2, <1>4, <1>5, <1>6, <1>7 DEF Texts, first, new

\* Texts with the same tail agree on every clause but the first.
LEMMA TailFacts ==
  ASSUME NEW Q, NEW text \in Texts(Q), NEW other \in Texts(Q), Len(other) = Len(text),
         Tail(other) = Tail(text), NEW i \in 2 .. Len(text)
  PROVE  other[i] = text[i]
<1>1. /\ text \in Seq(Clauses(Q)) /\ other \in Seq(Clauses(Q)) /\ text # <<>> /\ other # <<>>
      /\ Len(text) \in Nat
  BY DEF Texts
<1>2. i - 1 \in 1 .. Len(text) - 1 /\ (i - 1) + 1 = i
  BY <1>1
<1>3. Tail(text)[i - 1] = text[i] /\ Tail(other)[i - 1] = other[i]
  BY <1>1, <1>2
<1>4. QED
  BY <1>3

\* Join is a function of the texts so far.
JoinsAs(op, texts, Q) ==
  \E whole \in [1 .. Len(texts) -> Texts(Q)] :
    /\ Join(op, texts) = whole[Len(texts)]
    /\ whole[1] = texts[1]
    /\ \A n \in 2 .. Len(texts) : whole[n] = whole[n - 1] \o After(texts[n], op = "AND")

\* Join is built up text by text.
LEMMA JoinSteps ==
  ASSUME NEW Q, NEW op, NEW texts, IsList(texts), Len(texts) >= 1,
         \A k \in DOMAIN texts : texts[k] \in Texts(Q)
  PROVE  JoinsAs(op, texts, Q)
<1> DEFINE N == Len(texts)
           after(n) == After(texts[n], op = "AND")
           Rec(g) == [n \in 1 .. N |-> IF n = 1 THEN texts[1] ELSE g[n - 1] \o after(n)]
           step == [n \in Nat |-> [v \in Texts(Q) |-> IF n \in 1 .. N THEN v \o after(n) ELSE v]]
<1>1. N \in Nat /\ N >= 1 /\ DOMAIN texts = 1 .. N
  BY DEF IsList
<1>2. ASSUME NEW n \in 1 .. N PROVE after(n) \in Texts(Q)
  BY <1>1, Following
<1> HIDE DEF after
<1>3. ASSUME NEW n \in Nat, NEW v \in Texts(Q) PROVE step[n][v] \in Texts(Q)
  <2>1. CASE n \in 1 .. N
    <3>1. v \o after(n) \in Seq(Clauses(Q)) /\ Len(v \o after(n)) = Len(v) + Len(after(n))
          /\ Len(v) \in Nat /\ Len(v) > 0 /\ Len(after(n)) \in Nat
      BY <1>2, <2>1 DEF Texts
    <3>2. v \o after(n) # <<>>
      BY <3>1
    <3>3. QED
      BY <2>1, <3>1, <3>2 DEF Texts
  <2>2. CASE n \notin 1 .. N
    BY <2>2
  <2>3. QED
    BY <2>1, <2>2
<1>4. PICK f \in [0 .. (N - 1) -> Texts(Q)] :
        f[0] = texts[1] /\ \A n \in 1 .. (N - 1) : f[n] = step[n + 1][f[n - 1]]
  <2> DEFINE next == [m \in Nat |-> step[m + 1]]
  <2>1. \A n \in Nat : \A v \in Texts(Q) : next[n][v] \in Texts(Q)
    <3> HIDE DEF step
    <3> QED BY <1>3
  <2>2. N - 1 \in Nat /\ texts[1] \in Texts(Q)
    BY <1>1
  <2>3. \A n \in 1 .. (N - 1) : next[n] = step[n + 1]
    BY <2>2
  <2> HIDE DEF step, next, N
  <2>4. \E f \in [0 .. (N - 1) -> Texts(Q)] :
          f[0] = texts[1] /\ \A n \in 1 .. (N - 1) : f[n] = next[n][f[n - 1]]
    <3> DEFINE M == N - 1
               V == Texts(Q)
    <3>1. M \in Nat /\ texts[1] \in V
      BY <2>2
    <3>2. StepsIn(next, V)
      BY <2>1 DEF StepsIn
    <3> DEFINE base == texts[1]
    <3> HIDE DEF M, V, base
    <3>3. HasIterates(base, next, V, M)
      BY <3>1, <3>2, Iterates DEF base
    <3>4. QED
      BY <3>3 DEF HasIterates, M, V, base
  <2>5. QED
    BY <2>3, <2>4
<1> DEFINE g == [n \in 1 .. N |-> f[n - 1]]
<1>5. g = Rec(g)
  <2> SUFFICES ASSUME NEW n \in 1 .. N PROVE g[n] = IF n = 1 THEN texts[1] ELSE g[n - 1] \o after(n)
    OBVIOUS
  <2>1. CASE n = 1
    BY <1>1, <1>4, <2>1
  <2>2. CASE n # 1
    <3>1. n - 1 \in 1 .. (N - 1) /\ n - 1 \in Nat /\ (n - 1) + 1 = n /\ n - 2 \in 0 .. (N - 1)
          /\ n - 1 \in 1 .. N /\ n \in Nat
      BY <1>1, <2>2
    <3>2. f[n - 1] = step[n][f[n - 2]] /\ f[n - 2] \in Texts(Q)
      <4> HIDE DEF step
      <4>1. (n - 1) - 1 = n - 2
        BY <3>1
      <4>2. QED
        BY <1>4, <3>1, <4>1
    <3>3. step[n][f[n - 2]] = f[n - 2] \o after(n)
      BY <3>1, <3>2
    <3>4. QED
      BY <2>2, <3>1, <3>2, <3>3
  <2>3. QED
    BY <2>1, <2>2
<1> DEFINE whole == CHOOSE h : h = Rec(h)
<1>6. whole = Rec(whole)
  <2> HIDE DEF g, Rec, N
  <2> QED BY <1>5
<1>7. Join(op, texts) = whole[N]
  BY DEF Join, after, After
<1> HIDE DEF whole
<1>8. /\ whole[1] = texts[1]
      /\ \A n \in 2 .. N : whole[n] = whole[n - 1] \o after(n)
  <2>1. \A n \in 1 .. N : whole[n] = IF n = 1 THEN texts[1] ELSE whole[n - 1] \o after(n)
    BY <1>6
  <2>2. 1 \in 1 .. N /\ \A n \in 2 .. N : n \in 1 .. N /\ n # 1
    BY <1>1
  <2> HIDE DEF N
  <2>3. QED
    BY <2>1, <2>2
<1>9. whole \in [1 .. N -> Texts(Q)]
  <2> DEFINE T == {n \in Nat : n + 1 \in 1 .. N => whole[n + 1] \in Texts(Q)}
  <2>1. 0 \in T
    BY <1>1, <1>8
  <2>2. ASSUME NEW n \in Nat, n \in T PROVE n + 1 \in T
    <3> SUFFICES ASSUME (n + 1) + 1 \in 1 .. N PROVE whole[(n + 1) + 1] \in Texts(Q)
      OBVIOUS
    <3>1. whole[n + 1] \in Texts(Q) /\ (n + 1) + 1 \in 2 .. N /\ ((n + 1) + 1) - 1 = n + 1 /\ (n+1)+1 \in Nat
      BY <1>1, <2>2
    <3>2. whole[(n + 1) + 1] = whole[n + 1] \o after((n + 1) + 1)
      BY <1>8, <3>1
    <3>3. step[(n + 1) + 1][whole[n + 1]] = whole[n + 1] \o after((n + 1) + 1)
      BY <3>1
    <3> QED
      BY <1>3, <3>1, <3>2, <3>3
  <2> HIDE DEF T
  <2>3. Nat \subseteq T
    BY <2>1, <2>2, Induction
  <2>4. \A n \in 1 .. N : n - 1 \in Nat /\ (n - 1) + 1 = n
    BY <1>1
  <2>5. \A n \in 1 .. N : whole[n] \in Texts(Q)
    BY <2>3, <2>4 DEF T
  <2>6. whole = [n \in 1 .. N |-> whole[n]]
    BY <1>6
  <2>7. QED
    BY <2>5, <2>6
<1>10. QED
  BY <1>7, <1>8, <1>9 DEF after, JoinsAs

\* The parts of a text put after another.
LEMMA JoinedParts ==
  ASSUME NEW Q, NEW text \in Texts(Q), NEW next \in Texts(Q)
  PROVE  LET both == text \o next
         IN  /\ both \in Texts(Q) /\ Len(both) = Len(text) + Len(next)
             /\ Parts(both) = Parts(text) \cup Parts(next)
             /\ \A i \in 1 .. Len(text) : both[i] = text[i]
             /\ \A i \in 1 .. Len(next) : both[Len(text) + i] = next[i]
             /\ \A i \in 1 .. Len(both) :
                   \/ i \in 1 .. Len(text)
                   \/ i - Len(text) \in 1 .. Len(next) /\ both[i] = next[i - Len(text)]
<1> DEFINE both == text \o next
<1>1. /\ text \in Seq(Clauses(Q)) /\ next \in Seq(Clauses(Q)) /\ text # <<>> /\ next # <<>>
      /\ Len(text) \in Nat /\ Len(next) \in Nat /\ Len(text) > 0
      /\ DOMAIN text = 1 .. Len(text) /\ DOMAIN next = 1 .. Len(next)
  BY DEF Texts
<1>2. both \in Seq(Clauses(Q)) /\ Len(both) = Len(text) + Len(next) /\ DOMAIN both = 1 .. Len(both)
  BY <1>1
<1>3. \A i \in 1 .. Len(text) : both[i] = text[i]
  BY <1>1
<1>4. \A i \in 1 .. Len(next) : both[Len(text) + i] = next[i]
  BY <1>1
<1> HIDE DEF both
<1>5. ASSUME NEW i \in 1 .. Len(both)
      PROVE  \/ i \in 1 .. Len(text)
             \/ i - Len(text) \in 1 .. Len(next) /\ both[i] = next[i - Len(text)]
  <2>1. CASE i <= Len(text)
    BY <1>1, <1>2, <2>1
  <2>2. CASE i > Len(text)
    <3>1. i - Len(text) \in 1 .. Len(next) /\ Len(text) + (i - Len(text)) = i
      BY <1>1, <1>2, <2>2
    <3>2. QED
      BY <1>4, <3>1
  <2>3. QED
    BY <1>1, <1>2, <2>1, <2>2
<1>6. both # <<>>
  BY <1>1, <1>2
<1>7. ASSUME NEW i \in 1 .. Len(text) PROVE i \in 1 .. Len(both)
  BY <1>1, <1>2
<1>8. ASSUME NEW i \in 1 .. Len(next) PROVE Len(text) + i \in 1 .. Len(both)
  BY <1>1, <1>2
<1>9. Parts(both) \subseteq Parts(text) \cup Parts(next)
  <2> SUFFICES ASSUME NEW i \in 1 .. Len(both)
               PROVE  [not |-> both[i].not, q |-> both[i].q] \in Parts(text) \cup Parts(next)
    BY <1>2 DEF Parts
  <2>1. CASE i \in 1 .. Len(text)
    BY <1>1, <1>3, <2>1 DEF Parts
  <2>2. CASE i - Len(text) \in 1 .. Len(next) /\ both[i] = next[i - Len(text)]
    BY <1>1, <2>2 DEF Parts
  <2>3. QED
    BY <1>5, <2>1, <2>2
<1>10. Parts(text) \cup Parts(next) \subseteq Parts(both)
  <2>1. ASSUME NEW i \in 1 .. Len(text)
        PROVE [not |-> text[i].not, q |-> text[i].q] \in Parts(both)
    BY <1>2, <1>3, <1>7 DEF Parts
  <2>2. ASSUME NEW i \in 1 .. Len(next)
        PROVE [not |-> next[i].not, q |-> next[i].q] \in Parts(both)
    BY <1>2, <1>4, <1>8 DEF Parts
  <2>3. QED
    BY <1>1, <2>1, <2>2 DEF Parts
<1>11. QED
  BY <1>2, <1>3, <1>4, <1>5, <1>6, <1>9, <1>10 DEF Texts, both

\* What Join makes of several texts.
LEMMA JoinFacts ==
  ASSUME NEW op, NEW texts, IsList(texts), Len(texts) >= 1,
         \A k \in DOMAIN texts : IsText(texts[k])
  PROVE  /\ IsText(Join(op, texts))
         /\ Parts(Join(op, texts)) = UNION {Parts(texts[k]) : k \in DOMAIN texts}
         /\ Join(op, texts)[1] = texts[1][1]
         /\ Len(texts) = 1 => Join(op, texts) = texts[1]
         /\ Len(texts) > 1 => Len(Join(op, texts)) > 1
         /\ op = "AND" /\ (\A k \in DOMAIN texts : Conj(texts[k])) => Conj(Join(op, texts))
         /\ op # "AND" /\ (\A k \in DOMAIN texts : Disj(texts[k])) => Disj(Join(op, texts))
<1> DEFINE N == Len(texts)
           Q == UNION {Operands(texts[k]) : k \in DOMAIN texts}
           b == op = "AND"
           after(n) == After(texts[n], b)
<1>1. N \in Nat /\ N >= 1 /\ DOMAIN texts = 1 .. N /\ b \in BOOLEAN
  BY DEF IsList
<1>2. \A k \in DOMAIN texts : texts[k] \in Texts(Q)
  BY TextWider
<1> HIDE DEF Q
<1>3. PICK whole \in [1 .. N -> Texts(Q)] :
        /\ Join(op, texts) = whole[N]
        /\ whole[1] = texts[1]
        /\ \A n \in 2 .. N : whole[n] = whole[n - 1] \o after(n)
  <2>1. JoinsAs(op, texts, Q)
    BY <1>1, <1>2, JoinSteps
  <2>2. QED
    BY <2>1 DEF JoinsAs
<1> HIDE DEF N
<1>4. ASSUME NEW n \in 1 .. N
      PROVE  /\ after(n) \in Texts(Q) /\ Len(after(n)) = Len(texts[n])
             /\ Parts(after(n)) = Parts(texts[n]) /\ Tail(after(n)) = Tail(texts[n])
             /\ after(n)[1].and = b /\ after(n)[1].not = texts[n][1].not
  <2>1. texts[n] \in Texts(Q)
    BY <1>1, <1>2
  <2>2. QED
    BY <1>1, <2>1, Following
<1> HIDE DEF after
<1> DEFINE Upto(n) == UNION {Parts(texts[k]) : k \in 1 .. n}
           AllConj == b /\ \A k \in DOMAIN texts : Conj(texts[k])
           AllDisj == ~b /\ \A k \in DOMAIN texts : Disj(texts[k])
           Claim(n) == /\ Parts(whole[n]) = Upto(n)
                       /\ whole[n][1] = texts[1][1]
                       /\ n > 1 => Len(whole[n]) > 1
                       /\ AllConj => Conj(whole[n])
                       /\ AllDisj => Disj(whole[n])
           T == {n \in Nat : n + 1 \in 1 .. N => Claim(n + 1)}
<1>5. 0 \in T
  <2>1. Upto(1) = Parts(texts[1])
    <3>1. 1 .. 1 = {1}
      OBVIOUS
    <3>2. QED
      BY <3>1
  <2>2. Claim(1)
    BY <1>1, <1>3, <2>1
  <2>3. QED
    BY <2>2
<1>6. ASSUME NEW n \in Nat, n \in T PROVE n + 1 \in T
  <2> DEFINE m == n + 1
  <2> SUFFICES ASSUME m + 1 \in 1 .. N PROVE Claim(m + 1)
    OBVIOUS
  <2>1. m \in 1 .. N /\ m + 1 \in 2 .. N /\ (m + 1) - 1 = m /\ m \in Nat \ {0}
    BY <1>1
  <2>2. Claim(m)
    BY <1>6, <2>1
  <2> HIDE DEF m, Claim
  <2> DEFINE old == whole[m]
             next == after(m + 1)
             new == whole[m + 1]
  <2>3. new = old \o next
    BY <1>3, <2>1
  <2>4. old \in Texts(Q) /\ next \in Texts(Q)
    BY <1>1, <1>3, <1>4, <2>1
  <2>5. m + 1 \in 1 .. N /\ m + 1 \in DOMAIN texts
    BY <1>1
  <2>6. /\ Len(next) = Len(texts[m + 1]) /\ Parts(next) = Parts(texts[m + 1])
        /\ next[1].and = b /\ next[1].not = texts[m + 1][1].not
        /\ \A i \in 2 .. Len(texts[m + 1]) : next[i] = texts[m + 1][i]
    <3>1. texts[m + 1] \in Texts(Q)
      BY <1>2, <2>5
    <3>2. Len(next) = Len(texts[m + 1]) /\ Tail(next) = Tail(texts[m + 1])
      BY <1>4, <2>5
    <3>3. \A i \in 2 .. Len(texts[m + 1]) : next[i] = texts[m + 1][i]
      <4> HIDE DEF next
      <4> QED BY <2>4, <3>1, <3>2, TailFacts
    <3>4. QED
      BY <1>4, <2>5, <3>3
  <2> HIDE DEF old, next, new
  <2>7. /\ new \in Texts(Q) /\ Len(new) = Len(old) + Len(next)
        /\ Parts(new) = Parts(old) \cup Parts(next)
        /\ \A i \in 1 .. Len(old) : new[i] = old[i]
        /\ \A i \in 1 .. Len(new) :
              \/ i \in 1 .. Len(old)
              \/ i - Len(old) \in 1 .. Len(next) /\ new[i] = next[i - Len(old)]
    BY <2>3, <2>4, JoinedParts
  <2>8. /\ Len(old) \in Nat /\ Len(old) >= 1 /\ Len(next) \in Nat /\ Len(next) >= 1
        /\ DOMAIN old = 1 .. Len(old) /\ DOMAIN new = 1 .. Len(new)
    BY <2>4, <2>7 DEF Texts
  <2>9. Parts(new) = Upto(m + 1)
    <3>1. 1 .. (m + 1) = (1 .. m) \cup {m + 1}
      BY <2>1
    <3>2. Upto(m + 1) = Upto(m) \cup Parts(texts[m + 1])
      BY <3>1
    <3>3. QED
      BY <2>2, <2>6, <2>7, <3>2 DEF Claim, old
  <2>10. new[1] = texts[1][1] /\ Len(new) > 1
    BY <2>2, <2>7, <2>8 DEF Claim, old
  <2>11. ASSUME AllConj PROVE Conj(new)
    <3> SUFFICES ASSUME NEW i \in 2 .. Len(new) PROVE new[i].and
      BY DEF Conj
    <3>1. Conj(old) /\ Conj(texts[m + 1]) /\ b
      BY <2>2, <2>5, <2>11 DEF Claim, old
    <3>2. i \in 1 .. Len(new)
      BY <2>7, <2>8
    <3>3. CASE i \in 1 .. Len(old)
      <4>1. i \in 2 .. Len(old)
        BY <2>8, <3>3
      <4>2. QED
        BY <2>7, <3>1, <3>3, <4>1 DEF Conj
    <3>4. CASE i - Len(old) \in 1 .. Len(next) /\ new[i] = next[i - Len(old)]
      <4>1. CASE i - Len(old) = 1
        BY <2>6, <3>1, <3>4, <4>1
      <4>2. CASE i - Len(old) # 1
        <5>1. i - Len(old) \in 2 .. Len(texts[m + 1])
          BY <2>6, <2>8, <3>4, <4>2
        <5>2. QED
          BY <2>6, <3>1, <3>4, <5>1 DEF Conj
      <4>3. QED
        BY <4>1, <4>2
    <3>5. QED
      BY <2>7, <3>2, <3>3, <3>4
  <2>12. ASSUME AllDisj PROVE Disj(new)
    <3> SUFFICES ASSUME NEW i \in 1 .. Len(new) PROVE ~new[i].and /\ ~new[i].not
      BY <2>8 DEF Disj
    <3>1. Disj(old) /\ Disj(texts[m + 1]) /\ ~b
      BY <2>2, <2>5, <2>12 DEF Claim, old
    <3>2. DOMAIN texts[m + 1] = 1 .. Len(next) /\ Len(texts[m + 1]) = Len(next)
      BY <1>2, <2>5, <2>6 DEF Texts
    <3>3. CASE i \in 1 .. Len(old)
      BY <2>7, <2>8, <3>1, <3>3 DEF Disj
    <3>4. CASE i - Len(old) \in 1 .. Len(next) /\ new[i] = next[i - Len(old)]
      <4>0. ~texts[m + 1][i - Len(old)].and /\ ~texts[m + 1][i - Len(old)].not
        BY <3>1, <3>2, <3>4 DEF Disj
      <4>1. CASE i - Len(old) = 1
        BY <2>6, <3>1, <3>4, <4>0, <4>1
      <4>2. CASE i - Len(old) # 1
        <5>1. i - Len(old) \in 2 .. Len(texts[m + 1])
          BY <2>8, <3>2, <3>4, <4>2
        <5>2. QED
          BY <2>6, <3>4, <4>0, <5>1
      <4>3. QED
        BY <4>1, <4>2
    <3>5. QED
      BY <2>7, <3>3, <3>4
  <2>13. QED
    BY <2>9, <2>10, <2>11, <2>12 DEF Claim, new
<1> HIDE DEF T
<1>7. N - 1 \in T
  <2>1. Nat \subseteq T
    BY <1>5, <1>6, Induction
  <2>2. QED
    BY <1>1, <2>1
<1>8. Claim(N)
  <2>1. N - 1 \in Nat /\ (N - 1) + 1 = N /\ N \in 1 .. N
    BY <1>1
  <2>2. (N - 1) + 1 \in 1 .. N => Claim((N - 1) + 1)
    <3> HIDE DEF Claim
    <3> QED BY <1>7 DEF T
  <2> HIDE DEF Claim
  <2>3. QED
    BY <2>1, <2>2
<1>9. IsText(Join(op, texts))
  BY <1>1, <1>3, TextIn
<1>10. Upto(N) = UNION {Parts(texts[k]) : k \in DOMAIN texts}
  BY <1>1
<1>11. QED
  BY <1>1, <1>3, <1>8, <1>9, <1>10 DEF N

-----------------------------------------------------------------------------
(* What Solr reads: a text of one clause, of clauses that must all hold, and of alternatives. *)

\* Solr reads a text as SolrParser says.
Reads == \A text, doc, top : Matches(text, doc, top) <=> Reading(text, doc, top, Matches)

\* What an operand is worth on a document inside a text of several clauses,
\* and whether its parentheses can be dropped when it is alone.
Hits(q, d) ==
  CASE q.t = "all"    -> TRUE
    [] q.t = "term"   -> d[q.field] \cap q.vals # {}
    [] q.t = "group"  -> Matches(q.text, d, FALSE)
    [] q.t = "filter" -> Matches(q.text, d, TRUE)
    [] q.t = "join"   -> \E c \in d["collection"] : Matches(q.text, [collection |-> {c}], TRUE)
Steady(q, d) == q.t = "group" => (Matches(q.text, d, TRUE) <=> Matches(q.text, d, FALSE))
AllSteady(text, d) == \A p \in Parts(text) : Steady(p.q, d)

PartHolds(p, d) == IF p.not THEN ~Hits(p.q, d) ELSE Hits(p.q, d)
AllHold(text, d) == \A p \in Parts(text) : PartHolds(p, d)
SomeHits(text, d) == \E p \in Parts(text) : Hits(p.q, d)
SomeKept(text) == \E p \in Parts(text) : ~p.not

\* What holds for the parts of a text, place by place.
LEMMA PartsAt ==
  ASSUME NEW text, IsText(text), NEW d
  PROVE  /\ AllHold(text, d) <=> \A i \in DOMAIN text :
               IF text[i].not THEN ~Hits(text[i].q, d) ELSE Hits(text[i].q, d)
         /\ SomeHits(text, d) <=> \E i \in DOMAIN text : Hits(text[i].q, d)
         /\ SomeKept(text) <=> \E i \in DOMAIN text : ~text[i].not
         /\ AllSteady(text, d) <=> \A i \in DOMAIN text : Steady(text[i].q, d)
<1>1. \A i \in DOMAIN text : [not |-> text[i].not, q |-> text[i].q] \in Parts(text)
  BY DEF Parts
<1>2. \A p \in Parts(text) : \E i \in DOMAIN text : p.not = text[i].not /\ p.q = text[i].q
  BY DEF Parts
<1>3. ASSUME NEW i \in DOMAIN text
      PROVE  LET p == [not |-> text[i].not, q |-> text[i].q]
             IN  p \in Parts(text) /\ p.not = text[i].not /\ p.q = text[i].q
  BY <1>1
<1>4. QED
  BY <1>2, <1>3 DEF AllHold, PartHolds, SomeHits, SomeKept, AllSteady

\* A text of one clause.
LEMMA ReadOne ==
  ASSUME Reads, NEW text, IsText(text), Len(text) = 1, NEW d, NEW top \in BOOLEAN
  PROVE  /\ text[1].not => (Matches(text, d, top) <=> top /\ ~Hits(text[1].q, d))
         /\ ~text[1].not /\ text[1].q.t # "group" => (Matches(text, d, top) <=> Hits(text[1].q, d))
         /\ ~text[1].not /\ text[1].q.t = "group"
               => (Matches(text, d, top) <=> Matches(text[1].q.text, d, top))
<1>1. DOMAIN text = {1} /\ text[1].not \in BOOLEAN /\ text[1].and \in BOOLEAN
  BY TextFacts DEF IsList
<1>2. Matches(text, d, top) <=> Reading(text, d, top, Matches)
  BY DEF Reads
<1> DEFINE kept == {i \in DOMAIN text : ~text[i].not}
<1>3. (text[1].not => kept = {} /\ DOMAIN text \ kept = {1})
      /\ (~text[1].not => kept = {1} /\ DOMAIN text \ kept = {})
  BY <1>1
<1>4. QED
  BY <1>1, <1>2, <1>3 DEF Reading, Kept, Required, Hits

\* A text joined by AND throughout: every part of it must hold, and inside of
\* parentheses one of them must not be a NOT.
LEMMA ReadConj ==
  ASSUME Reads, NEW text, IsText(text), Conj(text), NEW d, AllSteady(text, d), NEW top \in BOOLEAN
  PROVE  Matches(text, d, top) <=> AllHold(text, d) /\ (top \/ SomeKept(text))
<1>1. /\ Len(text) \in Nat /\ Len(text) >= 1 /\ DOMAIN text = 1 .. Len(text)
      /\ \A i \in DOMAIN text : text[i].and \in BOOLEAN /\ text[i].not \in BOOLEAN
  BY TextFacts DEF IsList
<1>2. CASE Len(text) = 1
  <2>1. DOMAIN text = {1}
    BY <1>1, <1>2
  <2>2. /\ AllHold(text, d) <=> IF text[1].not THEN ~Hits(text[1].q, d) ELSE Hits(text[1].q, d)
        /\ SomeKept(text) <=> ~text[1].not
        /\ Steady(text[1].q, d)
    BY <2>1, PartsAt
  <2>3. CASE text[1].not
    BY <1>2, <2>2, <2>3, ReadOne
  <2>4. CASE ~text[1].not /\ text[1].q.t # "group"
    BY <1>2, <2>2, <2>4, ReadOne
  <2>5. CASE ~text[1].not /\ text[1].q.t = "group"
    <3>1. Matches(text, d, top) <=> Matches(text[1].q.text, d, top)
      BY <1>2, <2>5, ReadOne
    <3>2. Hits(text[1].q, d) <=> Matches(text[1].q.text, d, FALSE)
      BY <2>5 DEF Hits
    <3>3. Matches(text[1].q.text, d, top) <=> Matches(text[1].q.text, d, FALSE)
      BY <2>2, <2>5 DEF Steady
    <3>4. QED
      BY <2>2, <2>5, <3>1, <3>2, <3>3
  <2>6. QED
    BY <2>3, <2>4, <2>5
<1>3. CASE Len(text) # 1
  <2> DEFINE kept == {i \in DOMAIN text : ~text[i].not}
             required == {i \in kept : text[i].and \/ (i < Len(text) /\ text[i + 1].and)}
  <2>1. required = kept
    <3> SUFFICES ASSUME NEW i \in kept
                 PROVE  text[i].and \/ (i < Len(text) /\ text[i + 1].and)
      OBVIOUS
    <3>1. CASE i = 1
      <4>1. 2 \in 2 .. Len(text) /\ i < Len(text) /\ i + 1 = 2
        BY <1>1, <1>3, <3>1
      <4>2. QED
        BY <4>1 DEF Conj
    <3>2. CASE i # 1
      <4>1. i \in 2 .. Len(text)
        BY <1>1, <3>2
      <4>2. QED
        BY <4>1 DEF Conj
    <3>3. QED
      BY <3>1, <3>2
  <2>2. Matches(text, d, top) <=> Reading(text, d, top, Matches)
    BY DEF Reads
  <2>3. Reading(text, d, top, Matches) <=>
          /\ \A i \in DOMAIN text \ kept : ~Hits(text[i].q, d)
          /\ CASE required # {} -> \A i \in required : Hits(text[i].q, d)
               [] kept = {}     -> top
               [] OTHER         -> \E i \in kept : Hits(text[i].q, d)
    BY <1>3 DEF Reading, Kept, Required, Hits
  <2>4. (required # {} <=> SomeKept(text)) /\ (kept = {} <=> ~SomeKept(text))
    BY <2>1, PartsAt
  <2>5. AllHold(text, d) <=> (\A i \in DOMAIN text \ kept : ~Hits(text[i].q, d))
                               /\ (\A i \in kept : Hits(text[i].q, d))
    BY PartsAt
  <2>6. ~SomeKept(text) => \A i \in kept : Hits(text[i].q, d)
    BY <2>4
  <2> HIDE DEF kept, required
  <2>7. QED
    BY <2>1, <2>2, <2>3, <2>4, <2>5, <2>6
<1>4. QED
  BY <1>2, <1>3

\* A text of alternatives: one of them must hold.
LEMMA ReadDisj ==
  ASSUME Reads, NEW text, IsText(text), Disj(text), NEW d, AllSteady(text, d), NEW top \in BOOLEAN
  PROVE  Matches(text, d, top) <=> SomeHits(text, d)
<1>1. /\ Len(text) \in Nat /\ Len(text) >= 1 /\ DOMAIN text = 1 .. Len(text)
  BY TextFacts DEF IsList
<1>0. \A i \in DOMAIN text : ~text[i].and /\ ~text[i].not
  BY DEF Disj
<1>2. CASE Len(text) = 1
  <2>1. DOMAIN text = {1} /\ ~text[1].not
    BY <1>0, <1>1, <1>2
  <2>2. /\ SomeHits(text, d) <=> Hits(text[1].q, d)
        /\ Steady(text[1].q, d)
    BY <2>1, PartsAt
  <2>4. CASE text[1].q.t # "group"
    BY <1>2, <2>1, <2>2, <2>4, ReadOne
  <2>5. CASE text[1].q.t = "group"
    <3>1. Matches(text, d, top) <=> Matches(text[1].q.text, d, top)
      BY <1>2, <2>1, <2>5, ReadOne
    <3>2. Hits(text[1].q, d) <=> Matches(text[1].q.text, d, FALSE)
      BY <2>5 DEF Hits
    <3>3. Matches(text[1].q.text, d, top) <=> Matches(text[1].q.text, d, FALSE)
      BY <2>2, <2>5 DEF Steady
    <3>4. QED
      BY <2>2, <2>5, <3>1, <3>2, <3>3
  <2>6. QED
    BY <2>4, <2>5
<1>3. CASE Len(text) # 1
  <2> DEFINE kept == {i \in DOMAIN text : ~text[i].not}
             required == {i \in kept : text[i].and \/ (i < Len(text) /\ text[i + 1].and)}
  <2>1. kept = DOMAIN text /\ kept # {}
    BY <1>0, <1>1
  <2>2. required = {}
    <3> SUFFICES ASSUME NEW i \in kept
                 PROVE  ~text[i].and /\ (i < Len(text) => ~text[i + 1].and)
      OBVIOUS
    <3>1. i \in DOMAIN text /\ (i < Len(text) => i + 1 \in DOMAIN text)
      BY <1>1
    <3>2. QED
      BY <1>0, <3>1
  <2>3. Matches(text, d, top) <=> Reading(text, d, top, Matches)
    BY DEF Reads
  <2>4. Reading(text, d, top, Matches) <=>
          /\ \A i \in DOMAIN text \ kept : ~Hits(text[i].q, d)
          /\ CASE required # {} -> \A i \in required : Hits(text[i].q, d)
               [] kept = {}     -> top
               [] OTHER         -> \E i \in kept : Hits(text[i].q, d)
    BY <1>3 DEF Reading, Kept, Required, Hits
  <2>5. SomeHits(text, d) <=> \E i \in DOMAIN text : Hits(text[i].q, d)
    BY PartsAt
  <2> HIDE DEF kept, required
  <2>6. QED
    BY <2>1, <2>2, <2>3, <2>4, <2>5
<1>4. QED
  BY <1>2, <1>3

-----------------------------------------------------------------------------
(* Solid texts mean the same wherever they are put; sound ones when they are required. *)

\* A text of one clause that may stand anywhere, and what it is worth.
Solid(text, d) ==
  IsText(text) /\ Len(text) = 1 /\ ~text[1].and /\ ~text[1].not /\ Steady(text[1].q, d)
Val(text, d) == Hits(text[1].q, d)

\* A text that may be followed by AND.
Sound(text, d) == IsText(text) /\ Conj(text) /\ AllSteady(text, d)

\* A text of one plain clause.
LEMMA SingleClause ==
  ASSUME NEW q
  PROVE  /\ IsText(Clause(q)) /\ Len(Clause(q)) = 1
         /\ ~Clause(q)[1].and /\ ~Clause(q)[1].not /\ Clause(q)[1].q = q
<1>1. Clause(q) = <<[and |-> FALSE, not |-> FALSE, q |-> q]>>
  BY DEF Clause
<1>2. Operands(Clause(q)) = {q}
  BY <1>1 DEF Operands
<1>3. Clause(q) \in Seq(Clauses({q})) /\ Clause(q) # <<>>
  BY <1>1 DEF Clauses
<1>4. IsText(Clause(q))
  BY <1>2, <1>3 DEF IsText, Texts
<1>5. QED
  BY <1>1, <1>4

\* What a solid text is worth does not depend on where it is read.
LEMMA SolidFacts ==
  ASSUME Reads, NEW d, NEW text, Solid(text, d)
  PROVE  /\ IsText(text) /\ Conj(text) /\ Disj(text) /\ AllSteady(text, d) /\ SomeKept(text)
         /\ Sound(text, d)
         /\ AllHold(text, d) <=> Val(text, d)
         /\ SomeHits(text, d) <=> Val(text, d)
         /\ \A top \in BOOLEAN : Matches(text, d, top) <=> Val(text, d)
         /\ Matches(text, d, TRUE) <=> Val(text, d)
         /\ Matches(text, d, FALSE) <=> Val(text, d)
<1>1. IsText(text) /\ DOMAIN text = {1} /\ 2 .. Len(text) = {}
      /\ ~text[1].and /\ ~text[1].not /\ Steady(text[1].q, d)
  BY TextFacts DEF Solid, IsList
<1>2. Conj(text) /\ Disj(text)
  BY <1>1 DEF Conj, Disj
<1>3. /\ AllHold(text, d) <=> Val(text, d)
      /\ SomeHits(text, d) <=> Val(text, d)
      /\ SomeKept(text) /\ AllSteady(text, d)
  BY <1>1, PartsAt DEF Val
<1>4. \A top \in BOOLEAN : Matches(text, d, top) <=> Val(text, d)
  BY <1>1, <1>2, <1>3, ReadDisj
<1>5. TRUE \in BOOLEAN /\ FALSE \in BOOLEAN
  OBVIOUS
<1>6. QED
  BY <1>1, <1>2, <1>3, <1>4, <1>5 DEF Sound

\* A field with its values is solid.
LEMMA TermSolid ==
  ASSUME NEW d, NEW field, NEW vals
  PROVE  Solid(Term(field, vals), d) /\ (Val(Term(field, vals), d) <=> d[field] \cap vals # {})
<1> DEFINE q == [t |-> "term", field |-> field, vals |-> vals]
<1>1. Term(field, vals) = Clause(q)
  BY DEF Term
<1>2. Steady(q, d) /\ (Hits(q, d) <=> d[field] \cap vals # {})
  BY DEF Steady, Hits
<1> HIDE DEF q
<1>3. QED
  BY <1>1, <1>2, SingleClause DEF Solid, Val

\* *:* is solid and always holds.
LEMMA EverythingSolid ==
  ASSUME NEW d
  PROVE  Solid(Everything, d) /\ Val(Everything, d)
<1> DEFINE q == [t |-> "all"]
<1>1. Everything = Clause(q)
  BY DEF Everything
<1>2. Steady(q, d) /\ Hits(q, d)
  BY DEF Steady, Hits
<1> HIDE DEF q
<1>3. QED
  BY <1>1, <1>2, SingleClause DEF Solid, Val

\* A text in parentheses that reads the same inside of them as at the top.
LEMMA ParenSolid ==
  ASSUME NEW d, NEW text, Matches(text, d, TRUE) <=> Matches(text, d, FALSE)
  PROVE  Solid(Paren(text), d) /\ (Val(Paren(text), d) <=> Matches(text, d, TRUE))
<1> DEFINE q == [t |-> "group", text |-> text]
<1>1. Paren(text) = Clause(q)
  BY DEF Paren
<1>2. Steady(q, d) /\ (Hits(q, d) <=> Matches(text, d, TRUE))
  BY DEF Steady, Hits
<1> HIDE DEF q
<1>3. QED
  BY <1>1, <1>2, SingleClause DEF Solid, Val

\* At the top the parentheses of a whole text change nothing.
LEMMA ParenAtTop ==
  ASSUME Reads, NEW d, NEW text
  PROVE  IsText(Paren(text)) /\ ~Paren(text)[1].not
         /\ (Matches(Paren(text), d, TRUE) <=> Matches(text, d, TRUE))
<1> DEFINE q == [t |-> "group", text |-> text]
<1>1. Paren(text) = Clause(q) /\ q.t = "group" /\ q.text = text
  BY DEF Paren
<1> HIDE DEF q
<1>2. /\ IsText(Paren(text)) /\ Len(Paren(text)) = 1
      /\ ~Paren(text)[1].not /\ Paren(text)[1].q = q
  BY <1>1, SingleClause
<1>3. Matches(Paren(text), d, TRUE) <=> Matches(Paren(text)[1].q.text, d, TRUE)
  BY <1>1, <1>2, ReadOne
<1>4. QED
  BY <1>1, <1>2, <1>3

\* filter(...) makes a solid text of any text.
LEMMA FilteredSolid ==
  ASSUME NEW d, NEW text
  PROVE  Solid(Filtered(text), d) /\ (Val(Filtered(text), d) <=> Matches(text, d, TRUE))
<1> DEFINE q == [t |-> "filter", text |-> text]
<1>1. Filtered(text) = Clause(q)
  BY DEF Filtered
<1>2. Steady(q, d) /\ (Hits(q, d) <=> Matches(text, d, TRUE))
  BY DEF Steady, Hits
<1> HIDE DEF q
<1>3. QED
  BY <1>1, <1>2, SingleClause DEF Solid, Val

\* A join is solid.
LEMMA JoinedSolid ==
  ASSUME NEW d, NEW text
  PROVE  /\ Solid(Joined(text), d)
         /\ Val(Joined(text), d) <=>
              \E c \in d["collection"] : Matches(text, [collection |-> {c}], TRUE)
<1> DEFINE q == [t |-> "join", text |-> text]
<1>1. Joined(text) = Clause(q)
  BY DEF Joined
<1>2. Steady(q, d) /\ (Hits(q, d) <=>
        \E c \in d["collection"] : Matches(text, [collection |-> {c}], TRUE))
  BY DEF Steady, Hits
<1> HIDE DEF q
<1>3. QED
  BY <1>1, <1>2, SingleClause DEF Solid, Val

\* A list of one element.
LEMMA OneElement ==
  ASSUME NEW S, NEW s \in Seq(S), Len(s) = 1, NEW e \in S
  PROVE  [s EXCEPT ![1] = e] = <<e>> /\ s = <<s[1]>>
OBVIOUS

\* NOT before a single clause.
LEMMA NegatedSolid ==
  ASSUME NEW d, NEW text, Solid(text, d)
  PROVE  /\ Sound(Negated(text), d) /\ Len(Negated(text)) = 1
         /\ Negated(text)[1].not /\ [Negated(text) EXCEPT ![1].not = FALSE] = text
         /\ AllHold(Negated(text), d) <=> ~Val(text, d)
<1> DEFINE Q == Operands(text)
           first == [text[1] EXCEPT !.not = TRUE]
<1>1. text \in Seq(Clauses(Q)) /\ Len(text) = 1 /\ DOMAIN text = {1}
  BY DEF Solid, IsText, Texts
<1>2. text[1] \in Clauses(Q) /\ ~text[1].not
  <2> HIDE DEF Q
  <2>1. 1 \in DOMAIN text
    BY <1>1
  <2>2. text[1] \in Clauses(Q)
    BY <1>1, <2>1
  <2>3. QED
    BY <2>2 DEF Solid
<1>3. first \in Clauses(Q) /\ first.not /\ first.q = text[1].q
      /\ [first EXCEPT !.not = FALSE] = text[1]
  BY <1>2 DEF Clauses
<1>4. Negated(text) = [text EXCEPT ![1] = first]
  BY DEF Negated
<1> HIDE DEF first, Q
<1>5. Negated(text) \in Seq(Clauses(Q)) /\ Len(Negated(text)) = 1 /\ Negated(text)[1] = first
      /\ DOMAIN Negated(text) = {1} /\ Negated(text) # <<>> /\ 2 .. Len(Negated(text)) = {}
  <2>1. Negated(text) = <<first>> /\ first \in Clauses(Q)
    <3> DEFINE C == Clauses(Q)
    <3>1. text \in Seq(C) /\ Len(text) = 1 /\ first \in C
      BY <1>1, <1>3
    <3> HIDE DEF C
    <3>2. QED
      BY <1>4, <3>1, OneElement DEF C
  <2>2. QED
    BY <2>1
<1>6. IsText(Negated(text))
  <2> HIDE DEF Q
  <2>1. Negated(text) \in Texts(Q)
    BY <1>5 DEF Texts
  <2>2. QED
    BY <2>1, TextIn
<1>7. Conj(Negated(text))
  BY <1>5 DEF Conj
<1>8. AllSteady(Negated(text), d) /\ (AllHold(Negated(text), d) <=> ~Val(text, d))
  BY <1>3, <1>5, <1>6, PartsAt DEF Solid, Val
<1>9. [Negated(text) EXCEPT ![1].not = FALSE] = text
  <2>1. [Negated(text) EXCEPT ![1].not = FALSE] = [Negated(text) EXCEPT ![1] = text[1]]
    BY <1>3, <1>5
  <2> DEFINE C == Clauses(Q)
             new == Negated(text)
  <2>2. /\ text \in Seq(C) /\ Len(text) = 1 /\ text[1] \in C
        /\ new \in Seq(C) /\ Len(new) = 1
    BY <1>1, <1>2, <1>5
  <2> HIDE DEF C, new
  <2>3. [new EXCEPT ![1] = text[1]] = <<text[1]>> /\ text = <<text[1]>>
    BY <2>2, OneElement
  <2>4. QED
    BY <2>1, <2>3 DEF new
<1>10. QED
  BY <1>3, <1>5, <1>6, <1>7, <1>8, <1>9 DEF Sound

-----------------------------------------------------------------------------
\* Sound texts joined by AND are sound, and hold when all of them do.
LEMMA JoinSound ==
  ASSUME NEW d, NEW texts, IsList(texts), Len(texts) >= 1,
         \A k \in DOMAIN texts : Sound(texts[k], d)
  PROVE  /\ Sound(Join("AND", texts), d)
         /\ AllHold(Join("AND", texts), d) <=> \A k \in DOMAIN texts : AllHold(texts[k], d)
         /\ SomeKept(Join("AND", texts)) <=> \E k \in DOMAIN texts : SomeKept(texts[k])
<1>1. \A k \in DOMAIN texts : IsText(texts[k]) /\ Conj(texts[k])
  BY DEF Sound
<1> DEFINE J == Join("AND", texts)
<1>2. IsText(J) /\ Conj(J) /\ Parts(J) = UNION {Parts(texts[k]) : k \in DOMAIN texts}
  BY <1>1, JoinFacts
<1> HIDE DEF J
<1>3. QED
  BY <1>2 DEF Sound, AllSteady, AllHold, SomeKept, J

\* Single clauses joined by OR are alternatives.
LEMMA JoinAlternatives ==
  ASSUME Reads, NEW d, NEW op, op # "AND", NEW texts, IsList(texts), Len(texts) >= 1,
         \A k \in DOMAIN texts : Solid(texts[k], d)
  PROVE  /\ IsText(Join(op, texts))
         /\ \A top \in BOOLEAN : Matches(Join(op, texts), d, top) <=> \E k \in DOMAIN texts : Val(texts[k], d)
<1>1. \A k \in DOMAIN texts : /\ IsText(texts[k]) /\ Disj(texts[k]) /\ AllSteady(texts[k], d)
                              /\ SomeHits(texts[k], d) <=> Val(texts[k], d)
  BY SolidFacts
<1> DEFINE J == Join(op, texts)
<1>2. IsText(J) /\ Disj(J) /\ Parts(J) = UNION {Parts(texts[k]) : k \in DOMAIN texts}
  BY <1>1, JoinFacts
<1> HIDE DEF J
<1>3. AllSteady(J, d) /\ (SomeHits(J, d) <=> \E k \in DOMAIN texts : SomeHits(texts[k], d))
  BY <1>1, <1>2 DEF AllSteady, SomeHits
<1>4. \A top \in BOOLEAN : Matches(J, d, top) <=> SomeHits(J, d)
  BY <1>2, <1>3, ReadDisj
<1>5. QED
  BY <1>1, <1>2, <1>3, <1>4 DEF J

\* The same of texts in parentheses, where there are several.
LEMMA GroupedSolid ==
  ASSUME Reads, NEW d, NEW op, NEW texts, IsList(texts), Len(texts) >= 1,
         \A k \in DOMAIN texts : Solid(texts[k], d)
  PROVE  /\ Solid(Grouped(op, texts), d)
         /\ Val(Grouped(op, texts), d) <=> IF op = "AND" THEN \A k \in DOMAIN texts : Val(texts[k], d)
                                                         ELSE \E k \in DOMAIN texts : Val(texts[k], d)
<1> DEFINE J == Join(op, texts)
<1>1. Len(texts) \in Nat /\ DOMAIN texts = 1 .. Len(texts) /\ 1 \in DOMAIN texts
  BY DEF IsList
<1>2. CASE Len(texts) = 1
  <2>1. Grouped(op, texts) = texts[1] /\ DOMAIN texts = {1}
    BY <1>1, <1>2 DEF Grouped
  <2>2. QED
    BY <2>1
<1>3. CASE Len(texts) # 1
  <2>1. Grouped(op, texts) = Paren(J)
    BY <1>1, <1>3 DEF Grouped
  <2>2. TRUE \in BOOLEAN /\ FALSE \in BOOLEAN
    OBVIOUS
  <2>3. CASE op = "AND"
    <3>1. \A k \in DOMAIN texts : /\ Sound(texts[k], d) /\ SomeKept(texts[k])
                                  /\ AllHold(texts[k], d) <=> Val(texts[k], d)
      BY SolidFacts
    <3>2. /\ Sound(J, d) /\ SomeKept(J)
          /\ AllHold(J, d) <=> \A k \in DOMAIN texts : Val(texts[k], d)
      BY <1>1, <2>3, <3>1, JoinSound
    <3> HIDE DEF J
    <3>3. /\ Matches(J, d, TRUE) <=> AllHold(J, d)
          /\ Matches(J, d, FALSE) <=> AllHold(J, d)
      BY <2>2, <3>2, ReadConj DEF Sound
    <3>4. QED
      BY <2>1, <2>3, <3>2, <3>3, ParenSolid
  <2>4. CASE op # "AND"
    <3>1. /\ Matches(J, d, TRUE) <=> \E k \in DOMAIN texts : Val(texts[k], d)
          /\ Matches(J, d, FALSE) <=> \E k \in DOMAIN texts : Val(texts[k], d)
      BY <2>2, <2>4, JoinAlternatives
    <3> HIDE DEF J
    <3>2. QED
      BY <2>1, <2>4, <3>1, ParenSolid
  <2>5. QED
    BY <2>3, <2>4
<1>4. QED
  BY <1>2, <1>3

-----------------------------------------------------------------------------
(* The filters, their types and their values. *)

\* A filter as the validation leaves it.
Wish == {f \in [type : DOMAIN Config, q : Seq(1 .. 5), op : {"OR", "AND"},
                context : {"include", "exclude"}] : f.type = "daterange" \/ f.q \in Seq(Values)}

Fields(type) == Config[type].fields
Has(type, vals, d) == \E i \in DOMAIN Fields(type) : d[Fields(type)[i]] \cap vals # {}

TypeFacts(type) ==
  /\ IsList(Fields(type)) /\ Len(Fields(type)) >= 1 /\ Head(Fields(type)) = Fields(type)[1]
  /\ Config[type].to \in {"query", "filter"} /\ Config[type].wrap \in BOOLEAN
  /\ type \in {"string", "title"} <=> Config[type].rule = "string"
  /\ type \in {"uid", "language", "topic", "entity"} <=> Config[type].rule = "value"
  /\ type = "ocrQuality" <=> Config[type].rule = "numericRange"
  /\ type = "daterange" <=> Config[type].rule = "dateRange"
  /\ type = "isFront" <=> Config[type].rule = "boolean"
  /\ type = "regex" <=> Config[type].rule = "regex"
  /\ type = "collection" <=> Config[type].rule = "joinCollection"
  /\ type \in {"ocrQuality", "daterange", "isFront", "collection"} => Len(Fields(type)) = 1
  /\ Config[type].to = "query" /\ ~Config[type].wrap <=> type = "string"
  /\ type = "title" => Config[type].to = "query"

\* What the proofs use of the configuration of the search index.
LEMMA ConfigFacts ==
  /\ DOMAIN Config = {"string", "title", "uid", "language", "topic", "entity", "ocrQuality",
                      "daterange", "isFront", "regex", "collection"}
  /\ \A type \in DOMAIN Config : TypeFacts(type)
  /\ Fields("isFront") = <<"front">> /\ Fields("collection") = <<"collection">>
<1>1. DOMAIN Config = {"string", "title", "uid", "language", "topic", "entity", "ocrQuality",
                       "daterange", "isFront", "regex", "collection"}
  BY DEF Config
<1>2. TypeFacts("string")
  <2>1. Config["string"] = [rule |-> "string", fields |-> <<"text_fr", "text">>, to |-> "query", wrap |-> FALSE]
    BY DEF Config
  <2>2. QED
    BY <2>1 DEF TypeFacts, Fields, IsList
<1>3. TypeFacts("title")
  <2>1. Config["title"] = [rule |-> "string", fields |-> <<"title_fr", "title">>, to |-> "query", wrap |-> TRUE]
    BY DEF Config
  <2>2. QED
    BY <2>1 DEF TypeFacts, Fields, IsList
<1>4. TypeFacts("uid")
  <2>1. Config["uid"] = [rule |-> "value", fields |-> <<"id">>, to |-> "filter", wrap |-> FALSE]
    BY DEF Config
  <2>2. QED
    BY <2>1 DEF TypeFacts, Fields, IsList
<1>5. TypeFacts("language")
  <2>1. Config["language"] = [rule |-> "value", fields |-> <<"lg">>, to |-> "filter", wrap |-> FALSE]
    BY DEF Config
  <2>2. QED
    BY <2>1 DEF TypeFacts, Fields, IsList
<1>6. TypeFacts("topic")
  <2>1. Config["topic"] = [rule |-> "value", fields |-> <<"topics">>, to |-> "query", wrap |-> TRUE]
    BY DEF Config
  <2>2. QED
    BY <2>1 DEF TypeFacts, Fields, IsList
<1>7. TypeFacts("entity")
  <2>1. Config["entity"] = [rule |-> "value", fields |-> <<"pers", "loc">>, to |-> "query", wrap |-> TRUE]
    BY DEF Config
  <2>2. QED
    BY <2>1 DEF TypeFacts, Fields, IsList
<1>8. TypeFacts("ocrQuality")
  <2>1. Config["ocrQuality"] = [rule |-> "numericRange", fields |-> <<"ocrqa">>, to |-> "query", wrap |-> TRUE]
    BY DEF Config
  <2>2. QED
    BY <2>1 DEF TypeFacts, Fields, IsList
<1>9. TypeFacts("daterange")
  <2>1. Config["daterange"] = [rule |-> "dateRange", fields |-> <<"date">>, to |-> "filter", wrap |-> FALSE]
    BY DEF Config
  <2>2. QED
    BY <2>1 DEF TypeFacts, Fields, IsList
<1>10. TypeFacts("isFront")
  <2>1. Config["isFront"] = [rule |-> "boolean", fields |-> <<"front">>, to |-> "filter", wrap |-> FALSE]
    BY DEF Config
  <2>2. QED
    BY <2>1 DEF TypeFacts, Fields, IsList
<1>11. TypeFacts("regex")
  <2>1. Config["regex"] = [rule |-> "regex", fields |-> <<"text_fr", "text">>, to |-> "query", wrap |-> TRUE]
    BY DEF Config
  <2>2. QED
    BY <2>1 DEF TypeFacts, Fields, IsList
<1>12. TypeFacts("collection")
  <2>1. Config["collection"] = [rule |-> "joinCollection", fields |-> <<"collection">>, to |-> "filter", wrap |-> FALSE]
    BY DEF Config
  <2>2. QED
    BY <2>1 DEF TypeFacts, Fields, IsList
<1>13. Fields("isFront") = <<"front">> /\ Fields("collection") = <<"collection">>
  BY DEF Config, Fields
<1>14. QED
  BY <1>1, <1>2, <1>3, <1>4, <1>5, <1>6, <1>7, <1>8, <1>9, <1>10, <1>11, <1>12, <1>13

\* What the proofs use of a filter.
LEMMA WishFacts ==
  ASSUME NEW f \in Wish
  PROVE  /\ f.type \in DOMAIN Config /\ f.op \in {"OR", "AND"} /\ f.context \in {"include", "exclude"}
         /\ f.q \in Seq(1 .. 5) /\ IsList(f.q) /\ Len(f.q) \in Nat /\ DOMAIN f.q = 1 .. Len(f.q)
         /\ f.q = <<>> <=> Len(f.q) = 0
         /\ f.type # "daterange" => \A k \in DOMAIN f.q : f.q[k] \in 1 .. 3
         /\ \A k \in DOMAIN f.q : f.q[k] \in 1 .. 5
<1>1. f.q \in Seq(1 .. 5) /\ (f.type # "daterange" => f.q \in Seq(1 .. 3))
  BY DEF Wish, Values
<1>2. f.type \in DOMAIN Config /\ f.op \in {"OR", "AND"} /\ f.context \in {"include", "exclude"}
  BY DEF Wish
<1>3. QED
  BY <1>1, <1>2 DEF IsList

\* The fields of a value: one of them holds it.
LEMMA InFieldsSolid ==
  ASSUME Reads, NEW d, NEW type \in DOMAIN Config, NEW vals
  PROVE  /\ Solid(InFields(Fields(type), vals), d)
         /\ Val(InFields(Fields(type), vals), d) <=> Has(type, vals, d)
<1> DEFINE F == Fields(type)
           texts == [i \in DOMAIN F |-> Term(F[i], vals)]
<1>1. IsList(F) /\ Len(F) >= 1
  BY ConfigFacts DEF TypeFacts
<1>2. InFields(F, vals) = Grouped("OR", texts)
  BY DEF InFields, Each
<1> HIDE DEF F
<1>3. IsList(texts) /\ Len(texts) >= 1 /\ DOMAIN texts = DOMAIN F
  BY <1>1 DEF IsList
<1>4. \A i \in DOMAIN F : Solid(texts[i], d) /\ (Val(texts[i], d) <=> d[F[i]] \cap vals # {})
  BY TermSolid
<1> HIDE DEF texts
<1>5. /\ Solid(Grouped("OR", texts), d)
      /\ Val(Grouped("OR", texts), d) <=> \E k \in DOMAIN texts : Val(texts[k], d)
  BY <1>3, <1>4, GroupedSolid
<1>6. QED
  BY <1>2, <1>3, <1>4, <1>5 DEF Has, F

\* The values of a filter, each in its fields.
ValueTexts(f) == Each(ValuesOf(f), LAMBDA vals : InFields(Fields(f.type), vals))

\* The texts of a filter's values are solid and mean what the filter holds.
LEMMA ValueTextsSolid ==
  ASSUME Reads, NEW d, NEW f \in Wish, f.type \notin {"ocrQuality", "daterange"}
  PROVE  /\ IsList(ValueTexts(f)) /\ Len(ValueTexts(f)) >= 1
         /\ Len(f.q) <= 1 => Len(ValueTexts(f)) = 1
         /\ \A k \in DOMAIN ValueTexts(f) : Solid(ValueTexts(f)[k], d)
         /\ Holds(f, d) <=> IF f.op = "AND" THEN \A k \in DOMAIN ValueTexts(f) : Val(ValueTexts(f)[k], d)
                                            ELSE \E k \in DOMAIN ValueTexts(f) : Val(ValueTexts(f)[k], d)
<1> DEFINE F == Fields(f.type)
           T == ValueTexts(f)
           VO == ValuesOf(f)
<1>1. /\ f.type \in DOMAIN Config /\ f.op \in {"OR", "AND"}
      /\ Len(f.q) \in Nat /\ DOMAIN f.q = 1 .. Len(f.q) /\ (f.q = <<>> <=> Len(f.q) = 0)
      /\ \A k \in DOMAIN f.q : f.q[k] \in 1 .. 3
  BY WishFacts
<1>2. T = [k \in DOMAIN VO |-> InFields(F, VO[k])]
  BY DEF ValueTexts, Each
<1>3. f.q = <<>> => VO = <<Values>>
  BY DEF ValuesOf
<1>4. f.q # <<>> => VO = [k \in 1 .. Len(f.q) |-> {f.q[k]}]
  BY <1>1 DEF ValuesOf, Each
<1> HIDE DEF VO, T
<1>5. IsList(T) /\ Len(T) >= 1 /\ DOMAIN T = DOMAIN VO /\ (Len(f.q) <= 1 => Len(T) = 1)
  <2>1. CASE f.q = <<>>
    <3>1. DOMAIN VO = 1 .. 1
      BY <1>3, <2>1
    <3>2. DOMAIN T = 1 .. 1 /\ Len(T) = 1
      BY <1>2, <3>1
    <3>3. QED
      BY <3>1, <3>2 DEF IsList
  <2>2. CASE f.q # <<>>
    <3>1. DOMAIN VO = 1 .. Len(f.q)
      BY <1>4, <2>2
    <3>2. QED
      BY <1>1, <1>2, <2>2, <3>1 DEF IsList
  <2>3. QED
    BY <2>1, <2>2
<1>6. \A k \in DOMAIN T : Solid(T[k], d) /\ (Val(T[k], d) <=> Has(f.type, VO[k], d))
  BY <1>1, <1>2, InFieldsSolid
<1>7. CASE f.q = <<>>
  <2>1. Holds(f, d) <=> Has(f.type, Values, d)
    BY <1>7 DEF Holds, Has, Fields
  <2>2. DOMAIN T = {1} /\ VO[1] = Values
    BY <1>3, <1>5, <1>7
  <2>3. QED
    BY <1>5, <1>6, <2>1, <2>2 DEF T
<1>8. CASE f.q # <<>>
  <2> DEFINE vs == {f.q[i] : i \in DOMAIN f.q}
  <2>1. Holds(f, d) <=> IF f.op = "AND" THEN \A v \in vs : Has(f.type, Period(v), d)
                                        ELSE \E v \in vs : Has(f.type, Period(v), d)
    BY <1>8 DEF Holds, Has, Fields
  <2>2. \A k \in DOMAIN f.q : Period(f.q[k]) = {f.q[k]} /\ VO[k] = {f.q[k]}
    BY <1>1, <1>4, <1>8 DEF Period
  <2>3. DOMAIN T = DOMAIN f.q
    BY <1>1, <1>4, <1>5, <1>8
  <2>4. \A k \in DOMAIN f.q : Val(T[k], d) <=> Has(f.type, Period(f.q[k]), d)
    BY <1>6, <2>2, <2>3
  <2> HIDE DEF vs
  <2>5. (\A v \in vs : Has(f.type, Period(v), d)) <=> \A k \in DOMAIN f.q : Val(T[k], d)
    BY <2>4 DEF vs
  <2>6. (\E v \in vs : Has(f.type, Period(v), d)) <=> \E k \in DOMAIN f.q : Val(T[k], d)
    BY <2>4 DEF vs
  <2>7. QED
    BY <1>5, <1>6, <2>1, <2>3, <2>5, <2>6 DEF T
<1>9. QED
  BY <1>7, <1>8

-----------------------------------------------------------------------------
(* The rules that translate a group of filters, one after the other. *)

\* The filters of one type, as they are translated together.
Group(g) == IsList(g) /\ Len(g) >= 1 /\ \A i \in DOMAIN g : g[i] \in Wish /\ g[i].type = g[1].type
AllWanted(g, d) == \A i \in DOMAIN g : Wanted(g[i], d)

\* A text that wrapAsFilter treats well, and one that means its filters.
Wrappable(text, d) == IsText(text) /\ (text[1].not => \E S : Solid(S, d) /\ text = Negated(S))
Means(text, g, d) == Wrappable(text, d) /\ (Matches(text, d, TRUE) <=> AllWanted(g, d))

\* What a filter wants, by its context.
LEMMA WantedFacts ==
  ASSUME NEW f \in Wish, NEW d, f.type # "isFront"
  PROVE  /\ f.context = "include" => (Wanted(f, d) <=> Holds(f, d))
         /\ f.context # "include" => (Wanted(f, d) <=> ~Holds(f, d))
<1>1. Holds(f, d) \in BOOLEAN
  BY DEF Holds
<1>2. Wanted(f, d) = (Holds(f, d) = (f.context = "include"))
  BY DEF Wanted
<1>3. QED
  BY <1>1, <1>2

\* A sound text at the top.
LEMMA SoundAtTop ==
  ASSUME Reads, NEW d, NEW text, Sound(text, d)
  PROVE  Matches(text, d, TRUE) <=> AllHold(text, d)
<1>1. IsText(text) /\ Conj(text) /\ AllSteady(text, d) /\ TRUE \in BOOLEAN
  BY DEF Sound
<1>2. Matches(text, d, TRUE) <=> AllHold(text, d) /\ (TRUE \/ SomeKept(text))
  BY <1>1, ReadConj
<1>3. QED
  BY <1>2

\* wrapAsFilter keeps what a text says, as one clause.
LEMMA Wrapped ==
  ASSUME Reads, NEW d, NEW text, Wrappable(text, d)
  PROVE  /\ Sound(wrapAsFilter(text), d)
         /\ AllHold(wrapAsFilter(text), d) <=> Matches(text, d, TRUE)
<1>1. Head(text) = text[1] /\ IsText(text)
  BY TextFacts DEF Wrappable
<1>2. CASE ~text[1].not
  <2>1. wrapAsFilter(text) = Filtered(text)
    BY <1>1, <1>2 DEF wrapAsFilter
  <2>2. Solid(Filtered(text), d) /\ (Val(Filtered(text), d) <=> Matches(text, d, TRUE))
    BY FilteredSolid
  <2>3. QED
    BY <2>1, <2>2, SolidFacts
<1>3. CASE text[1].not
  <2>1. PICK S : Solid(S, d) /\ text = Negated(S)
    BY <1>3 DEF Wrappable
  <2>2. /\ Sound(text, d) /\ [text EXCEPT ![1].not = FALSE] = S
        /\ AllHold(text, d) <=> ~Val(S, d)
    BY <2>1, NegatedSolid
  <2>3. wrapAsFilter(text) = Negated(Filtered(S))
    BY <1>1, <1>3, <2>2 DEF wrapAsFilter
  <2>4. Solid(Filtered(S), d) /\ (Val(Filtered(S), d) <=> Matches(S, d, TRUE))
    BY FilteredSolid
  <2>5. Matches(S, d, TRUE) <=> Val(S, d)
    BY <2>1, SolidFacts
  <2>6. Sound(Negated(Filtered(S)), d) /\ (AllHold(Negated(Filtered(S)), d) <=> ~Val(Filtered(S), d))
    BY <2>4, NegatedSolid
  <2>7. Matches(text, d, TRUE) <=> AllHold(text, d)
    BY <2>2, SoundAtTop
  <2>8. QED
    BY <2>2, <2>3, <2>4, <2>5, <2>6, <2>7
<1>4. QED
  BY <1>2, <1>3

\* Filters translated one by one and joined by AND.
TranslatedOneByOne(texts, g, d) ==
  /\ IsList(texts) /\ DOMAIN texts = DOMAIN g /\ Len(texts) >= 1
  /\ \A i \in DOMAIN g : Sound(texts[i], d) /\ (AllHold(texts[i], d) <=> Wanted(g[i], d))

\* Filters that are sound one by one are sound when they are joined by AND.
LEMMA JoinedFilters ==
  ASSUME Reads, NEW d, NEW g, Group(g), NEW texts, TranslatedOneByOne(texts, g, d), ~texts[1][1].not
  PROVE  /\ Means(Join("AND", texts), g, d)
         /\ Sound(Join("AND", texts), d) /\ (AllHold(Join("AND", texts), d) <=> AllWanted(g, d))
<1> DEFINE J == Join("AND", texts)
<1>1. /\ IsList(texts) /\ DOMAIN texts = DOMAIN g /\ Len(texts) >= 1
      /\ \A k \in DOMAIN texts : Sound(texts[k], d)
      /\ \A k \in DOMAIN texts : IsText(texts[k])
  BY DEF TranslatedOneByOne, Sound
<1>2. Sound(J, d) /\ (AllHold(J, d) <=> \A k \in DOMAIN texts : AllHold(texts[k], d))
  BY <1>1, JoinSound
<1>3. J[1] = texts[1][1]
  BY <1>1, JoinFacts
<1> HIDE DEF J
<1>4. AllHold(J, d) <=> AllWanted(g, d)
  BY <1>1, <1>2 DEF TranslatedOneByOne, AllWanted
<1>5. Wrappable(J, d)
  BY <1>2, <1>3 DEF Wrappable, Sound
<1>6. Matches(J, d, TRUE) <=> AllHold(J, d)
  BY <1>2, SoundAtTop
<1>7. QED
  BY <1>2, <1>4, <1>5, <1>6 DEF Means, J

-----------------------------------------------------------------------------
\* The rule value.
LEMMA FilterStatement ==
  ASSUME Reads, NEW d, NEW f \in Wish, Config[f.type].rule = "value"
  PROVE  LET s == filterStatement(f, Fields(f.type))
         IN  /\ Sound(s, d) /\ (AllHold(s, d) <=> Wanted(f, d))
             /\ Wrappable(s, d)
<1> DEFINE S == Grouped(f.op, ValueTexts(f))
           s == filterStatement(f, Fields(f.type))
<1>1. f.type \notin {"ocrQuality", "daterange", "isFront"} /\ f.context \in {"include", "exclude"}
  BY WishFacts, ConfigFacts DEF TypeFacts
<1>2. /\ Solid(S, d)
      /\ Val(S, d) <=> IF f.op = "AND" THEN \A k \in DOMAIN ValueTexts(f) : Val(ValueTexts(f)[k], d)
                                       ELSE \E k \in DOMAIN ValueTexts(f) : Val(ValueTexts(f)[k], d)
  BY <1>1, ValueTextsSolid, GroupedSolid
<1>3. Val(S, d) <=> Holds(f, d)
  BY <1>1, <1>2, ValueTextsSolid
<1>4. s = IF f.context = "exclude" THEN Negated(S) ELSE S
  BY DEF filterStatement, ValueTexts
<1> HIDE DEF S, s
<1>5. CASE f.context = "exclude"
  <2>1. Sound(s, d) /\ (AllHold(s, d) <=> ~Val(S, d))
    BY <1>2, <1>4, <1>5, NegatedSolid
  <2>2. Wrappable(s, d)
    BY <1>2, <1>4, <1>5, <2>1 DEF Wrappable, Sound
  <2>3. QED
    BY <1>1, <1>3, <1>5, <2>1, <2>2, WantedFacts DEF s
<1>6. CASE f.context = "include"
  <2>1. Sound(s, d) /\ (AllHold(s, d) <=> Val(S, d))
    BY <1>2, <1>4, <1>6, SolidFacts
  <2>2. Wrappable(s, d)
    BY <1>2, <1>4, <1>6, <2>1 DEF Wrappable, Sound, Solid
  <2>3. QED
    BY <1>1, <1>3, <1>6, <2>1, <2>2, WantedFacts DEF s
<1>7. QED
  BY <1>1, <1>5, <1>6

\* The rules value and idValue mean what the filters say.
LEMMA ValueRule ==
  ASSUME Reads, NEW d, NEW g, Group(g), Config[g[1].type].rule = "value"
  PROVE  Means(valueBuilder(g, Fields(g[1].type)), g, d)
<1> DEFINE F == Fields(g[1].type)
           texts == [i \in DOMAIN g |-> filterStatement(g[i], F)]
           R == valueBuilder(g, F)
<1>1. /\ IsList(g) /\ Len(g) >= 1 /\ 1 \in DOMAIN g
      /\ \A i \in DOMAIN g : g[i] \in Wish /\ g[i].type = g[1].type
  BY DEF Group, IsList
<1>2. R = Grouped("AND", texts)
  BY DEF valueBuilder, Each
<1>3. IsList(texts) /\ DOMAIN texts = DOMAIN g /\ Len(texts) = Len(g)
  BY <1>1 DEF IsList
<1>4. \A i \in DOMAIN g : /\ Sound(texts[i], d) /\ Wrappable(texts[i], d)
                          /\ AllHold(texts[i], d) <=> Wanted(g[i], d)
  BY <1>1, FilterStatement
<1> HIDE DEF texts, R
<1>5. CASE Len(g) = 1
  <2>1. R = texts[1] /\ DOMAIN g = {1}
    BY <1>1, <1>2, <1>3, <1>5 DEF Grouped, IsList
  <2>2. Matches(R, d, TRUE) <=> AllHold(R, d)
    BY <1>1, <1>4, <2>1, SoundAtTop
  <2>3. QED
    BY <1>4, <2>1, <2>2 DEF Means, AllWanted, R
<1>6. CASE Len(g) # 1
  <2> DEFINE J == Join("AND", texts)
  <2>1. R = Paren(J)
    BY <1>1, <1>2, <1>3, <1>6 DEF Grouped, IsList
  <2>2. Sound(J, d) /\ (AllHold(J, d) <=> \A k \in DOMAIN texts : AllHold(texts[k], d))
    BY <1>1, <1>3, <1>4, JoinSound
  <2> HIDE DEF J
  <2>3. Matches(J, d, TRUE) <=> AllWanted(g, d)
    BY <1>3, <1>4, <2>2, SoundAtTop DEF AllWanted
  <2>4. QED
    BY <2>1, <2>3, ParenAtTop DEF Means, Wrappable, R
<1>7. QED
  BY <1>5, <1>6

\* NOT before a clause, with *:* before it in the first filter of its type.
LEMMA ExcludedSound ==
  ASSUME Reads, NEW d, NEW text, Solid(text, d), NEW i \in Nat, i >= 1
  PROVE  /\ Sound(Excluded(i, text), d)
         /\ AllHold(Excluded(i, text), d) <=> ~Val(text, d)
         /\ i = 1 => ~Excluded(i, text)[1].not
<1> DEFINE first == Negated(text)
           pair == <<Everything, first>>
<1>1. Sound(first, d) /\ (AllHold(first, d) <=> ~Val(text, d))
  BY NegatedSolid
<1>2. CASE i > 1
  BY <1>1, <1>2 DEF Excluded
<1>3. CASE ~(i > 1)
  <2>1. Excluded(i, text) = Join("AND", pair)
    BY <1>3 DEF Excluded
  <2>2. /\ Solid(Everything, d) /\ Sound(Everything, d) /\ AllHold(Everything, d)
        /\ ~Everything[1].not
    BY EverythingSolid, SolidFacts DEF Solid
  <2>3. IsList(pair) /\ Len(pair) = 2 /\ DOMAIN pair = {1, 2} /\ pair[1] = Everything /\ pair[2] = first
    BY DEF IsList
  <2> HIDE DEF pair, first
  <2>4. \A k \in DOMAIN pair : Sound(pair[k], d) /\ IsText(pair[k])
    BY <1>1, <2>2, <2>3 DEF Sound
  <2>5. /\ Sound(Join("AND", pair), d)
        /\ AllHold(Join("AND", pair), d) <=> \A k \in DOMAIN pair : AllHold(pair[k], d)
    BY <2>3, <2>4, JoinSound
  <2>6. Join("AND", pair)[1] = pair[1][1]
    BY <2>3, <2>4, JoinFacts
  <2>7. QED
    BY <1>1, <2>1, <2>2, <2>3, <2>5, <2>6
<1>4. QED
  BY <1>2, <1>3

\* What the rule string makes of one filter.
LEMMA StringFilterCases ==
  ASSUME NEW f, NEW i
  PROVE  LET text == Join(f.op, ValueTexts(f))
             s == StringFilter(f, i, Fields(f.type))
         IN  /\ f.context # "exclude" => s = text
             /\ f.context = "exclude" => s = Excluded(i, text) \/ s = Excluded(i, Paren(text))
<1> DEFINE vt == Each(ValuesOf(f), LAMBDA vals : InFields(Fields(f.type), vals))
           text == Join(f.op, vt)
           s == StringFilter(f, i, Fields(f.type))
           b == Head(text).q.t = "group" /\ Last(text).q.t = "group"
<1>1. vt = ValueTexts(f)
  BY DEF ValueTexts
<1>2. s = IF f.context # "exclude" THEN text
          ELSE Excluded(i, IF b THEN text ELSE Paren(text))
  BY DEF StringFilter
<1> HIDE DEF vt, s, text
<1>3. QED
  BY <1>1, <1>2 DEF text, s

\* The rule string, for a filter whose values are one or all asked for.
LEMMA StringFilterSound ==
  ASSUME Reads, NEW d, NEW f \in Wish, f.type \in {"string", "title"}, NEW i \in Nat, i >= 1,
         Len(f.q) <= 1 \/ (f.context = "include" /\ f.op = "AND")
  PROVE  LET s == StringFilter(f, i, Fields(f.type))
         IN  /\ Sound(s, d) /\ (AllHold(s, d) <=> Wanted(f, d))
             /\ i = 1 => ~s[1].not
<1> DEFINE T == ValueTexts(f)
           text == Join(f.op, T)
           s == StringFilter(f, i, Fields(f.type))
<1>1. /\ IsList(T) /\ Len(T) >= 1 /\ (Len(f.q) <= 1 => Len(T) = 1)
      /\ \A k \in DOMAIN T : Solid(T[k], d)
      /\ Holds(f, d) <=> IF f.op = "AND" THEN \A k \in DOMAIN T : Val(T[k], d)
                                         ELSE \E k \in DOMAIN T : Val(T[k], d)
  BY ValueTextsSolid
<1>2. f.context \in {"include", "exclude"}
  BY WishFacts
<1>3. (f.context = "include" => s = text)
      /\ (f.context = "exclude" => s = Excluded(i, text) \/ s = Excluded(i, Paren(text)))
  BY StringFilterCases
<1>4. /\ f.context = "include" => (Wanted(f, d) <=> Holds(f, d))
      /\ f.context # "include" => (Wanted(f, d) <=> ~Holds(f, d))
  BY WantedFacts
<1>5. \A k \in DOMAIN T : IsText(T[k]) /\ ~T[k][1].not
  BY <1>1 DEF Solid
<1> HIDE DEF T, text, s
<1>6. CASE Len(f.q) <= 1
  <2>1. DOMAIN T = {1} /\ Len(T) = 1
    BY <1>1, <1>6 DEF IsList
  <2>2. text = T[1]
    BY <1>1, <1>5, <2>1, JoinFacts DEF text
  <2>3. Solid(text, d) /\ (Val(text, d) <=> Holds(f, d))
    BY <1>1, <2>1, <2>2
  <2>4. CASE f.context = "include"
    BY <1>3, <1>4, <2>3, <2>4, SolidFacts DEF Solid, s
  <2>5. CASE f.context = "exclude"
    <3>1. Matches(text, d, TRUE) <=> Matches(text, d, FALSE)
      BY <2>3, SolidFacts
    <3>2. Matches(text, d, TRUE) <=> Val(text, d)
      BY <2>3, SolidFacts
    <3>3. Solid(Paren(text), d) /\ (Val(Paren(text), d) <=> Val(text, d))
      BY <3>1, <3>2, ParenSolid
    <3>4. CASE s = Excluded(i, text)
      <4>1. /\ Sound(s, d) /\ (AllHold(s, d) <=> ~Val(text, d)) /\ (i = 1 => ~s[1].not)
        BY <2>3, <3>4, ExcludedSound
      <4>2. QED
        BY <1>4, <2>3, <2>5, <4>1 DEF s
    <3>5. CASE s = Excluded(i, Paren(text))
      <4>1. /\ Sound(s, d) /\ (AllHold(s, d) <=> ~Val(Paren(text), d)) /\ (i = 1 => ~s[1].not)
        BY <3>3, <3>5, ExcludedSound
      <4>2. QED
        BY <1>4, <2>3, <2>5, <3>3, <4>1 DEF s
    <3>6. QED
      BY <1>3, <2>5, <3>4, <3>5
  <2>6. QED
    BY <1>2, <2>4, <2>5
<1>7. CASE f.context = "include" /\ f.op = "AND"
  <2>1. \A k \in DOMAIN T : Sound(T[k], d) /\ (AllHold(T[k], d) <=> Val(T[k], d))
    BY <1>1, SolidFacts
  <2>2. Sound(text, d) /\ (AllHold(text, d) <=> \A k \in DOMAIN T : AllHold(T[k], d))
    BY <1>1, <1>7, <2>1, JoinSound DEF text
  <2>3. text[1] = T[1][1] /\ 1 \in DOMAIN T
    BY <1>1, <1>5, JoinFacts DEF text, IsList
  <2>4. QED
    BY <1>1, <1>3, <1>4, <1>5, <1>7, <2>1, <2>2, <2>3 DEF s
<1>8. QED
  BY <1>6, <1>7

\* So does the rule string, for filters of one value or joined by AND.
LEMMA StringRule ==
  ASSUME Reads, NEW d, NEW g, Group(g), g[1].type \in {"string", "title"},
         \A i \in DOMAIN g : Len(g[i].q) <= 1 \/ (g[i].context = "include" /\ g[i].op = "AND")
  PROVE  LET R == reduceStringFilters(g, Fields(g[1].type))
         IN  Means(R, g, d) /\ Sound(R, d) /\ (AllHold(R, d) <=> AllWanted(g, d))
<1> DEFINE F == Fields(g[1].type)
           texts == [i \in DOMAIN g |-> StringFilter(g[i], i, F)]
           R == reduceStringFilters(g, F)
<1>1. /\ IsList(g) /\ Len(g) >= 1 /\ 1 \in DOMAIN g
      /\ \A i \in DOMAIN g : i \in Nat /\ i >= 1 /\ g[i] \in Wish /\ g[i].type = g[1].type
  BY DEF Group, IsList
<1>2. R = Join("AND", texts)
  BY DEF reduceStringFilters
<1>3. IsList(texts) /\ DOMAIN texts = DOMAIN g /\ Len(texts) = Len(g)
  BY <1>1 DEF IsList
<1>4. ASSUME NEW i \in DOMAIN g
      PROVE  Sound(texts[i], d) /\ (AllHold(texts[i], d) <=> Wanted(g[i], d)) /\ (i = 1 => ~texts[i][1].not)
  BY <1>1, StringFilterSound
<1> HIDE DEF texts, R
<1>5. TranslatedOneByOne(texts, g, d)
  BY <1>1, <1>3, <1>4 DEF TranslatedOneByOne
<1>6. ~texts[1][1].not
  BY <1>1, <1>4
<1>7. QED
  BY <1>2, <1>5, <1>6, JoinedFilters DEF R

\* A string filter alone, with values of which one is enough.
LEMMA StringAlone ==
  ASSUME Reads, NEW d, NEW g, Group(g), g[1].type \in {"string", "title"}, Len(g) = 1,
         g[1].context = "include", g[1].op = "OR"
  PROVE  Means(reduceStringFilters(g, Fields(g[1].type)), g, d)
<1> DEFINE f == g[1]
           T == ValueTexts(f)
           R == reduceStringFilters(g, Fields(f.type))
           sole == [i \in DOMAIN g |-> StringFilter(g[i], i, Fields(f.type))]
<1>1. DOMAIN g = {1} /\ f \in Wish
  BY DEF Group, IsList
<1>2. /\ IsList(T) /\ Len(T) >= 1 /\ \A k \in DOMAIN T : Solid(T[k], d)
      /\ Holds(f, d) <=> \E k \in DOMAIN T : Val(T[k], d)
  BY <1>1, ValueTextsSolid
<1>3. Wanted(f, d) <=> Holds(f, d)
  BY <1>1, WantedFacts
<1>4. \A k \in DOMAIN T : IsText(T[k]) /\ ~T[k][1].not
  BY <1>2 DEF Solid
<1>5. /\ IsText(Join(f.op, T))
      /\ Matches(Join(f.op, T), d, TRUE) <=> \E k \in DOMAIN T : Val(T[k], d)
  <2>1. TRUE \in BOOLEAN /\ f.op # "AND"
    OBVIOUS
  <2> HIDE DEF T, f
  <2>2. QED
    BY <1>2, <2>1, JoinAlternatives
<1>6. Join(f.op, T)[1] = T[1][1] /\ 1 \in DOMAIN T
  BY <1>2, <1>4, JoinFacts DEF IsList
<1>7. R = Join("AND", sole) /\ IsList(sole) /\ Len(sole) = 1 /\ DOMAIN sole = {1}
  BY <1>1 DEF reduceStringFilters, IsList, Group
<1>8. sole[1] = Join(f.op, T)
  <2>1. sole[1] = StringFilter(f, 1, Fields(f.type)) /\ f.context # "exclude"
    BY <1>1
  <2> HIDE DEF sole, f
  <2>2. QED
    BY <2>1, StringFilterCases
<1> HIDE DEF T, sole, R
<1>9. R = sole[1]
  <2>1. \A k \in DOMAIN sole : IsText(sole[k])
    BY <1>5, <1>7, <1>8
  <2>2. Join("AND", sole) = sole[1]
    BY <1>7, <2>1, JoinFacts
  <2>3. QED
    BY <1>7, <2>2
<1>10. QED
  BY <1>1, <1>2, <1>3, <1>4, <1>5, <1>6, <1>8, <1>9 DEF Means, Wrappable, AllWanted, R

\* The rules of a range: one clause for an interval or a group of periods.
LEMMA RangeSound ==
  ASSUME Reads, NEW d, NEW f \in Wish, f.type # "isFront", NEW i \in Nat, i >= 1, NEW text,
         Solid(text, d), Val(text, d) <=> Holds(f, d)
  PROVE  LET s == RangeFilter(text, f, i)
         IN  /\ Sound(s, d) /\ (AllHold(s, d) <=> Wanted(f, d))
             /\ i = 1 => ~s[1].not
<1> DEFINE s == RangeFilter(text, f, i)
<1>1. f.context \in {"include", "exclude"}
  BY WishFacts
<1>2. CASE f.context = "include"
  <2>1. s = text
    BY <1>2 DEF RangeFilter
  <2> HIDE DEF s
  <2>2. QED
    BY <1>2, <2>1, SolidFacts, WantedFacts DEF Solid, s
<1>3. CASE f.context = "exclude"
  <2>1. s = Excluded(i, Paren(text))
    BY <1>3 DEF RangeFilter
  <2> HIDE DEF s
  <2>2. Matches(text, d, TRUE) <=> Matches(text, d, FALSE)
    BY SolidFacts
  <2>3. Matches(text, d, TRUE) <=> Val(text, d)
    BY SolidFacts
  <2>4. Solid(Paren(text), d) /\ (Val(Paren(text), d) <=> Val(text, d))
    BY <2>2, <2>3, ParenSolid
  <2>5. /\ Sound(s, d) /\ (AllHold(s, d) <=> ~Val(Paren(text), d)) /\ (i = 1 => ~s[1].not)
    BY <2>1, <2>4, ExcludedSound
  <2>6. QED
    BY <1>3, <2>4, <2>5, WantedFacts DEF s
<1>4. QED
  BY <1>1, <1>2, <1>3

\* A type with one field.
LEMMA OneField ==
  ASSUME NEW d, NEW type \in DOMAIN Config, Len(Fields(type)) = 1, NEW vals
  PROVE  LET field == Head(Fields(type))
         IN  /\ Solid(Term(field, vals), d)
             /\ Val(Term(field, vals), d) <=> Has(type, vals, d)
<1>1. IsList(Fields(type)) /\ Head(Fields(type)) = Fields(type)[1]
  BY ConfigFacts DEF TypeFacts
<1>2. DOMAIN Fields(type) = {1}
  BY <1>1 DEF IsList
<1>3. Has(type, vals, d) <=> d[Fields(type)[1]] \cap vals # {}
  BY <1>2 DEF Has
<1>4. QED
  BY <1>1, <1>3, TermSolid

\* The text of a numeric range.
LEMMA NumericText ==
  ASSUME NEW d, NEW f \in Wish, f.type = "ocrQuality", Len(f.q) \in {0, 2}
  PROVE  LET text == Term(Head(Fields(f.type)), Span(f.q))
         IN  Solid(text, d) /\ (Val(text, d) <=> Holds(f, d))
<1>1. f.type \in DOMAIN Config /\ Len(Fields(f.type)) = 1
  BY WishFacts, ConfigFacts DEF TypeFacts
<1>2. Span(f.q) = IF f.q = <<>> THEN Values ELSE Span(f.q)
  BY DEF Span
<1>3. Holds(f, d) <=> Has(f.type, Span(f.q), d)
  <2>1. CASE f.q = <<>>
    BY <1>2, <2>1 DEF Holds, Has, Fields
  <2>2. CASE f.q # <<>>
    BY <2>2 DEF Holds, Has, Fields
  <2>3. QED
    BY <2>1, <2>2
<1>4. QED
  BY <1>1, <1>3, OneField

\* The text of a range of dates or of several periods is solid and means them.
LEMMA DateTextSolid ==
  ASSUME Reads, NEW d, NEW f \in Wish, f.type = "daterange"
  PROVE  LET text == DateText(f, Head(Fields(f.type)))
         IN  Solid(text, d) /\ (Val(text, d) <=> Holds(f, d))
<1> DEFINE field == Head(Fields(f.type))
           text == DateText(f, field)
           has(vals) == Has(f.type, vals, d)
           vs == {f.q[i] : i \in DOMAIN f.q}
<1>1. f.type \in DOMAIN Config /\ Len(Fields(f.type)) = 1
  BY WishFacts, ConfigFacts DEF TypeFacts
<1>2. /\ Len(f.q) \in Nat /\ DOMAIN f.q = 1 .. Len(f.q) /\ (f.q = <<>> <=> Len(f.q) = 0)
      /\ f.op \in {"OR", "AND"} /\ \A k \in DOMAIN f.q : f.q[k] \in 1 .. 5
  BY WishFacts
<1>3. ASSUME NEW vals PROVE Solid(Term(field, vals), d) /\ (Val(Term(field, vals), d) <=> has(vals))
  BY <1>1, OneField
<1>4. CASE f.q = <<>>
  <2>1. text = Term(field, Values)
    BY <1>4 DEF DateText, Span
  <2>2. Holds(f, d) <=> has(Values)
    BY <1>4 DEF Holds, Has, Fields
  <2>3. QED
    BY <1>3, <2>1, <2>2
<1>5. CASE f.q # <<>> /\ Len(f.q) = 2 /\ \A i \in 1 .. 2 : f.q[i] <= 3
  <2>1. text = Term(field, Span(f.q))
    BY <1>5 DEF DateText
  <2>2. vs \subseteq Values
    BY <1>2, <1>5 DEF Values
  <2>3. Holds(f, d) <=> has(Span(f.q))
    BY <1>5, <2>2 DEF Holds, Has, Fields
  <2>4. QED
    BY <1>3, <2>1, <2>3
<1>6. CASE f.q # <<>> /\ ~(Len(f.q) = 2 /\ \A i \in 1 .. 2 : f.q[i] <= 3)
  <2> DEFINE texts == [i \in DOMAIN f.q |-> Term(field, Period(f.q[i]))]
  <2>1. text = Grouped(f.op, texts)
    BY <1>6 DEF DateText, Each
  <2>2. IsList(texts) /\ Len(texts) >= 1 /\ DOMAIN texts = DOMAIN f.q
    BY <1>2, <1>6 DEF IsList
  <2>3. \A k \in DOMAIN texts : Solid(texts[k], d) /\ (Val(texts[k], d) <=> has(Period(f.q[k])))
    BY <1>3, <2>2
  <2>4. ~(Len(f.q) = 2 /\ vs \subseteq Values)
    <3> SUFFICES ASSUME Len(f.q) = 2, vs \subseteq Values PROVE \A i \in 1 .. 2 : f.q[i] <= 3
      BY <1>6
    <3> TAKE i \in 1 .. 2
    <3>1. f.q[i] \in vs
      BY <1>2
    <3>2. f.q[i] \in Values
      <4> HIDE DEF vs
      <4> QED BY <3>1
    <3>3. QED
      BY <3>2 DEF Values
  <2>5. Holds(f, d) <=> IF f.op = "AND" THEN \A v \in vs : has(Period(v))
                                        ELSE \E v \in vs : has(Period(v))
    BY <1>6, <2>4 DEF Holds, Has, Fields
  <2> HIDE DEF texts, text, has
  <2>6. /\ Solid(Grouped(f.op, texts), d)
        /\ Val(Grouped(f.op, texts), d) <=> IF f.op = "AND" THEN \A k \in DOMAIN texts : Val(texts[k], d)
                                                            ELSE \E k \in DOMAIN texts : Val(texts[k], d)
    BY <2>2, <2>3, GroupedSolid
  <2>7. (\A v \in vs : has(Period(v))) <=> \A k \in DOMAIN texts : Val(texts[k], d)
    BY <2>2, <2>3
  <2>8. (\E v \in vs : has(Period(v))) <=> \E k \in DOMAIN texts : Val(texts[k], d)
    BY <2>2, <2>3
  <2>9. QED
    BY <2>1, <2>5, <2>6, <2>7, <2>8 DEF text
<1>7. QED
  BY <1>4, <1>5, <1>6

\* The rule numericRange means what the filters say.
LEMMA NumericRule ==
  ASSUME Reads, NEW d, NEW g, Group(g), g[1].type = "ocrQuality", \A i \in DOMAIN g : Len(g[i].q) \in {0, 2}
  PROVE  Means(reduceNumericRangeFilters(g, Head(Fields(g[1].type))), g, d)
<1> DEFINE field == Head(Fields(g[1].type))
           texts == [i \in DOMAIN g |-> RangeFilter(Term(field, Span(g[i].q)), g[i], i)]
           R == reduceNumericRangeFilters(g, field)
<1>1. /\ IsList(g) /\ Len(g) >= 1 /\ 1 \in DOMAIN g
      /\ \A i \in DOMAIN g : i \in Nat /\ i >= 1 /\ g[i] \in Wish /\ g[i].type = g[1].type
  BY DEF Group, IsList
<1>2. R = Join("AND", texts)
  BY DEF reduceNumericRangeFilters
<1>3. IsList(texts) /\ DOMAIN texts = DOMAIN g /\ Len(texts) = Len(g)
  BY <1>1 DEF IsList
<1>4. ASSUME NEW i \in DOMAIN g
      PROVE  Sound(texts[i], d) /\ (AllHold(texts[i], d) <=> Wanted(g[i], d)) /\ (i = 1 => ~texts[i][1].not)
  <2> DEFINE one == Term(field, Span(g[i].q))
  <2>1. Solid(one, d) /\ (Val(one, d) <=> Holds(g[i], d))
    BY <1>1, NumericText
  <2> HIDE DEF one
  <2>2. texts[i] = RangeFilter(one, g[i], i)
    BY DEF one
  <2> HIDE DEF texts
  <2>3. QED
    BY <1>1, <2>1, <2>2, RangeSound
<1> HIDE DEF texts, R
<1>5. TranslatedOneByOne(texts, g, d) /\ ~texts[1][1].not
  BY <1>1, <1>3, <1>4 DEF TranslatedOneByOne
<1>6. QED
  BY <1>2, <1>5, JoinedFilters DEF R

\* So does the rule dateRange.
LEMMA DateRule ==
  ASSUME Reads, NEW d, NEW g, Group(g), g[1].type = "daterange"
  PROVE  Means(reduceDaterangeFilters(g, Head(Fields(g[1].type))), g, d)
<1> DEFINE field == Head(Fields(g[1].type))
           texts == [i \in DOMAIN g |-> RangeFilter(DateText(g[i], field), g[i], i)]
           R == reduceDaterangeFilters(g, field)
<1>1. /\ IsList(g) /\ Len(g) >= 1 /\ 1 \in DOMAIN g
      /\ \A i \in DOMAIN g : i \in Nat /\ i >= 1 /\ g[i] \in Wish /\ g[i].type = g[1].type
  BY DEF Group, IsList
<1>2. R = Join("AND", texts)
  BY DEF reduceDaterangeFilters
<1>3. IsList(texts) /\ DOMAIN texts = DOMAIN g /\ Len(texts) = Len(g)
  BY <1>1 DEF IsList
<1>4. ASSUME NEW i \in DOMAIN g
      PROVE  Sound(texts[i], d) /\ (AllHold(texts[i], d) <=> Wanted(g[i], d)) /\ (i = 1 => ~texts[i][1].not)
  <2> DEFINE one == DateText(g[i], field)
  <2>1. Solid(one, d) /\ (Val(one, d) <=> Holds(g[i], d))
    BY <1>1, DateTextSolid
  <2> HIDE DEF one
  <2>2. texts[i] = RangeFilter(one, g[i], i)
    BY DEF one
  <2> HIDE DEF texts
  <2>3. QED
    BY <1>1, <2>1, <2>2, RangeSound
<1> HIDE DEF texts, R
<1>5. TranslatedOneByOne(texts, g, d) /\ ~texts[1][1].not
  BY <1>1, <1>3, <1>4 DEF TranslatedOneByOne
<1>6. QED
  BY <1>2, <1>5, JoinedFilters DEF R

\* The rule boolean asks for the flag, whatever the filters.
LEMMA BooleanRule ==
  ASSUME Reads, NEW d, NEW g, Group(g), g[1].type = "isFront", \A i \in DOMAIN g : g[i].context = "include"
  PROVE  Means(booleanHandler(Head(Fields(g[1].type))), g, d)
<1> DEFINE R == booleanHandler(Head(Fields(g[1].type)))
<1>1. R = Term("front", {1})
  BY ConfigFacts DEF booleanHandler
<1>2. Solid(R, d) /\ (Val(R, d) <=> 1 \in d["front"])
  BY <1>1, TermSolid
<1>3. \A i \in DOMAIN g : Wanted(g[i], d) <=> 1 \in d["front"]
  BY DEF Wanted, Group
<1>4. 1 \in DOMAIN g
  BY DEF Group, IsList
<1> HIDE DEF R
<1>5. AllWanted(g, d) <=> 1 \in d["front"]
  BY <1>3, <1>4 DEF AllWanted
<1>6. QED
  BY <1>2, <1>5, SolidFacts DEF Means, Wrappable, Solid, R

\* One more element at the end of a list.
LEMMA OneMore ==
  ASSUME NEW n \in Nat, NEW e
  PROVE  [k \in 1 .. n |-> e[k]] \o <<e[n + 1]>> = [k \in 1 .. (n + 1) |-> e[k]]
<1> DEFINE S == {e[k] : k \in 1 .. (n + 1)}
           a == [k \in 1 .. n |-> e[k]]
           b == [k \in 1 .. (n + 1) |-> e[k]]
<1>1. a \in Seq(S) /\ Len(a) = n /\ b \in Seq(S) /\ Len(b) = n + 1 /\ <<e[n + 1]>> \in Seq(S)
  BY Z3
<1>2. \A k \in 1 .. (n + 1) : k # n + 1 => k \in 1 .. n
  OBVIOUS
<1>3. Len(a \o <<e[n + 1]>>) = n + 1 /\ a \o <<e[n + 1]>> \in Seq(S)
  <2> HIDE DEF a, b, S
  <2> QED BY <1>1
<1>4. ASSUME NEW k \in 1 .. (n + 1) PROVE (a \o <<e[n + 1]>>)[k] = b[k]
  <2>1. CASE k = n + 1
    <3>1. b[k] = e[n + 1]
      BY <2>1
    <3>2. (a \o <<e[n + 1]>>)[k] = e[n + 1]
      <4> HIDE DEF a, b, S
      <4> QED BY <1>1, <2>1
    <3>3. QED
      BY <3>1, <3>2
  <2>2. CASE k # n + 1
    <3>1. k \in 1 .. n
      BY <2>2
    <3>2. b[k] = e[k] /\ a[k] = e[k]
      BY <3>1
    <3>3. (a \o <<e[n + 1]>>)[k] = a[k]
      <4> HIDE DEF a, b, S
      <4> QED BY <1>1, <3>1
    <3>4. QED
      BY <3>2, <3>3
  <2>3. QED
    BY <2>1, <2>2
<1> HIDE DEF a, b, S
<1>5. a \o <<e[n + 1]>> = b
  BY <1>1, <1>3, <1>4
<1>6. QED
  BY <1>5 DEF a, b

\* Sequences of one element, one after the other.
SinglesOf(ss, e) == \A i \in DOMAIN ss : ss[i] = <<e[i]>>

\* Lists of one element, one after the other.
LEMMA FlattenSingles ==
  ASSUME NEW ss, IsList(ss), Len(ss) >= 1, NEW e, SinglesOf(ss, e)
  PROVE  FlattenSeq(ss) = [i \in DOMAIN ss |-> e[i]]
<1> DEFINE N == Len(ss)
           upto(n) == [k \in 1 .. n |-> e[k]]
           Rec(h) == [n \in 1 .. N |-> IF n = 1 THEN ss[n] ELSE h[n - 1] \o ss[n]]
           g == [n \in 1 .. N |-> upto(n)]
           flatten == CHOOSE h : h = Rec(h)
<1>1. N \in Nat /\ N >= 1 /\ DOMAIN ss = 1 .. N
  BY DEF IsList
<1>2. FlattenSeq(ss) = flatten[N]
  BY <1>1 DEF FlattenSeq
<1> HIDE DEF N
<1>3. upto(1) = <<e[1]>>
  BY <1>1
<1>4. ASSUME NEW n \in 1 .. N, n # 1 PROVE upto(n - 1) \o ss[n] = upto(n)
  <2>1. n - 1 \in Nat /\ (n - 1) + 1 = n
    BY <1>1, <1>4
  <2> DEFINE p == n - 1
  <2>2. [k \in 1 .. p |-> e[k]] \o <<e[p + 1]>> = [k \in 1 .. (p + 1) |-> e[k]]
    <3> HIDE DEF p
    <3> QED BY <2>1, OneMore DEF p
  <2>3. ss[n] = <<e[n]>>
    BY <1>1 DEF SinglesOf
  <2>4. QED
    BY <2>1, <2>2, <2>3
<1> HIDE DEF upto
<1>5. g = Rec(g)
  <2> SUFFICES ASSUME NEW n \in 1 .. N PROVE g[n] = IF n = 1 THEN ss[n] ELSE g[n - 1] \o ss[n]
    OBVIOUS
  <2>1. CASE n = 1
    BY <1>1, <1>3, <2>1 DEF SinglesOf
  <2>2. CASE n # 1
    <3>1. n - 1 \in 1 .. N
      BY <1>1, <2>2
    <3>2. QED
      BY <1>4, <2>2, <3>1
  <2>3. QED
    BY <2>1, <2>2
<1>6. flatten = Rec(flatten)
  <2> HIDE DEF g, Rec
  <2> QED BY <1>5
<1> HIDE DEF flatten
<1>7. flatten[1] = ss[1] /\ \A n \in 1 .. N : n # 1 => flatten[n] = flatten[n - 1] \o ss[n]
  <2>1. \A n \in 1 .. N : flatten[n] = IF n = 1 THEN ss[n] ELSE flatten[n - 1] \o ss[n]
    BY <1>6
  <2>2. 1 \in 1 .. N
    BY <1>1
  <2>3. QED
    BY <2>1, <2>2
<1> DEFINE T == {n \in Nat : n + 1 \in 1 .. N => flatten[n + 1] = upto(n + 1)}
<1>8. 0 \in T
  <2>1. ss[1] = <<e[1]>> /\ 0 + 1 = 1
    BY <1>1 DEF SinglesOf
  <2>2. flatten[0 + 1] = upto(0 + 1)
    BY <1>3, <1>7, <2>1
  <2>3. QED
    BY <2>2
<1>9. ASSUME NEW n \in Nat, n \in T PROVE n + 1 \in T
  <2> SUFFICES ASSUME (n + 1) + 1 \in 1 .. N PROVE flatten[(n + 1) + 1] = upto((n + 1) + 1)
    OBVIOUS
  <2> DEFINE m == (n + 1) + 1
  <2>1. m \in 1 .. N /\ m # 1 /\ m - 1 = n + 1 /\ n + 1 \in 1 .. N
    BY <1>1
  <2>2. flatten[n + 1] = upto(n + 1)
    BY <1>9, <2>1
  <2> HIDE DEF m
  <2>3. flatten[m] = flatten[m - 1] \o ss[m]
    BY <1>7, <2>1
  <2>4. upto(m - 1) \o ss[m] = upto(m)
    BY <1>4, <2>1
  <2>5. QED
    BY <2>1, <2>2, <2>3, <2>4 DEF m
<1> HIDE DEF T
<1>10. N - 1 \in Nat /\ (N - 1) + 1 = N /\ N \in 1 .. N
  BY <1>1
<1>11. N - 1 \in T
  BY <1>8, <1>9, <1>10, Induction
<1>12. flatten[N] = upto(N)
  BY <1>10, <1>11 DEF T
<1>13. QED
  BY <1>1, <1>2, <1>12 DEF upto

\* The rule regex, of filters that are not parts of an expression.
LEMMA RegexRule ==
  ASSUME Reads, NEW d, NEW g, Group(g), g[1].type = "regex",
         \A i \in DOMAIN g : g[i].context = "include" /\ g[i].op = "OR" /\ Len(g[i].q) <= 1
  PROVE  Means(reduceRegexFilters(g, Fields(g[1].type)), g, d)
<1> DEFINE F == Fields(g[1].type)
           e == [i \in DOMAIN g |-> ValueTexts(g[i])[1]]
           ss == [i \in DOMAIN g |-> ValueTexts(g[i])]
           R == reduceRegexFilters(g, F)
<1>1. /\ IsList(g) /\ Len(g) >= 1 /\ 1 \in DOMAIN g
      /\ \A i \in DOMAIN g : g[i] \in Wish /\ g[i].type = g[1].type
  BY DEF Group, IsList
<1>2. ASSUME NEW i \in DOMAIN g
      PROVE  /\ IsList(ValueTexts(g[i])) /\ Len(ValueTexts(g[i])) = 1
             /\ Solid(e[i], d) /\ (Val(e[i], d) <=> Wanted(g[i], d))
  <2> DEFINE V == ValueTexts(g[i])
  <2>1. /\ IsList(V) /\ Len(V) = 1 /\ \A k \in DOMAIN V : Solid(V[k], d)
        /\ Holds(g[i], d) <=> \E k \in DOMAIN V : Val(V[k], d)
    BY <1>1, ValueTextsSolid
  <2>2. Wanted(g[i], d) <=> Holds(g[i], d)
    BY <1>1, WantedFacts
  <2>3. DOMAIN V = {1} /\ e[i] = V[1]
    BY <2>1 DEF IsList
  <2> HIDE DEF V, e
  <2>4. QED
    BY <2>1, <2>2, <2>3 DEF V
<1>3. \A i \in DOMAIN g : ValueTexts(g[i]) = <<e[i]>>
  <2> SUFFICES ASSUME NEW i \in DOMAIN g PROVE ValueTexts(g[i]) = <<e[i]>>
    OBVIOUS
  <2> DEFINE V == ValueTexts(g[i])
  <2>1. DOMAIN V = 1 .. 1 /\ e[i] = V[1] /\ V = [k \in DOMAIN V |-> V[k]]
    BY <1>2 DEF IsList, ValueTexts, Each
  <2> HIDE DEF V, e
  <2>2. V = <<e[i]>>
    BY <2>1
  <2>3. QED
    BY <2>2 DEF V
<1>4. R = Join("AND", FlattenSeq(ss))
  <2> DEFINE pieces(f) == Each(ValuesOf(f), LAMBDA vals :
                                 Grouped(f.op, Each(F, LAMBDA fd : Term(fd, vals))))
  <2>1. \A i \in DOMAIN g : pieces(g[i]) = ValueTexts(g[i])
    <3> SUFFICES ASSUME NEW i \in DOMAIN g PROVE pieces(g[i]) = ValueTexts(g[i])
      OBVIOUS
    <3>1. g[i].op = "OR" /\ Fields(g[i].type) = F
      BY <1>1
    <3>2. QED
      BY <3>1 DEF ValueTexts, InFields, Each
  <2>2. R = Join("AND", FlattenSeq([i \in DOMAIN g |-> pieces(g[i])]))
    BY DEF reduceRegexFilters, Each
  <2> HIDE DEF pieces, R
  <2>3. [i \in DOMAIN g |-> pieces(g[i])] = ss
    BY <2>1
  <2>4. QED
    BY <2>2, <2>3
<1>5. FlattenSeq(ss) = e
  <2>1. IsList(ss) /\ Len(ss) >= 1 /\ DOMAIN ss = DOMAIN g
    BY <1>1 DEF IsList
  <2>2. SinglesOf(ss, e)
    BY <1>3 DEF SinglesOf
  <2>3. e = [i \in DOMAIN ss |-> e[i]]
    OBVIOUS
  <2> HIDE DEF ss, e
  <2>4. QED
    BY <2>1, <2>2, <2>3, FlattenSingles
<1>6. IsList(e) /\ Len(e) >= 1 /\ DOMAIN e = DOMAIN g
  BY <1>1 DEF IsList
<1> HIDE DEF e, ss, R
<1>7. \A i \in DOMAIN g : Sound(e[i], d) /\ (AllHold(e[i], d) <=> Wanted(g[i], d)) /\ ~e[i][1].not
  BY <1>2, SolidFacts DEF Solid
<1>8. TranslatedOneByOne(e, g, d) /\ ~e[1][1].not
  BY <1>1, <1>6, <1>7 DEF TranslatedOneByOne
<1>9. QED
  BY <1>4, <1>5, <1>8, JoinedFilters DEF R

\* Picked takes each of the places once, and no other element.
TakenAt(p, s, places) ==
  \E at \in Seq(places) :
    /\ {at[k] : k \in DOMAIN at} = places
    /\ \A j, k \in DOMAIN at : at[j] = at[k] => j = k
    /\ p = [k \in DOMAIN at |-> s[at[k]]]

\* One more step of Picked.
LEMMA TakeOneMore ==
  ASSUME NEW s, NEW p, NEW places, TakenAt(p, s, places), NEW n, n \notin places
  PROVE  TakenAt(Append(p, s[n]), s, places \cup {n})
<1>1. PICK at \in Seq(places) :
        /\ {at[k] : k \in DOMAIN at} = places
        /\ \A j, k \in DOMAIN at : at[j] = at[k] => j = k
        /\ p = [k \in DOMAIN at |-> s[at[k]]]
  BY DEF TakenAt
<1> DEFINE more == Append(at, n)
           L == Len(at)
<1>2. L \in Nat /\ DOMAIN at = 1 .. L /\ \A k \in 1 .. L : at[k] \in places
  OBVIOUS
<1>3. /\ more \in Seq(places \cup {n}) /\ Len(more) = L + 1 /\ DOMAIN more = 1 .. (L + 1)
      /\ \A k \in 1 .. L : more[k] = at[k]
      /\ more[L + 1] = n
  <2>1. at \in Seq(places \cup {n})
    OBVIOUS
  <2>2. QED
    BY <2>1
<1>4. Append(p, s[n]) = [k \in DOMAIN more |-> s[more[k]]]
  <2> DEFINE S == {s[k] : k \in places \cup {n}}
             a == Append(p, s[n])
             b == [k \in DOMAIN more |-> s[more[k]]]
  <2> HIDE DEF more, L
  <2>1. p = [k \in 1 .. L |-> s[at[k]]]
    BY <1>1, <1>2
  <2>2. p \in Seq(S) /\ Len(p) = L /\ s[n] \in S
    BY <1>2, <2>1
  <2>3. b = [k \in 1 .. (L + 1) |-> s[more[k]]]
    BY <1>3
  <2>4. b \in Seq(S) /\ Len(b) = L + 1
    <3>1. \A k \in 1 .. (L + 1) : more[k] \in places \cup {n}
      BY <1>3
    <3>2. QED
      BY <1>2, <2>3, <3>1
  <2> HIDE DEF S, b
  <2>5. a \in Seq(S) /\ Len(a) = L + 1 /\ a[L + 1] = s[n] /\ \A k \in 1 .. L : a[k] = p[k]
    BY <1>2, <2>2
  <2>6. \A k \in 1 .. (L + 1) : a[k] = b[k]
    <3> TAKE k \in 1 .. (L + 1)
    <3>1. CASE k = L + 1
      BY <1>3, <2>3, <2>5, <3>1
    <3>2. CASE k # L + 1
      <4>1. k \in 1 .. L
        BY <1>2, <3>2
      <4>2. a[k] = s[at[k]] /\ more[k] = at[k]
        BY <1>3, <2>1, <2>5, <4>1
      <4>3. QED
        BY <2>3, <4>2
    <3>3. QED
      BY <3>1, <3>2
  <2> HIDE DEF a
  <2>7. a = b
    BY <1>2, <2>4, <2>5, <2>6
  <2>8. QED
    BY <2>7 DEF a, b
<1> HIDE DEF more, L
<1>5. {more[k] : k \in DOMAIN more} = places \cup {n}
  <2>1. {more[k] : k \in DOMAIN more} \subseteq places \cup {n}
    BY <1>3
  <2>2. n \in {more[k] : k \in DOMAIN more}
    <3>1. L + 1 \in DOMAIN more
      BY <1>2, <1>3
    <3>2. QED
      BY <1>3, <3>1
  <2>3. ASSUME NEW x \in places PROVE x \in {more[k] : k \in DOMAIN more}
    <3>1. PICK k \in 1 .. L : at[k] = x
      BY <1>1, <1>2
    <3>2. k \in DOMAIN more /\ more[k] = x
      BY <1>2, <1>3, <3>1
    <3>3. QED
      BY <3>2
  <2>4. QED
    BY <2>1, <2>2, <2>3
<1>6. \A j, k \in DOMAIN more : more[j] = more[k] => j = k
  <2> TAKE j, k \in DOMAIN more
  <2> HAVE more[j] = more[k]
  <2>1. (j \in 1 .. L \/ j = L + 1) /\ (k \in 1 .. L \/ k = L + 1)
    BY <1>2, <1>3
  <2>2. CASE j \in 1 .. L /\ k \in 1 .. L
    BY <1>1, <1>2, <1>3, <2>2
  <2>3. CASE j \in 1 .. L /\ k = L + 1
    BY <1>2, <1>3, <2>3
  <2>4. CASE k \in 1 .. L /\ j = L + 1
    BY <1>2, <1>3, <2>4
  <2>5. QED
    BY <2>1, <2>2, <2>3, <2>4
<1>7. QED
  BY <1>3, <1>4, <1>5, <1>6 DEF TakenAt

\* Picked takes the elements at the places one by one, in their order.
LEMMA PickedTakes ==
  ASSUME NEW s, IsList(s), NEW places \in SUBSET (DOMAIN s)
  PROVE  TakenAt(Picked(s, places), s, places)
<1> DEFINE N == Len(s)
           V == Seq({s[i] : i \in DOMAIN s})
           next(v, n) == IF n \in places THEN Append(v, s[n]) ELSE v
           Rec(h) == [n \in 0 .. N |-> IF n = 0 THEN <<>>
                                       ELSE IF n \in places THEN Append(h[n - 1], s[n]) ELSE h[n - 1]]
           step == [n \in Nat |-> [v \in V |-> IF n \in 1 .. N THEN next(v, n) ELSE v]]
           upto == CHOOSE h : h = Rec(h)
<1>1. N \in Nat /\ DOMAIN s = 1 .. N
  BY DEF IsList
<1>2. Picked(s, places) = upto[N]
  BY DEF Picked
<1> HIDE DEF N
<1>3. StepsIn(step, V)
  <2> SUFFICES ASSUME NEW n \in Nat, NEW v \in V PROVE step[n][v] \in V
    BY DEF StepsIn
  <2>1. n \in 1 .. N => s[n] \in {s[i] : i \in DOMAIN s}
    BY <1>1
  <2>2. QED
    BY <2>1
<1>4. HasIterates(<<>>, step, V, N)
  <2>1. <<>> \in V
    OBVIOUS
  <2> DEFINE W == V
             base == <<>>
  <2>2. base \in W /\ StepsIn(step, W)
    BY <1>3, <2>1
  <2> HIDE DEF V, step, W, base
  <2>3. HasIterates(base, step, W, N)
    BY <1>1, <2>2, Iterates
  <2>4. QED
    BY <2>3 DEF W, base
<1>5. PICK f \in [0 .. N -> V] : f[0] = <<>> /\ \A n \in 1 .. N : f[n] = step[n][f[n - 1]]
  <2> HIDE DEF V, step
  <2> QED BY <1>4 DEF HasIterates
<1>6. f = Rec(f)
  <2>1. f = [n \in 0 .. N |-> f[n]]
    OBVIOUS
  <2>2. ASSUME NEW n \in 0 .. N
        PROVE  f[n] = IF n = 0 THEN <<>>
                      ELSE IF n \in places THEN Append(f[n - 1], s[n]) ELSE f[n - 1]
    <3>1. CASE n = 0
      BY <1>5, <3>1
    <3>2. CASE n # 0
      <4>1. n \in 1 .. N /\ n \in Nat /\ n - 1 \in 0 .. N
        BY <1>1, <3>2
      <4>2. f[n] = step[n][f[n - 1]] /\ f[n - 1] \in V
        <5> HIDE DEF V, step
        <5> QED BY <1>5, <4>1
      <4>3. step[n][f[n - 1]] = next(f[n - 1], n)
        <5> HIDE DEF V, next
        <5> QED BY <4>1, <4>2
      <4>4. QED
        BY <3>2, <4>2, <4>3
    <3>3. QED
      BY <3>1, <3>2
  <2>3. QED
    BY <2>1, <2>2
<1>7. upto = Rec(upto)
  <2> HIDE DEF Rec
  <2> QED BY <1>6
<1> HIDE DEF upto, step, V
<1>8. /\ upto[0] = <<>>
      /\ \A n \in 1 .. N : upto[n] = IF n \in places THEN Append(upto[n - 1], s[n]) ELSE upto[n - 1]
  <2>1. \A n \in 0 .. N : upto[n] = IF n = 0 THEN <<>>
                                    ELSE IF n \in places THEN Append(upto[n - 1], s[n]) ELSE upto[n - 1]
    BY <1>7
  <2>2. 0 \in 0 .. N /\ \A n \in 1 .. N : n \in 0 .. N /\ n # 0
    BY <1>1
  <2>3. QED
    BY <2>1, <2>2
<1> DEFINE Before(n) == places \cap (1 .. n)
           T == {n \in Nat : n \in 0 .. N => TakenAt(upto[n], s, Before(n))}
<1>9. 0 \in T
  <2>1. Before(0) = {}
    OBVIOUS
  <2> DEFINE none == <<>>
  <2>2. none \in Seq({}) /\ DOMAIN none = {} /\ {none[k] : k \in DOMAIN none} = {}
    OBVIOUS
  <2>3. <<>> = [k \in DOMAIN none |-> s[none[k]]]
    OBVIOUS
  <2> HIDE DEF none
  <2>4. TakenAt(<<>>, s, {})
    BY <2>2, <2>3 DEF TakenAt
  <2>5. QED
    BY <1>8, <2>1, <2>4
<1>10. ASSUME NEW n \in Nat, n \in T PROVE n + 1 \in T
  <2> SUFFICES ASSUME n + 1 \in 0 .. N PROVE TakenAt(upto[n + 1], s, Before(n + 1))
    OBVIOUS
  <2>1. n \in 0 .. N /\ n + 1 \in 1 .. N /\ (n + 1) - 1 = n
    BY <1>1
  <2>2. TakenAt(upto[n], s, Before(n))
    BY <1>10, <2>1
  <2>3. upto[n + 1] = IF n + 1 \in places THEN Append(upto[n], s[n + 1]) ELSE upto[n]
    BY <1>8, <2>1
  <2>4. 1 .. (n + 1) = (1 .. n) \cup {n + 1} /\ n + 1 \notin 1 .. n
    OBVIOUS
  <2>5. CASE n + 1 \in places
    <3>1. Before(n + 1) = Before(n) \cup {n + 1} /\ n + 1 \notin Before(n)
      BY <2>4, <2>5
    <3> DEFINE m == n + 1
               p == upto[n]
               before == Before(n)
    <3>2. TakenAt(p, s, before) /\ m \notin before
      BY <2>2, <3>1
    <3> HIDE DEF m, p, before
    <3>3. TakenAt(Append(p, s[m]), s, before \cup {m})
      BY <3>2, TakeOneMore
    <3>4. QED
      BY <2>3, <2>5, <3>1, <3>3 DEF m, p, before
  <2>6. CASE n + 1 \notin places
    <3>1. Before(n + 1) = Before(n)
      BY <2>4, <2>6
    <3>2. QED
      BY <2>2, <2>3, <2>6, <3>1
  <2>7. QED
    BY <2>5, <2>6
<1> HIDE DEF T
<1>11. N \in T /\ N \in 0 .. N
  BY <1>1, <1>9, <1>10, Induction
<1>12. TakenAt(upto[N], s, Before(N))
  BY <1>11 DEF T
<1>13. Before(N) = places
  BY <1>1
<1>14. QED
  BY <1>2, <1>12, <1>13

\* Picked has the elements at the places, and only those.
LEMMA PickedFacts ==
  ASSUME NEW s, IsList(s), NEW places \in SUBSET (DOMAIN s)
  PROVE  LET p == Picked(s, places)
         IN  /\ IsList(p)
             /\ \A k \in DOMAIN p : \E i \in places : p[k] = s[i]
             /\ \A i \in places : \E k \in DOMAIN p : p[k] = s[i]
             /\ places = {} => p = <<>>
             /\ \A i : places = {i} => p = <<s[i]>>
             /\ \A S : s \in Seq(S) => p \in Seq(S)
<1> DEFINE p == Picked(s, places)
<1>1. PICK at \in Seq(places) :
        /\ {at[k] : k \in DOMAIN at} = places
        /\ \A j, k \in DOMAIN at : at[j] = at[k] => j = k
        /\ p = [k \in DOMAIN at |-> s[at[k]]]
  <2>1. TakenAt(p, s, places)
    BY PickedTakes
  <2> HIDE DEF p
  <2>2. QED
    BY <2>1 DEF TakenAt
<1> HIDE DEF p
<1>2. Len(at) \in Nat /\ DOMAIN at = 1 .. Len(at) /\ \A k \in DOMAIN at : at[k] \in places
  OBVIOUS
<1>3. DOMAIN p = DOMAIN at /\ \A k \in DOMAIN p : p[k] = s[at[k]]
  BY <1>1
<1>4. IsList(p)
  BY <1>1, <1>2 DEF IsList
<1>5. \A i \in places : \E k \in DOMAIN p : p[k] = s[i]
  <2> TAKE i \in places
  <2>1. PICK k \in DOMAIN at : at[k] = i
    BY <1>1
  <2>2. QED
    BY <1>3, <2>1
<1>6. ASSUME places = {} PROVE p = <<>>
  <2>1. at = <<>>
    BY <1>2, <1>6
  <2>2. QED
    BY <1>1, <2>1
<1>7. ASSUME NEW i, places = {i} PROVE p = <<s[i]>>
  <2>1. \A k \in DOMAIN at : at[k] = i
    BY <1>2, <1>7
  <2>2. Len(at) = 1
    <3>1. Len(at) # 0
      BY <1>1, <1>2, <1>7
    <3>2. ~(Len(at) >= 2)
      <4> SUFFICES ASSUME Len(at) >= 2 PROVE FALSE
        OBVIOUS
      <4>1. 1 \in DOMAIN at /\ 2 \in DOMAIN at
        BY <1>2
      <4>2. at[1] = at[2]
        BY <2>1, <4>1
      <4>3. QED
        BY <1>1, <4>1, <4>2
    <3>3. QED
      BY <1>2, <3>1, <3>2
  <2>3. p = [k \in 1 .. 1 |-> s[i]]
    BY <1>1, <1>2, <2>1, <2>2
  <2>4. QED
    BY <2>3
<1>8. ASSUME NEW S, s \in Seq(S) PROVE p \in Seq(S)
  <2>1. p = [k \in 1 .. Len(at) |-> s[at[k]]]
    BY <1>1, <1>2
  <2>2. \A k \in 1 .. Len(at) : s[at[k]] \in S
    BY <1>2, <1>8
  <2>3. QED
    BY <1>2, <2>1, <2>2
<1>9. QED
  BY <1>3, <1>2, <1>4, <1>5, <1>6, <1>7, <1>8 DEF p

\* A list of lists that is empty, or has one of them.
LEMMA FlattenFew ==
  /\ FlattenSeq(<<>>) = <<>>
  /\ \A ss : IsList(ss) /\ Len(ss) = 1 => FlattenSeq(ss) = ss[1]
<1>1. FlattenSeq(<<>>) = <<>>
  BY DEF FlattenSeq
<1>2. ASSUME NEW ss, IsList(ss), Len(ss) = 1 PROVE FlattenSeq(ss) = ss[1]
  <2> DEFINE Rec(h) == [n \in 1 .. 1 |-> IF n = 1 THEN ss[n] ELSE h[n - 1] \o ss[n]]
             g == [n \in 1 .. 1 |-> ss[1]]
             flatten == CHOOSE h : h = Rec(h)
  <2>1. FlattenSeq(ss) = flatten[1]
    BY <1>2 DEF FlattenSeq
  <2>2. g = Rec(g)
    OBVIOUS
  <2>3. flatten = Rec(flatten)
    <3> HIDE DEF Rec, g
    <3> QED BY <2>2
  <2> HIDE DEF flatten
  <2>4. QED
    BY <2>1, <2>3
<1>3. QED
  BY <1>1, <1>2

\* The rule joinCollection, of one filter that asks for some collection.
LEMMA CollectionText ==
  ASSUME NEW g, Group(g), Len(g) = 1, g[1].context = "include", g[1].q # <<>>,
         Len(g[1].q) = 1 \/ g[1].op = "OR"
  PROVE  LET f == g[1]
             terms == [k \in DOMAIN f.q |-> Term("collection", {f.q[k]})]
         IN  joinCollectionHandler(g) = Joined(Join(f.op, terms))
<1> DEFINE f == g[1]
           terms == [k \in DOMAIN f.q |-> Term("collection", {f.q[k]})]
           places(op, context) == {i \in DOMAIN g : g[i].op = op /\ g[i].context = context}
           named(op, context) == Picked(g, places(op, context))
           lists(op, context) == Each(named(op, context),
                                      LAMBDA x : Each(x.q, LAMBDA v : Term("collection", {v})))
           ids(op, context) == FlattenSeq(lists(op, context))
           as(op) == ids(op, "include") \o Each(ids(op, "exclude"), Negated)
<1>1. /\ IsList(g) /\ DOMAIN g = {1} /\ f \in Wish /\ f.op \in {"OR", "AND"}
      /\ Len(f.q) \in Nat /\ Len(f.q) >= 1 /\ DOMAIN f.q = 1 .. Len(f.q)
  <2>1. IsList(g) /\ DOMAIN g = {1} /\ f \in Wish
    BY DEF Group, IsList
  <2>2. QED
    BY <2>1, WishFacts
<1>2. joinCollectionHandler(g) =
        Joined(CASE as("AND") # <<>> /\ as("OR") # <<>> ->
                      Join("AND", <<Paren(Join("AND", as("AND"))), Paren(Join("OR", as("OR")))>>)
                 [] as("AND") # <<>> /\ as("OR") = <<>> -> Join("AND", as("AND"))
                 [] OTHER -> Join("OR", as("OR")))
  BY DEF joinCollectionHandler
<1>3. ASSUME NEW op, NEW context, op # f.op \/ context # "include" PROVE ids(op, context) = <<>>
  <2>1. places(op, context) = {}
    BY <1>1, <1>3
  <2>2. named(op, context) = <<>>
    BY <1>1, <2>1, PickedFacts
  <2> HIDE DEF named
  <2>3. lists(op, context) = <<>>
    BY <2>2 DEF Each
  <2>4. QED
    BY <2>3, FlattenFew
<1>4. ids(f.op, "include") = terms
  <2>1. places(f.op, "include") = {1}
    BY <1>1
  <2>2. named(f.op, "include") = <<f>>
    <3> DEFINE P == places(f.op, "include")
    <3>1. P \in SUBSET (DOMAIN g) /\ P = {1}
      BY <2>1
    <3> HIDE DEF P
    <3>2. Picked(g, P) = <<g[1]>>
      BY <1>1, <3>1, PickedFacts
    <3>3. QED
      BY <3>2 DEF P
  <2> HIDE DEF named
  <2> DEFINE nm == named(f.op, "include")
             ls == lists(f.op, "include")
  <2>3. ls = [i \in DOMAIN nm |-> [j \in DOMAIN nm[i].q |-> Term("collection", {nm[i].q[j]})]]
    BY DEF Each
  <2>4. DOMAIN nm = 1 .. 1 /\ nm[1] = f
    BY <2>2
  <2> HIDE DEF nm, ls
  <2>5. DOMAIN ls = 1 .. 1 /\ Len(ls) = 1 /\ ls[1] = [j \in DOMAIN f.q |-> Term("collection", {f.q[j]})]
    BY <2>3, <2>4
  <2> HIDE DEF terms, f
  <2>6. FlattenSeq(ls) = ls[1]
    BY <2>5, FlattenFew DEF IsList
  <2>7. QED
    BY <2>5, <2>6 DEF ls, terms
<1>5. terms \in Seq({terms[k] : k \in DOMAIN terms}) /\ Len(terms) = Len(f.q) /\ terms # <<>>
  <2>1. terms = [k \in 1 .. Len(f.q) |-> terms[k]] /\ DOMAIN terms = 1 .. Len(f.q)
    BY <1>1
  <2> HIDE DEF terms
  <2>2. QED
    BY <1>1, <2>1
<1> HIDE DEF ids, terms, f
<1>6. Each(<<>>, Negated) = <<>>
  BY DEF Each
<1>7. as(f.op) = terms
  BY <1>3, <1>4, <1>5, <1>6
<1>8. \A op : op # f.op => as(op) = <<>>
  BY <1>3, <1>6
<1> HIDE DEF as
<1>9. QED
  <2>1. CASE f.op = "AND"
    <3>1. as("AND") = terms /\ as("OR") = <<>>
      BY <1>7, <1>8, <2>1
    <3>2. QED
      BY <1>2, <1>5, <2>1, <3>1 DEF f, terms
  <2>2. CASE f.op = "OR"
    <3>1. as("OR") = terms /\ as("AND") = <<>>
      BY <1>7, <1>8, <2>2
    <3>2. QED
      BY <1>2, <1>5, <2>2, <3>1 DEF f, terms
  <2>3. QED
    BY <1>1, <2>1, <2>2

\* The rule joinCollection means what its one filter says.
LEMMA CollectionRule ==
  ASSUME Reads, NEW d, NEW g, Group(g), g[1].type = "collection", Len(g) = 1,
         g[1].context = "include", g[1].q # <<>>, Len(g[1].q) = 1 \/ g[1].op = "OR"
  PROVE  Means(joinCollectionHandler(g), g, d)
<1> DEFINE f == g[1]
           terms == [k \in DOMAIN f.q |-> Term("collection", {f.q[k]})]
           text == Join(f.op, terms)
           R == joinCollectionHandler(g)
<1>1. /\ IsList(g) /\ DOMAIN g = {1} /\ f \in Wish /\ f.op \in {"OR", "AND"}
      /\ Len(f.q) \in Nat /\ Len(f.q) >= 1 /\ DOMAIN f.q = 1 .. Len(f.q)
      /\ \A k \in DOMAIN f.q : f.q[k] \in 1 .. 3
  <2>1. IsList(g) /\ DOMAIN g = {1} /\ f \in Wish
    BY DEF Group, IsList
  <2>2. QED
    BY <2>1, WishFacts
<1>2. R = Joined(text)
  BY CollectionText
<1>3. IsList(terms) /\ Len(terms) = Len(f.q) /\ DOMAIN terms = DOMAIN f.q
  BY <1>1 DEF IsList
<1>4. ASSUME NEW e, NEW k \in DOMAIN f.q
      PROVE  Solid(terms[k], e) /\ (Val(terms[k], e) <=> e["collection"] \cap {f.q[k]} # {})
  BY TermSolid
<1> HIDE DEF terms, text, R
<1>5. ASSUME NEW c
      PROVE  Matches(text, [collection |-> {c}], TRUE) <=> \E k \in DOMAIN f.q : c = f.q[k]
  <2> DEFINE e == [collection |-> {c}]
  <2>1. \A k \in DOMAIN f.q : Val(terms[k], e) <=> c = f.q[k]
    <3>1. e["collection"] = {c}
      OBVIOUS
    <3> HIDE DEF e
    <3> TAKE k \in DOMAIN f.q
    <3>2. Val(terms[k], e) <=> e["collection"] \cap {f.q[k]} # {}
      BY <1>4
    <3> DEFINE v == f.q[k]
    <3> HIDE DEF v
    <3>3. {c} \cap {v} # {} <=> c = v
      OBVIOUS
    <3>4. QED
      BY <3>1, <3>2, <3>3 DEF v
  <2>2. \A k \in DOMAIN terms : Solid(terms[k], e) /\ IsText(terms[k])
    BY <1>3, <1>4 DEF Solid
  <2> HIDE DEF e
  <2>3. Matches(text, e, TRUE) <=> \E k \in DOMAIN terms : Val(terms[k], e)
    <3>1. CASE f.op = "OR"
      <4>1. f.op # "AND" /\ TRUE \in BOOLEAN
        BY <3>1
      <4>2. IsList(terms) /\ Len(terms) >= 1 /\ \A k \in DOMAIN terms : Solid(terms[k], e)
        BY <1>1, <1>3, <2>2
      <4> HIDE DEF f
      <4>3. QED
        BY <4>1, <4>2, JoinAlternatives DEF text
    <3>2. CASE f.op # "OR"
      <4>1. Len(terms) = 1 /\ DOMAIN terms = {1}
        BY <1>1, <1>3, <3>2
      <4>2. text = terms[1]
        BY <1>3, <2>2, <4>1, JoinFacts DEF text
      <4>3. QED
        BY <2>2, <4>1, <4>2, SolidFacts
    <3>3. QED
      BY <3>1, <3>2
  <2>4. QED
    BY <1>3, <2>1, <2>3 DEF e
<1>6. /\ Solid(R, d)
      /\ Val(R, d) <=> \E c \in d["collection"] : Matches(text, [collection |-> {c}], TRUE)
  BY <1>2, JoinedSolid
<1>7. Val(R, d) <=> \E k \in DOMAIN f.q : f.q[k] \in d["collection"]
  BY <1>5, <1>6
<1>8. Holds(f, d) <=> \E k \in DOMAIN f.q : f.q[k] \in d["collection"]
  <2> DEFINE vs == {f.q[i] : i \in DOMAIN f.q}
  <2>1. \A v \in vs : Has("collection", Period(v), d) <=> v \in d["collection"]
    <3>1. \A v \in vs : Period(v) = {v}
      BY <1>1 DEF Period
    <3>2. ASSUME NEW vals PROVE Has("collection", vals, d) <=> d["collection"] \cap vals # {}
      BY ConfigFacts DEF Has
    <3>3. QED
      BY <3>1, <3>2
  <2>2. Holds(f, d) <=> IF f.op = "AND" THEN \A v \in vs : Has("collection", Period(v), d)
                                        ELSE \E v \in vs : Has("collection", Period(v), d)
    BY DEF Holds, Has, Fields
  <2>3. f.op = "AND" => vs = {f.q[1]} /\ 1 \in DOMAIN f.q
    BY <1>1
  <2>4. (\E v \in vs : Has("collection", Period(v), d)) <=> \E k \in DOMAIN f.q : f.q[k] \in d["collection"]
    <3>1. (\E v \in vs : Has("collection", Period(v), d)) <=> \E v \in vs : v \in d["collection"]
      BY <2>1
    <3>2. QED
      BY <3>1
  <2>5. f.op = "AND" => ((\A v \in vs : Has("collection", Period(v), d))
                            <=> \E v \in vs : Has("collection", Period(v), d))
    BY <2>3
  <2> HIDE DEF vs
  <2>6. QED
    BY <2>2, <2>4, <2>5
<1>9. Wanted(f, d) <=> Holds(f, d)
  BY <1>1, WantedFacts
<1>10. AllWanted(g, d) <=> Wanted(f, d)
  BY <1>1 DEF AllWanted
<1>11. QED
  BY <1>6, <1>7, <1>8, <1>9, <1>10, SolidFacts DEF Means, Wrappable, Solid, R

-----------------------------------------------------------------------------
(* A group of filters, whatever its type. *)

\* A set of numbers has a smallest.
LEMMA Smallest ==
  ASSUME NEW S \in SUBSET Nat, S # {}
  PROVE  \E x \in S : \A y \in S : x <= y
<1> DEFINE R == OpToRel(<, Nat)
<1>1. IsWellFoundedOn(R, Nat)
  BY NatLessThanWellFounded
<1>2. \A x, y \in Nat : y < x => <<y, x>> \in R
  BY DEF OpToRel
<1> HIDE DEF R
<1>3. PICK x \in S : \A y \in S : <<y, x>> \notin R
  <2>1. S \subseteq Nat
    OBVIOUS
  <2>2. QED
    BY <1>1, <2>1, WFMin
<1>4. \A y \in S : x <= y
  <2> TAKE y \in S
  <2>1. x \in Nat /\ y \in Nat /\ ~(y < x)
    BY <1>2, <1>3
  <2>2. QED
    BY <2>1
<1>5. QED
  BY <1>4

-----------------------------------------------------------------------------
\* What Plain and Refused leave of the filters of one type.
PlainGroup(g) ==
  \A i \in DOMAIN g :
    LET f == g[i]
    IN  /\ f.type \in {"string", "title"} =>
              \/ Len(f.q) <= 1
              \/ f.context = "include" /\ (f.op = "AND" \/ Len(g) = 1)
        /\ f.type = "isFront" => f.context = "include"
        /\ f.type = "regex" => f.context = "include" /\ f.op = "OR" /\ Len(f.q) <= 1
        /\ f.type = "ocrQuality" => Len(f.q) \in {0, 2}
        /\ f.type = "collection" => /\ Len(g) = 1 /\ f.context = "include" /\ f.q # <<>>
                                    /\ Len(f.q) = 1 \/ f.op = "OR"

\* A string filter whose alternatives must not meet another text.
Loose(g) ==
  g[1].type \in {"string", "title"} /\ Len(g) = 1 /\ Len(g[1].q) > 1 /\ g[1].context = "include" /\ g[1].op = "OR"

\* Whatever its rule, a group of plain filters means all of them.
LEMMA GroupRule ==
  ASSUME Reads, NEW d, NEW g \in Seq(Wish), Group(g), PlainGroup(g)
  PROVE  /\ Means(filtersToSolr(g), g, d)
         /\ g[1].type \in {"string", "title"} /\ ~Loose(g) =>
               Sound(filtersToSolr(g), d) /\ (AllHold(filtersToSolr(g), d) <=> AllWanted(g, d))
<1> DEFINE type == g[1].type
           F == Fields(type)
<1>1. /\ Head(g) = g[1] /\ g[1] \in Wish /\ 1 \in DOMAIN g /\ type \in DOMAIN Config
      /\ \A i \in DOMAIN g : g[i] \in Wish /\ g[i].type = type /\ Len(g[i].q) \in Nat
  BY WishFacts DEF Group, IsList
<1>2. filtersToSolr(g) =
        CASE Config[type].rule = "value"          -> valueBuilder(g, F)
          [] Config[type].rule = "string"         -> reduceStringFilters(g, F)
          [] Config[type].rule = "numericRange"   -> reduceNumericRangeFilters(g, Head(F))
          [] Config[type].rule = "dateRange"      -> reduceDaterangeFilters(g, Head(F))
          [] Config[type].rule = "regex"          -> reduceRegexFilters(g, F)
          [] Config[type].rule = "boolean"        -> booleanHandler(Head(F))
          [] Config[type].rule = "joinCollection" -> joinCollectionHandler(g)
  BY <1>1 DEF filtersToSolr, Fields
<1> HIDE DEF F
<1>3. TypeFacts(type) /\ type \in {"string", "title", "uid", "language", "topic", "entity", "ocrQuality",
                                   "daterange", "isFront", "regex", "collection"}
  BY <1>1, ConfigFacts
<1>4. CASE type \in {"string", "title"}
  <2>1. filtersToSolr(g) = reduceStringFilters(g, F)
    BY <1>2, <1>3, <1>4 DEF TypeFacts
  <2>2. CASE Loose(g)
    BY <1>4, <2>1, <2>2, StringAlone DEF Loose, F
  <2>3. CASE ~Loose(g)
    <3>1. \A i \in DOMAIN g : Len(g[i].q) <= 1 \/ (g[i].context = "include" /\ g[i].op = "AND")
      <4> TAKE i \in DOMAIN g
      <4>1. \/ Len(g[i].q) <= 1
            \/ g[i].context = "include" /\ (g[i].op = "AND" \/ Len(g) = 1)
        BY <1>1, <1>4 DEF PlainGroup
      <4>2. Len(g) = 1 => i = 1
        BY DEF Group, IsList
      <4>3. g[i].op \in {"AND", "OR"}
        BY <1>1, WishFacts
      <4>4. QED
        BY <1>1, <1>4, <2>3, <4>1, <4>2, <4>3 DEF Loose
    <3>2. QED
      BY <1>4, <2>1, <3>1, StringRule DEF F
  <2>4. QED
    BY <2>2, <2>3
<1>5. CASE type \in {"uid", "language", "topic", "entity"}
  <2>1. Config[type].rule = "value" /\ filtersToSolr(g) = valueBuilder(g, F)
    BY <1>2, <1>3, <1>5 DEF TypeFacts
  <2>2. QED
    BY <1>5, <2>1, ValueRule DEF F
<1>6. CASE type = "ocrQuality"
  <2>1. filtersToSolr(g) = reduceNumericRangeFilters(g, Head(F))
    BY <1>2, <1>3, <1>6 DEF TypeFacts
  <2>2. \A i \in DOMAIN g : Len(g[i].q) \in {0, 2}
    BY <1>1, <1>6 DEF PlainGroup
  <2>3. QED
    BY <1>6, <2>1, <2>2, NumericRule DEF F
<1>7. CASE type = "daterange"
  <2>1. filtersToSolr(g) = reduceDaterangeFilters(g, Head(F))
    BY <1>2, <1>3, <1>7 DEF TypeFacts
  <2>2. QED
    BY <1>7, <2>1, DateRule DEF F
<1>8. CASE type = "isFront"
  <2>1. filtersToSolr(g) = booleanHandler(Head(F))
    BY <1>2, <1>3, <1>8 DEF TypeFacts
  <2>2. \A i \in DOMAIN g : g[i].context = "include"
    BY <1>1, <1>8 DEF PlainGroup
  <2>3. QED
    BY <1>8, <2>1, <2>2, BooleanRule DEF F
<1>9. CASE type = "regex"
  <2>1. filtersToSolr(g) = reduceRegexFilters(g, F)
    BY <1>2, <1>3, <1>9 DEF TypeFacts
  <2>2. \A i \in DOMAIN g : g[i].context = "include" /\ g[i].op = "OR" /\ Len(g[i].q) <= 1
    BY <1>1, <1>9 DEF PlainGroup
  <2>3. QED
    BY <1>9, <2>1, <2>2, RegexRule DEF F
<1>10. CASE type = "collection"
  <2>1. filtersToSolr(g) = joinCollectionHandler(g)
    BY <1>2, <1>3, <1>10 DEF TypeFacts
  <2>2. Len(g) = 1 /\ g[1].context = "include" /\ g[1].q # <<>> /\ (Len(g[1].q) = 1 \/ g[1].op = "OR")
    BY <1>1, <1>10 DEF PlainGroup
  <2>3. QED
    BY <1>10, <2>1, <2>2, CollectionRule
<1>11. QED
  BY <1>3, <1>4, <1>5, <1>6, <1>7, <1>8, <1>9, <1>10

-----------------------------------------------------------------------------
OfType(fs, type) == {i \in DOMAIN fs : fs[i].type = type}

\* GroupedByType: one group for each type, named by one of its filters.
GroupedAt(fs, at) ==
  LET G == GroupedByType(fs)
  IN  /\ at \in Seq(DOMAIN fs)
      /\ IsList(G) /\ DOMAIN G = DOMAIN at
      /\ \A j, k \in DOMAIN at : at[j] = at[k] => j = k
      /\ \A k \in DOMAIN G : G[k] = Picked(fs, OfType(fs, fs[at[k]].type))
      /\ \A i \in DOMAIN fs : \E k \in DOMAIN G : fs[at[k]].type = fs[i].type

\* Filters of a type are in one group, and every type has its own.
LEMMA Grouping ==
  ASSUME NEW fs \in Seq(Wish)
  PROVE  \E at : GroupedAt(fs, at)
<1> DEFINE starts == {i \in DOMAIN fs : \A j \in 1 .. i - 1 : fs[j].type # fs[i].type}
           firsts == Picked(fs, starts)
           G == GroupedByType(fs)
<1>1. IsList(fs) /\ DOMAIN fs = 1 .. Len(fs) /\ Len(fs) \in Nat
  BY DEF IsList
<1>2. G = [k \in DOMAIN firsts |-> Picked(fs, OfType(fs, firsts[k].type))]
  BY DEF GroupedByType, Each, OfType
<1>3. PICK at \in Seq(starts) :
        /\ {at[k] : k \in DOMAIN at} = starts
        /\ \A j, k \in DOMAIN at : at[j] = at[k] => j = k
        /\ firsts = [k \in DOMAIN at |-> fs[at[k]]]
  <2>1. starts \in SUBSET (DOMAIN fs)
    OBVIOUS
  <2> HIDE DEF starts
  <2>2. TakenAt(firsts, fs, starts)
    BY <1>1, <2>1, PickedTakes
  <2> HIDE DEF firsts
  <2>3. QED
    BY <2>2 DEF TakenAt
<1> HIDE DEF firsts, G
<1>4. DOMAIN firsts = DOMAIN at /\ \A k \in DOMAIN at : firsts[k] = fs[at[k]]
  BY <1>3
<1>5. DOMAIN at = 1 .. Len(at) /\ Len(at) \in Nat /\ at \in Seq(DOMAIN fs)
  <2>1. starts \subseteq DOMAIN fs
    OBVIOUS
  <2> HIDE DEF starts
  <2>2. QED
    BY <2>1
<1>6. DOMAIN G = DOMAIN at /\ \A k \in DOMAIN G : G[k] = Picked(fs, OfType(fs, fs[at[k]].type))
  BY <1>2, <1>4
<1>7. IsList(G)
  <2>1. G = [k \in 1 .. Len(at) |-> G[k]]
    BY <1>2, <1>4, <1>5
  <2>2. QED
    BY <1>5, <2>1 DEF IsList
<1>8. \A i \in DOMAIN fs : \E k \in DOMAIN G : fs[at[k]].type = fs[i].type
  <2> TAKE i \in DOMAIN fs
  <2> DEFINE same == OfType(fs, fs[i].type)
  <2>1. same \in SUBSET Nat /\ same # {} /\ same \subseteq DOMAIN fs
    BY <1>1 DEF OfType
  <2>2. PICK x \in same : \A y \in same : x <= y
    <3> HIDE DEF same
    <3> QED BY <2>1, Smallest
  <2>3. x \in DOMAIN fs /\ fs[x].type = fs[i].type
    BY DEF OfType
  <2>4. x \in starts
    <3> SUFFICES ASSUME NEW j \in 1 .. x - 1, fs[j].type = fs[x].type PROVE FALSE
      BY <2>3
    <3>1. j \in DOMAIN fs /\ j < x /\ j \in Nat /\ x \in Nat
      BY <1>1, <2>3
    <3>2. j \in same
      BY <2>3, <3>1 DEF OfType
    <3>3. x <= j
      <4> HIDE DEF same
      <4> QED BY <2>2, <3>2
    <3>4. QED
      BY <3>1, <3>3
  <2> HIDE DEF starts
  <2>5. PICK k \in DOMAIN at : at[k] = x
    BY <1>3, <2>4
  <2>6. QED
    BY <1>6, <2>3, <2>5
<1>9. GroupedAt(fs, at)
  BY <1>3, <1>5, <1>6, <1>7, <1>8 DEF GroupedAt, G
<1>10. QED
  BY <1>9

-----------------------------------------------------------------------------
(* The groups, and the request. *)

\* The filters of a type, as a group.
LEMMA GroupOf ==
  ASSUME NEW fs \in Seq(Wish), NEW type, NEW g, g = Picked(fs, OfType(fs, type)),
         OfType(fs, type) # {}
  PROVE  /\ g \in Seq(Wish) /\ Group(g) /\ g[1].type = type
         /\ \A k \in DOMAIN g : \E i \in OfType(fs, type) : g[k] = fs[i]
         /\ \A i \in OfType(fs, type) : \E k \in DOMAIN g : g[k] = fs[i]
         /\ \A i : OfType(fs, type) = {i} => g = <<fs[i]>>
<1> DEFINE places == OfType(fs, type)
<1>1. IsList(fs) /\ \A i \in DOMAIN fs : fs[i] \in Wish
  BY DEF IsList
<1>2. places \in SUBSET (DOMAIN fs) /\ \A i \in places : fs[i].type = type /\ fs[i] \in Wish
  BY DEF OfType
<1> HIDE DEF places
<1>3. /\ IsList(g) /\ g \in Seq(Wish)
      /\ \A k \in DOMAIN g : \E i \in places : g[k] = fs[i]
      /\ \A i \in places : \E k \in DOMAIN g : g[k] = fs[i]
      /\ \A i : places = {i} => g = <<fs[i]>>
  BY <1>1, <1>2, PickedFacts DEF places
<1>4. \A k \in DOMAIN g : g[k] \in Wish /\ g[k].type = type
  BY <1>2, <1>3
<1>5. Len(g) >= 1 /\ 1 \in DOMAIN g
  <2>1. DOMAIN g # {}
    BY <1>3 DEF places
  <2>2. QED
    BY <1>3, <2>1 DEF IsList
<1>6. Group(g) /\ g[1].type = type
  BY <1>3, <1>4, <1>5 DEF Group
<1>7. QED
  BY <1>3, <1>6 DEF places

\* The groups of plain filters are plain.
LEMMA GroupPlain ==
  ASSUME NEW fs \in Seq(Wish), Plain(fs), ~Refused(fs), NEW type, NEW g,
         g = Picked(fs, OfType(fs, type)), OfType(fs, type) # {}
  PROVE  PlainGroup(g)
<1> DEFINE places == OfType(fs, type)
<1>1. /\ g \in Seq(Wish)
      /\ \A k \in DOMAIN g : \E i \in places : g[k] = fs[i]
      /\ \A i : places = {i} => g = <<fs[i]>>
  BY GroupOf
<1>2. \A i \in places : i \in DOMAIN fs /\ fs[i].type = type /\ fs[i] \in Wish
  BY DEF OfType
<1>3. ASSUME NEW i \in places, \A j \in DOMAIN fs \ {i} : fs[j].type # type PROVE Len(g) = 1
  <2>1. places = {i}
    BY <1>2, <1>3 DEF OfType
  <2>2. g = <<fs[i]>>
    BY <1>1, <2>1
  <2>3. QED
    BY <2>2
<1> SUFFICES ASSUME NEW k \in DOMAIN g
             PROVE  LET f == g[k]
                    IN  /\ f.type \in {"string", "title"} =>
                              \/ Len(f.q) <= 1
                              \/ f.context = "include" /\ (f.op = "AND" \/ Len(g) = 1)
                        /\ f.type = "isFront" => f.context = "include"
                        /\ f.type = "regex" => f.context = "include" /\ f.op = "OR" /\ Len(f.q) <= 1
                        /\ f.type = "ocrQuality" => Len(f.q) \in {0, 2}
                        /\ f.type = "collection" => /\ Len(g) = 1 /\ f.context = "include" /\ f.q # <<>>
                                                    /\ Len(f.q) = 1 \/ f.op = "OR"
  BY DEF PlainGroup
<1>4. PICK i \in places : g[k] = fs[i]
  BY <1>1
<1> HIDE DEF places
<1> DEFINE f == fs[i]
<1>5. i \in DOMAIN fs /\ f.type = type /\ Len(f.q) \in Nat
  BY <1>2, WishFacts
<1>6. CASE type \in {"string", "title"}
  <2>1. \/ Len(f.q) <= 1
        \/ f.context = "include" /\ f.op = "AND"
        \/ f.context = "include" /\ \A j \in DOMAIN fs \ {i} : Config[fs[j].type].to = "filter"
    BY <1>5, <1>6 DEF Plain
  <2>2. ASSUME \A j \in DOMAIN fs \ {i} : Config[fs[j].type].to = "filter" PROVE Len(g) = 1
    <3>1. Config[type].to = "query"
      BY <1>6 DEF Config
    <3>2. \A j \in DOMAIN fs \ {i} : fs[j].type # type
      BY <2>2, <3>1
    <3>3. QED
      BY <1>3, <3>2
  <2> HIDE DEF f
  <2>3. QED
    BY <1>4, <1>5, <1>6, <2>1, <2>2 DEF f
<1>7. CASE type = "collection"
  <2>1. /\ \A j \in DOMAIN fs \ {i} : fs[j].type # f.type
        /\ f.context = "include" /\ f.q # <<>> /\ (Len(f.q) = 1 \/ f.op = "OR")
    BY <1>5, <1>7 DEF Plain
  <2>2. Len(g) = 1
    BY <1>3, <1>5, <2>1
  <2>3. QED
    BY <1>4, <1>5, <1>7, <2>1, <2>2
<1>8. CASE type = "isFront"
  BY <1>4, <1>5, <1>8 DEF Plain
<1>9. CASE type = "regex"
  <2>1. f.context = "include" /\ f.op = "OR"
    BY <1>5, <1>9 DEF Plain
  <2>2. Len(f.q) <= 1
    BY <1>5, <1>9 DEF Refused
  <2>3. QED
    BY <1>4, <1>5, <1>9, <2>1, <2>2
<1>10. CASE type = "ocrQuality"
  <2>1. Len(f.q) \in {0, 2}
    BY <1>5, <1>10 DEF Refused
  <2>2. QED
    BY <1>4, <1>5, <1>10, <2>1
<1>11. CASE type \notin {"string", "title", "collection", "isFront", "regex", "ocrQuality"}
  BY <1>4, <1>5, <1>11
<1>12. QED
  BY <1>6, <1>7, <1>8, <1>9, <1>10, <1>11

\* A loose string filter is the only one of the query.
LEMMA LooseAlone ==
  ASSUME NEW fs \in Seq(Wish), Plain(fs), NEW type, NEW g,
         g = Picked(fs, OfType(fs, type)), OfType(fs, type) # {}, Loose(g)
  PROVE  \E i \in DOMAIN fs : \A j \in DOMAIN fs : Config[fs[j].type].to = "query" => j = i
<1>1. g[1].type = type /\ \E i \in OfType(fs, type) : g[1] = fs[i]
  <2>1. Group(g) /\ g[1].type = type /\ \A k \in DOMAIN g : \E i \in OfType(fs, type) : g[k] = fs[i]
    BY GroupOf
  <2>2. 1 \in DOMAIN g
    BY <2>1 DEF Group, IsList
  <2>3. QED
    BY <2>1, <2>2
<1>2. PICK i \in OfType(fs, type) : g[1] = fs[i]
  BY <1>1
<1>3. i \in DOMAIN fs /\ fs[i].type \in {"string", "title"} /\ Len(fs[i].q) > 1 /\ fs[i].op = "OR"
      /\ Len(fs[i].q) \in Nat
  BY <1>1, <1>2, WishFacts DEF OfType, Loose
<1>4. \/ Len(fs[i].q) <= 1
      \/ fs[i].context = "include" /\ fs[i].op = "AND"
      \/ \A j \in DOMAIN fs \ {i} : Config[fs[j].type].to = "filter"
  BY <1>3 DEF Plain
<1>5. \A j \in DOMAIN fs \ {i} : Config[fs[j].type].to = "filter"
  BY <1>3, <1>4
<1>6. QED
  BY <1>3, <1>5

Selected(select, d) ==
  /\ Matches(select.query, d, TRUE)
  /\ \A i \in DOMAIN select.filter : Matches(select.filter[i], d, TRUE)

\* Every group of the filters means what it says, in the query or in the filter list.
GroupsMean(fs, at, d) ==
  LET G == GroupedByType(fs)
      To(k) == Config[fs[at[k]].type].to
      solr(k) == filtersToSolr(G[k])
  IN  \A k \in DOMAIN G :
        /\ Head(G[k]).type = fs[at[k]].type /\ at[k] \in DOMAIN fs
        /\ Means(solr(k), G[k], d)
        /\ AllWanted(G[k], d) <=> \A i \in OfType(fs, fs[at[k]].type) : Wanted(fs[i], d)
        /\ fs[at[k]].type = "string" /\ ~Loose(G[k]) =>
              Sound(solr(k), d) /\ (AllHold(solr(k), d) <=> AllWanted(G[k], d))
        /\ Loose(G[k]) => \E i \in DOMAIN fs : \A j \in DOMAIN fs :
                             Config[fs[j].type].to = "query" => j = i

\* Every group of plain filters means what they say.
LEMMA GroupsMeaning ==
  ASSUME Reads, NEW d, NEW fs \in Seq(Wish), Plain(fs), ~Refused(fs), NEW at, GroupedAt(fs, at)
  PROVE  GroupsMean(fs, at, d)
<1> DEFINE G == GroupedByType(fs)
<1>1. /\ at \in Seq(DOMAIN fs) /\ DOMAIN G = DOMAIN at
      /\ \A k \in DOMAIN G : G[k] = Picked(fs, OfType(fs, fs[at[k]].type))
  BY DEF GroupedAt
<1> HIDE DEF G
<1> SUFFICES ASSUME NEW k \in DOMAIN G
             PROVE  /\ Head(G[k]).type = fs[at[k]].type /\ at[k] \in DOMAIN fs
                    /\ Means(filtersToSolr(G[k]), G[k], d)
                    /\ AllWanted(G[k], d) <=> \A i \in OfType(fs, fs[at[k]].type) : Wanted(fs[i], d)
                    /\ fs[at[k]].type = "string" /\ ~Loose(G[k]) =>
                          /\ Sound(filtersToSolr(G[k]), d)
                          /\ AllHold(filtersToSolr(G[k]), d) <=> AllWanted(G[k], d)
                    /\ Loose(G[k]) => \E i \in DOMAIN fs : \A j \in DOMAIN fs :
                                         Config[fs[j].type].to = "query" => j = i
  BY DEF GroupsMean, G
<1> DEFINE type == fs[at[k]].type
           g == G[k]
<1>2. at[k] \in DOMAIN fs /\ OfType(fs, type) # {} /\ g = Picked(fs, OfType(fs, type))
  BY <1>1 DEF OfType
<1> HIDE DEF type, g
<1>3. /\ g \in Seq(Wish) /\ Group(g) /\ g[1].type = type
      /\ \A j \in DOMAIN g : \E i \in OfType(fs, type) : g[j] = fs[i]
      /\ \A i \in OfType(fs, type) : \E j \in DOMAIN g : g[j] = fs[i]
  BY <1>2, GroupOf
<1>4. PlainGroup(g)
  BY <1>2, GroupPlain
<1>5. Head(g) = g[1]
  BY <1>3 DEF Group
<1>6. /\ Means(filtersToSolr(g), g, d)
      /\ type = "string" /\ ~Loose(g) =>
               Sound(filtersToSolr(g), d) /\ (AllHold(filtersToSolr(g), d) <=> AllWanted(g, d))
  BY <1>3, <1>4, GroupRule
<1>7. AllWanted(g, d) <=> \A i \in OfType(fs, type) : Wanted(fs[i], d)
  BY <1>3 DEF AllWanted
<1>8. Loose(g) => \E i \in DOMAIN fs : \A j \in DOMAIN fs : Config[fs[j].type].to = "query" => j = i
  BY <1>2, LooseAlone
<1>9. QED
  BY <1>2, <1>3, <1>5, <1>6, <1>7, <1>8 DEF g, type

\* What the request selects: the documents that all the filters want.
LEMMA QueryMeaning ==
  ASSUME Reads, NEW d, NEW fs \in Seq(Wish), Plain(fs), ~Refused(fs)
  PROVE  Selected(filtersToQuery(fs), d) <=> \A i \in DOMAIN fs : Wanted(fs[i], d)
<1> DEFINE G == GroupedByType(fs)
<1>1. PICK at : GroupedAt(fs, at)
  BY Grouping
<1>2. /\ at \in Seq(DOMAIN fs) /\ IsList(G) /\ DOMAIN G = DOMAIN at
      /\ \A j, k \in DOMAIN at : at[j] = at[k] => j = k
      /\ \A i \in DOMAIN fs : \E k \in DOMAIN G : fs[at[k]].type = fs[i].type
  BY <1>1 DEF GroupedAt
<1> DEFINE to(k) == Config[fs[at[k]].type].to
           solr(k) == filtersToSolr(G[k])
           sent(part) == {k \in DOMAIN G : Config[Head(G[k]).type].to = part}
           sentTo(part) == Picked(G, sent(part))
           inQuery(g) == IF Config[Head(g).type].wrap THEN wrapAsFilter(filtersToSolr(g))
                                                      ELSE filtersToSolr(g)
           queries == [j \in DOMAIN sentTo("query") |-> inQuery(sentTo("query")[j])]
           filter == [j \in DOMAIN sentTo("filter") |-> filtersToSolr(sentTo("filter")[j])]
           select == filtersToQuery(fs)
<1>3. /\ select.query = IF queries = <<>> THEN Everything ELSE Join("AND", queries)
      /\ select.filter = filter
  BY DEF filtersToQuery, Each
<1>4. GroupsMean(fs, at, d)
  BY <1>1, GroupsMeaning
<1> HIDE DEF G
<1>5. ASSUME NEW k \in DOMAIN G
      PROVE  /\ Head(G[k]).type = fs[at[k]].type /\ fs[at[k]] \in Wish
             /\ Means(solr(k), G[k], d)
             /\ AllWanted(G[k], d) <=> \A i \in OfType(fs, fs[at[k]].type) : Wanted(fs[i], d)
             /\ fs[at[k]].type = "string" /\ ~Loose(G[k]) =>
                   Sound(solr(k), d) /\ (AllHold(solr(k), d) <=> AllWanted(G[k], d))
             /\ Loose(G[k]) => \E i \in DOMAIN fs : \A j \in DOMAIN fs :
                                  Config[fs[j].type].to = "query" => j = i
  BY <1>4 DEF GroupsMean, G
<1>6. ASSUME NEW k \in DOMAIN G
      PROVE  /\ k \in sent("query") \/ k \in sent("filter")
             /\ k \in sent("query") => to(k) = "query"
             /\ k \in sent("query") /\ ~Config[Head(G[k]).type].wrap <=> fs[at[k]].type = "string"
             /\ Config[Head(G[k]).type].wrap \in BOOLEAN
  <2>1. Head(G[k]).type = fs[at[k]].type /\ TypeFacts(fs[at[k]].type)
    BY <1>5, WishFacts, ConfigFacts
  <2>2. QED
    BY <2>1 DEF TypeFacts
<1>7. ASSUME NEW part
      PROVE  /\ IsList(sentTo(part))
             /\ \A j \in DOMAIN sentTo(part) : \E k \in sent(part) : sentTo(part)[j] = G[k]
             /\ \A k \in sent(part) : \E j \in DOMAIN sentTo(part) : sentTo(part)[j] = G[k]
             /\ sent(part) = {} => sentTo(part) = <<>>
             /\ \A k : sent(part) = {k} => sentTo(part) = <<G[k]>>
  <2> DEFINE P == sent(part)
  <2>1. P \in SUBSET (DOMAIN G)
    OBVIOUS
  <2> HIDE DEF P
  <2>2. LET p == Picked(G, P)
        IN  /\ IsList(p)
            /\ \A k \in DOMAIN p : \E i \in P : p[k] = G[i]
            /\ \A i \in P : \E k \in DOMAIN p : p[k] = G[i]
            /\ P = {} => p = <<>>
            /\ \A i : P = {i} => p = <<G[i]>>
    BY <1>2, <2>1, PickedFacts DEF G
  <2>3. QED
    BY <2>2 DEF P
<1> DEFINE AllOf(part) == \A k \in sent(part) : AllWanted(G[k], d)
<1>8. ASSUME NEW part
      PROVE  AllOf(part) <=> \A j \in DOMAIN sentTo(part) : AllWanted(sentTo(part)[j], d)
  <2> HIDE DEF sentTo, sent
  <2> QED BY <1>7
<1>9. (\A i \in DOMAIN filter : Matches(filter[i], d, TRUE)) <=> AllOf("filter")
  <2>1. \A j \in DOMAIN sentTo("filter") :
          Matches(filtersToSolr(sentTo("filter")[j]), d, TRUE) <=> AllWanted(sentTo("filter")[j], d)
    <3>1. \A k \in sent("filter") : Matches(filtersToSolr(G[k]), d, TRUE) <=> AllWanted(G[k], d)
      BY <1>5 DEF Means
    <3> HIDE DEF sentTo, sent
    <3>2. QED
      BY <1>7, <3>1
  <2> HIDE DEF sentTo, sent, AllOf
  <2>2. QED
    BY <1>8, <2>1
<1>10. Matches(select.query, d, TRUE) <=> AllOf("query")
  <2> DEFINE S == sentTo("query")
  <2>1. /\ IsList(S) /\ IsList(queries) /\ DOMAIN queries = DOMAIN S /\ Len(queries) = Len(S)
    <3>1. IsList(S)
      BY <1>7
    <3> HIDE DEF sentTo, inQuery
    <3>2. QED
      BY <3>1 DEF IsList
  <2>2. CASE sent("query") = {}
    <3>1. S = <<>>
      BY <1>7, <2>2
    <3>2. queries = <<>>
      <4> HIDE DEF sentTo, inQuery
      <4> QED BY <3>1
    <3>3. select.query = Everything
      BY <1>3, <3>2
    <3>4. Matches(Everything, d, TRUE)
      BY EverythingSolid, SolidFacts
    <3>5. QED
      BY <2>2, <3>3, <3>4
  <2>3. CASE sent("query") # {}
    <3>1. Len(queries) >= 1 /\ queries # <<>> /\ 1 \in DOMAIN queries
      <4>1. DOMAIN S # {}
        BY <1>7, <2>3
      <4> HIDE DEF sentTo, sent, queries
      <4>2. QED
        BY <2>1, <4>1 DEF IsList
    <3>2. select.query = Join("AND", queries)
      <4> HIDE DEF queries
      <4> QED BY <1>3, <3>1
    <3>3. CASE \E k \in sent("query") : fs[at[k]].type = "string" /\ Loose(G[k])
      <4>1. PICK k \in sent("query") : fs[at[k]].type = "string" /\ Loose(G[k])
        BY <3>3
      <4>2. \A m \in sent("query") : m = k
        <5> TAKE m \in sent("query")
        <5>1. m \in DOMAIN G /\ k \in DOMAIN G /\ to(m) = "query" /\ to(k) = "query"
          BY <1>6
        <5>2. PICK i \in DOMAIN fs : \A j \in DOMAIN fs : Config[fs[j].type].to = "query" => j = i
          BY <1>5, <4>1, <5>1
        <5>3. at[m] \in DOMAIN fs /\ at[k] \in DOMAIN fs
          BY <1>2, <5>1
        <5>4. at[m] = at[k]
          BY <5>1, <5>2, <5>3
        <5>5. QED
          BY <1>2, <5>1, <5>4
      <4>3. sent("query") = {k}
        <5> HIDE DEF sent
        <5> QED BY <4>1, <4>2
      <4>4. S = <<G[k]>>
        <5> HIDE DEF sentTo, sent
        <5> QED BY <1>7, <4>3
      <4>5. k \in DOMAIN G /\ ~Config[Head(G[k]).type].wrap
        BY <1>6, <4>1
      <4>6. inQuery(G[k]) = solr(k)
        BY <4>5
      <4>7. Len(queries) = 1 /\ queries[1] = solr(k) /\ DOMAIN queries = {1}
        <5> HIDE DEF sentTo, inQuery
        <5> QED BY <2>1, <4>4, <4>6
      <4>8. Means(solr(k), G[k], d)
        BY <1>5, <4>5
      <4>9. \A j \in DOMAIN queries : IsText(queries[j])
        <5> HIDE DEF queries
        <5> QED BY <4>7, <4>8 DEF Means, Wrappable
      <4>10. Join("AND", queries) = solr(k)
        <5> HIDE DEF queries
        <5> QED BY <2>1, <4>7, <4>9, JoinFacts
      <4>11. AllOf("query") <=> AllWanted(G[k], d)
        <5> HIDE DEF sent
        <5> QED BY <4>3
      <4>12. QED
        BY <3>2, <4>8, <4>10, <4>11 DEF Means
    <3>4. CASE ~\E k \in sent("query") : fs[at[k]].type = "string" /\ Loose(G[k])
      <4>1. ASSUME NEW k \in sent("query")
            PROVE  Sound(inQuery(G[k]), d) /\ (AllHold(inQuery(G[k]), d) <=> AllWanted(G[k], d))
        <5>1. k \in DOMAIN G
          OBVIOUS
        <5>2. CASE Config[Head(G[k]).type].wrap
          <6>1. inQuery(G[k]) = wrapAsFilter(solr(k)) /\ Means(solr(k), G[k], d)
            BY <1>5, <5>1, <5>2
          <6> HIDE DEF inQuery
          <6>2. QED
            BY <6>1, Wrapped DEF Means
        <5>3. CASE ~Config[Head(G[k]).type].wrap
          <6>1. inQuery(G[k]) = solr(k) /\ fs[at[k]].type = "string"
            BY <1>6, <5>1, <5>3
          <6>2. ~Loose(G[k])
            BY <3>4, <6>1
          <6> HIDE DEF inQuery
          <6>3. QED
            BY <1>5, <5>1, <6>1, <6>2
        <5>4. QED
          BY <5>2, <5>3
      <4>2. \A j \in DOMAIN S : Sound(inQuery(S[j]), d) /\ (AllHold(inQuery(S[j]), d) <=> AllWanted(S[j], d))
        <5> HIDE DEF sentTo, sent, inQuery
        <5> QED BY <1>7, <4>1
      <4>3. \A j \in DOMAIN queries : Sound(queries[j], d) /\ (AllHold(queries[j], d) <=> AllWanted(S[j], d))
        <5> HIDE DEF sentTo, inQuery
        <5> QED BY <4>2
      <4>4. AllOf("query") <=> \A j \in DOMAIN queries : AllHold(queries[j], d)
        <5>1. AllOf("query") <=> \A j \in DOMAIN S : AllWanted(S[j], d)
          BY <1>8
        <5> HIDE DEF S, queries, AllOf
        <5>2. QED
          BY <2>1, <4>3, <5>1
      <4> HIDE DEF queries, AllOf
      <4>5. /\ Sound(Join("AND", queries), d)
            /\ AllHold(Join("AND", queries), d) <=> \A j \in DOMAIN queries : AllHold(queries[j], d)
        BY <2>1, <3>1, <4>3, JoinSound
      <4>6. QED
        BY <3>2, <4>4, <4>5, SoundAtTop
    <3>5. QED
      BY <3>3, <3>4
  <2>4. QED
    BY <2>2, <2>3
<1>11. (AllOf("query") /\ AllOf("filter")) <=> \A i \in DOMAIN fs : Wanted(fs[i], d)
  <2>1. (AllOf("query") /\ AllOf("filter")) <=> \A k \in DOMAIN G : AllWanted(G[k], d)
    BY <1>6
  <2>2. ASSUME NEW k \in DOMAIN G, \A i \in DOMAIN fs : Wanted(fs[i], d) PROVE AllWanted(G[k], d)
    BY <1>5, <2>2 DEF OfType
  <2>3. ASSUME NEW i \in DOMAIN fs, \A k \in DOMAIN G : AllWanted(G[k], d) PROVE Wanted(fs[i], d)
    <3>1. PICK k \in DOMAIN G : fs[at[k]].type = fs[i].type
      BY <1>2 DEF G
    <3>2. i \in OfType(fs, fs[at[k]].type)
      BY <3>1 DEF OfType
    <3>3. QED
      BY <1>5, <2>3, <3>2
  <2> HIDE DEF AllOf
  <2>4. QED
    BY <2>1, <2>2, <2>3
<1> HIDE DEF AllOf, filter, select
<1>12. QED
  BY <1>3, <1>9, <1>10, <1>11 DEF Selected, select

\* For every list of filters, of any types, operators, contexts and values, in any
\* order, that is Plain and not Refused: the query and the filter list that
\* filtersToSolrQuery makes of it select the documents every filter wants.
THEOREM RequestMeaning ==
  ASSUME Reads, NEW d, NEW fs \in Seq(Wish), Plain(fs), ~Refused(fs)
  PROVE  Selected(SolrQuery(fs), d) <=> \A i \in DOMAIN fs : Wanted(fs[i], d)
<1>1. CASE fs = <<>>
  <2>1. SolrQuery(fs) = [query |-> Everything, filter |-> <<>>]
    BY <1>1 DEF SolrQuery
  <2>2. Matches(Everything, d, TRUE)
    BY EverythingSolid, SolidFacts
  <2>3. SolrQuery(fs).query = Everything /\ SolrQuery(fs).filter = <<>>
    BY <2>1
  <2>4. DOMAIN <<>> = {}
    OBVIOUS
  <2>5. Selected(SolrQuery(fs), d)
    BY <2>2, <2>3, <2>4 DEF Selected
  <2>6. DOMAIN fs = {}
    BY <1>1
  <2>7. QED
    BY <2>5, <2>6
<1>2. CASE fs # <<>>
  <2>1. SolrQuery(fs) = filtersToQuery(fs)
    BY <1>2 DEF SolrQuery
  <2>2. QED
    BY <2>1, QueryMeaning
<1>3. QED
  BY <1>1, <1>2

\* What the validation lets through is a sequence of filters as the rules expect them.
LEMMA WishesValid ==
  ASSUME NEW fs \in FilterLists, NEW v \in Terms \cup {0}, \A i \in DOMAIN fs : Valid(fs[i])
  PROVE  termToSolrFilter(Each(fs, validated), v) \in Seq(Wish)
<1> DEFINE E == [i \in DOMAIN fs |-> validated(fs[i])]
<1>1. fs \in Seq(Filters) /\ (v = 0 \/ v \in Values)
  BY FiltersAssumption DEF FiltersAssumption
<1>2. ASSUME NEW f \in Filters, Valid(f) PROVE validated(f) \in Wish
  <2> DEFINE w == validated(f)
  <2>1. /\ f \in [type : STRING, q : Seq(1 .. 5), op : STRING, context : STRING]
        /\ f.type = "daterange" \/ f.q \in Seq(Values)
    BY <1>2 DEF Filters
  <2>2. w = [type |-> f.type, q |-> f.q, op |-> Default(f.op, "OR"),
             context |-> Default(f.context, "include")]
    <3> DEFINE op == Default(f.op, "OR")
               g == [f EXCEPT !.op = op]
    <3>1. w = [g EXCEPT !.context = Default(f.context, "include")]
      BY DEF validated
    <3> HIDE DEF op
    <3>2. g = [type |-> f.type, q |-> f.q, op |-> op, context |-> f.context]
      BY <2>1
    <3> HIDE DEF g, w
    <3>3. QED
      BY <3>1, <3>2 DEF op
  <2>3. /\ f.type \in DOMAIN Config /\ f.q \in Seq(1 .. 5)
        /\ Default(f.op, "OR") \in {"OR", "AND"}
        /\ Default(f.context, "include") \in {"include", "exclude"}
    BY <1>2, <2>1 DEF Valid, Default
  <2> HIDE DEF w
  <2>4. w \in [type : DOMAIN Config, q : Seq(1 .. 5), op : {"OR", "AND"}, context : {"include", "exclude"}]
    BY <2>2, <2>3
  <2>5. w.type = f.type /\ w.q = f.q
    BY <2>2
  <2>6. QED
    BY <2>1, <2>4, <2>5 DEF Wish, w
<1>3. E \in Seq(Wish)
  <2>1. Len(fs) \in Nat /\ DOMAIN fs = 1 .. Len(fs) /\ \A i \in DOMAIN fs : fs[i] \in Filters
    BY <1>1
  <2>2. \A i \in DOMAIN fs : validated(fs[i]) \in Wish
    BY <1>2, <2>1
  <2>3. QED
    BY <2>1, <2>2
<1>4. Each(fs, validated) = E
  BY DEF Each
<1> HIDE DEF E
<1>5. CASE v = 0
  BY <1>3, <1>4, <1>5 DEF termToSolrFilter
<1>6. CASE v \in Values
  <2> DEFINE w == [type |-> "string", q |-> <<v>>, op |-> "OR", context |-> "include"]
  <2>1. v # 0 /\ <<v>> \in Seq(Values) /\ <<v>> \in Seq(1 .. 5)
    BY <1>6 DEF Values
  <2>2. w \in Wish
    <3>1. "string" \in DOMAIN Config
      BY ConfigFacts
    <3>2. QED
      BY <2>1, <3>1 DEF Wish
  <2>3. termToSolrFilter(E, v) = <<w>> \o E
    BY <2>1 DEF termToSolrFilter
  <2> HIDE DEF w
  <2>4. QED
    BY <1>3, <1>4, <2>2, <2>3
<1>7. QED
  BY <1>1, <1>5, <1>6

-----------------------------------------------------------------------------
(* The walk through the pages. *)

\* Solr lists documents of those there are, and none twice.
Ranks ==
  \A docs : /\ Ranking(docs) \in Seq(docs)
            /\ \A i, j \in DOMAIN Ranking(docs) : Ranking(docs)[i] = Ranking(docs)[j] => i = j

All == Found(SolrQuery(Wishes), Documents(Wishes))

Fixed ==
  /\ filters \in FilterLists /\ term \in Terms \cup {0}
  /\ limit \in Limits /\ way \in {"page", "offset"}
  /\ phase \in {"walking", "done", "refused"}

\* A request is for the page after what has been shown.
RequestInv ==
  \/ request = Idle
  \/ /\ phase = "walking"
     /\ request \in [way : {way}, limit : {limit}, at : Nat]
     /\ OffsetOf(request) = Len(shown)

\* What has been shown is the start of what is found, in whole pages.
ShownInv ==
  /\ shown \in Seq(Documents(Wishes))
  /\ shown # <<>> => Len(shown) <= Len(All) /\ \A i \in DOMAIN shown : shown[i] = All[i]
  /\ phase = "walking" => \E n \in Nat : Len(shown) = n * Clamped(limit)
  /\ phase = "done" => Len(shown) = Len(All)

IInv == Fixed /\ RequestInv /\ ShownInv

-----------------------------------------------------------------------------

\* A clamped limit is a size of a page.
LEMMA Limit ==
  ASSUME NEW n \in Limits
  PROVE  Clamped(n) \in Nat \ {0}
<1>1. MaxLimit \in Nat \ {0} /\ DefaultLimit \in Nat \ {0} /\ n \in Int \ {0}
  BY LimitsAssumption DEF LimitsAssumption
<1>2. QED
  BY <1>1 DEF Clamped, Least

\* Whole pages, counted.
LEMMA Division ==
  ASSUME NEW n \in Nat, NEW size \in Nat \ {0}
  PROVE  n * size \in Nat /\ (n * size) \div size = n /\ (n * size) % size = 0
OBVIOUS

\* What is found is a list of documents, none twice.
LEMMA FoundListed ==
  ASSUME Ranks
  PROVE  /\ All \in Seq(Documents(Wishes))
         /\ \A i, j \in DOMAIN All : All[i] = All[j] => i = j
<1> DEFINE matching == {d \in Documents(Wishes) :
                 /\ Matches(SolrQuery(Wishes).query, d, TRUE)
                 /\ \A i \in DOMAIN SolrQuery(Wishes).filter :
                       Matches(SolrQuery(Wishes).filter[i], d, TRUE)}
<1>1. All = Ranking(matching)
  BY DEF All, Found
<1>2. matching \subseteq Documents(Wishes)
  OBVIOUS
<1> HIDE DEF matching
<1>3. /\ Ranking(matching) \in Seq(matching)
      /\ \A i, j \in DOMAIN Ranking(matching) : Ranking(matching)[i] = Ranking(matching)[j] => i = j
  BY DEF Ranks
<1>4. Ranking(matching) \in Seq(Documents(Wishes))
  BY <1>2, <1>3
<1>5. QED
  BY <1>1, <1>3, <1>4

\* The next part of a list, added to its start.
LEMMA NextPage ==
  ASSUME NEW S, NEW list \in Seq(S), NEW start \in Seq(S), NEW size \in Nat \ {0},
         Len(start) <= Len(list), \A i \in DOMAIN start : start[i] = list[i]
  PROVE  LET to == Least(Len(start) + size, Len(list))
             new == start \o SubSeq(list, Len(start) + 1, to)
         IN  /\ new \in Seq(S) /\ Len(new) = to
             /\ \A i \in DOMAIN new : new[i] = list[i]
<1> DEFINE to == Least(Len(start) + size, Len(list))
           rest == SubSeq(list, Len(start) + 1, to)
           new == start \o rest
<1>1. to \in Nat /\ Len(start) <= to /\ to <= Len(list) /\ Len(start) \in Nat /\ Len(list) \in Nat
  BY DEF Least
<1> HIDE DEF to
<1>2. /\ rest \in Seq(S) /\ Len(rest) = to - Len(start)
      /\ \A i \in 1..(to - Len(start)) : rest[i] = list[Len(start) + i]
  BY <1>1
<1> HIDE DEF rest
<1>3. new \in Seq(S) /\ Len(new) = to
  BY <1>1, <1>2
<1>4. ASSUME NEW i \in DOMAIN new PROVE new[i] = list[i]
  <2>1. i \in 1..to
    BY <1>3
  <2>2. CASE i <= Len(start)
    BY <1>1, <2>1, <2>2
  <2>3. CASE i > Len(start)
    <3>1. new[i] = rest[i - Len(start)] /\ i - Len(start) \in 1..(to - Len(start))
      BY <1>1, <1>2, <2>1, <2>3
    <3>2. QED
      BY <1>1, <1>2, <2>1, <3>1
  <2>4. QED
    BY <1>1, <2>1, <2>2, <2>3
<1>5. QED
  BY <1>3, <1>4 DEF to, rest

-----------------------------------------------------------------------------

\* At the start.
LEMMA InitInv == Init => IInv
<1> SUFFICES ASSUME Init PROVE IInv
  OBVIOUS
<1>1. Fixed /\ RequestInv
  BY DEF Init, Fixed, RequestInv
<1>2. \E n \in Nat : Len(shown) = n * Clamped(limit)
  <2>1. Clamped(limit) \in Nat \ {0} /\ Len(shown) = 0 /\ 0 \in Nat
    BY Limit DEF Init
  <2>2. Len(shown) = 0 * Clamped(limit)
    BY <2>1
  <2>3. QED
    BY <2>1, <2>2
<1>3. ShownInv
  BY <1>2 DEF Init, ShownInv
<1>4. QED
  BY <1>1, <1>3 DEF IInv

\* Nothing that is found changes while the filters and the term do not.
LEMMA SameAll ==
  ASSUME filters' = filters, term' = term
  PROVE  Wishes' = Wishes /\ All' = All /\ Documents(Wishes)' = Documents(Wishes)
<1>1. Wishes' = Wishes
  BY DEF Wishes
<1>2. QED
  BY <1>1 DEF All

\* The client asks for the page after what it has, by number or by count.
LEMMA AskInv ==
  ASSUME IInv, Ask
  PROVE  IInv'
<1>1. /\ phase = "walking" /\ UNCHANGED <<filters, term, limit, way, shown, phase>>
      /\ request' = [way |-> way, limit |-> limit,
                     at |-> IF way = "page" THEN Len(shown) \div Clamped(limit) + 1
                                            ELSE Len(shown)]
  BY DEF Ask
<1>2. Fixed' /\ limit \in Limits /\ way \in {"page", "offset"}
  BY <1>1 DEF IInv, Fixed
<1>3. ShownInv'
  BY <1>1, SameAll DEF IInv, ShownInv
<1>4. Clamped(limit) \in Nat \ {0}
  BY <1>2, Limit
<1>5. PICK n \in Nat : Len(shown) = n * Clamped(limit)
  BY <1>1 DEF IInv, ShownInv
<1>6. Len(shown) \in Nat /\ Len(shown) \div Clamped(limit) = n
  BY <1>4, <1>5, Division
<1>7. request'.way = way /\ request'.limit = limit
  BY <1>1
<1>8. request'.at \in Nat /\ OffsetOf(request') = Len(shown)
  <2>1. CASE way = "page"
    <3>1. request'.at = n + 1
      BY <1>1, <1>6, <2>1
    <3>2. OffsetOf(request') = n * Clamped(limit)
      BY <1>7, <2>1, <3>1 DEF OffsetOf
    <3>3. QED
      BY <1>5, <3>1, <3>2
  <2>2. CASE way # "page"
    BY <1>1, <1>6, <1>7, <2>2 DEF OffsetOf
  <2>3. QED
    BY <2>1, <2>2
<1>9. request' \in [way : {way}, limit : {limit}, at : Nat]
  BY <1>1, <1>8
<1>10. RequestInv'
  BY <1>1, <1>8, <1>9 DEF RequestInv, OffsetOf
<1>11. QED
  BY <1>2, <1>3, <1>10 DEF IInv

\* The page that is found follows what has been shown, and is a whole one
\* unless it is the last.
LEMMA FindInv ==
  ASSUME Ranks, IInv, Find
  PROVE  IInv'
<1> DEFINE docs == Documents(Wishes)
           solr == SolrRequest(Wishes, request)
           size == Clamped(limit)
<1>1. /\ request # Idle /\ request' = Idle
      /\ UNCHANGED <<filters, term, limit, way>>
      /\ IF Rejected THEN phase' = "refused" /\ UNCHANGED shown
         ELSE /\ shown' = shown \o Window(Found(solr.select, docs), solr)
              /\ phase' = IF solr.offset + solr.limit >= Len(Found(solr.select, docs))
                             THEN "done" ELSE phase
  BY DEF Find, Answered
<1>2. Found(solr.select, docs) = All
  BY DEF SolrRequest, All
<1>3. /\ phase = "walking" /\ request \in [way : {way}, limit : {limit}, at : Nat]
      /\ OffsetOf(request) = Len(shown) /\ size \in Nat \ {0}
  BY <1>1, Limit DEF IInv, RequestInv, Fixed
<1>4. solr.limit = size /\ solr.offset = Len(shown)
  BY <1>3 DEF SolrRequest
<1>5. Wishes' = Wishes /\ All' = All /\ Documents(Wishes)' = docs /\ Clamped(limit)' = size
  BY <1>1, SameAll
<1>6. All \in Seq(docs) /\ shown \in Seq(docs)
  BY FoundListed DEF IInv, ShownInv
<1>7. Len(shown) \in Nat /\ Len(All) \in Nat
  BY <1>6
<1>8. Len(shown) <= Len(All) /\ \A i \in DOMAIN shown : shown[i] = All[i]
  BY <1>6, <1>7 DEF IInv, ShownInv
<1> HIDE DEF docs, solr, size
<1>9. Fixed' /\ RequestInv'
  BY <1>1, <1>3 DEF IInv, Fixed, RequestInv
<1>10. CASE Rejected
  <2>1. shown' = shown /\ phase' = "refused"
    BY <1>1, <1>10
  <2>2. ShownInv'
    BY <1>5, <1>6, <1>8, <2>1 DEF ShownInv
  <2>3. QED
    BY <1>9, <2>2 DEF IInv
<1>11. CASE ~Rejected
  <2> DEFINE to == Least(Len(shown) + size, Len(All))
  <2>1. /\ shown' = shown \o SubSeq(All, Len(shown) + 1, to)
        /\ phase' = IF Len(shown) + size >= Len(All) THEN "done" ELSE phase
    BY <1>1, <1>2, <1>4, <1>11 DEF Window
  <2>2. /\ shown' \in Seq(docs) /\ Len(shown') = to
        /\ \A i \in DOMAIN shown' : shown'[i] = All[i]
    <3> DEFINE new == shown \o SubSeq(All, Len(shown) + 1, to)
    <3>1. size \in Nat \ {0}
      BY <1>3
    <3>2. new \in Seq(docs) /\ Len(new) = to /\ \A i \in DOMAIN new : new[i] = All[i]
      BY <1>6, <1>8, <3>1, NextPage
    <3> HIDE DEF new, to
    <3>3. shown' = new
      BY <2>1 DEF new
    <3>4. QED
      BY <3>2, <3>3
  <2>3. to \in Nat /\ to <= Len(All)
    BY <1>3, <1>7 DEF Least
  <2>4. CASE Len(shown) + size >= Len(All)
    <3>1. to = Len(All) /\ phase' = "done"
      BY <1>3, <1>7, <2>1, <2>4 DEF Least
    <3>2. ShownInv'
      BY <1>5, <2>2, <2>3, <3>1 DEF ShownInv
    <3>3. QED
      BY <1>9, <3>2 DEF IInv
  <2>5. CASE Len(shown) + size < Len(All)
    <3>1. to = Len(shown) + size /\ phase' = "walking"
      BY <1>3, <1>7, <2>1, <2>5 DEF Least
    <3>2. PICK n \in Nat : Len(shown) = n * size
      BY <1>3 DEF IInv, ShownInv, size
    <3>3. Len(shown') = (n + 1) * size /\ n + 1 \in Nat
      BY <1>3, <2>2, <3>1, <3>2
    <3>4. \E m \in Nat : Len(shown') = m * size
      BY <3>3
    <3>5. ShownInv'
      BY <1>5, <2>2, <2>3, <3>1, <3>4 DEF ShownInv
    <3>6. QED
      BY <1>9, <3>5 DEF IInv
  <2>6. QED
    BY <1>3, <1>7, <2>4, <2>5
<1>12. QED
  BY <1>10, <1>11

\* When nothing happens.
LEMMA StutterInv == IInv /\ UNCHANGED vars => IInv'
<1> SUFFICES ASSUME IInv, UNCHANGED vars PROVE IInv'
  OBVIOUS
<1>1. UNCHANGED <<filters, term, limit, way, request, shown, phase>>
  BY DEF vars
<1>2. Fixed' /\ RequestInv'
  BY <1>1 DEF IInv, Fixed, RequestInv
<1>3. ShownInv'
  BY <1>1, SameAll DEF IInv, ShownInv
<1>4. QED
  BY <1>2, <1>3 DEF IInv

\* The invariant is all that WalkInOrder asks for.
LEMMA InOrder == ASSUME Ranks, IInv PROVE WalkInOrder
<1> DEFINE docs == Documents(Wishes)
<1>1. All \in Seq(docs) /\ \A i, j \in DOMAIN All : All[i] = All[j] => i = j
  BY FoundListed
<1>2. shown \in Seq(docs) /\ Len(shown) \in Nat /\ Len(All) \in Nat
  BY <1>1 DEF IInv, ShownInv
<1>3. Len(shown) <= Len(All) /\ \A i \in DOMAIN shown : shown[i] = All[i]
  BY <1>1, <1>2 DEF IInv, ShownInv
<1>4. TypeOK
  <2>1. request # Idle => request.at \in Nat /\ request.limit = limit /\ request.way = way
    BY DEF IInv, RequestInv
  <2>2. QED
    BY <2>1 DEF IInv, Fixed, TypeOK
<1> HIDE DEF docs
<1>5. shown = SubSeq(All, 1, Len(shown))
  <2>1. /\ SubSeq(All, 1, Len(shown)) \in Seq(docs)
        /\ Len(SubSeq(All, 1, Len(shown))) = Len(shown)
        /\ \A i \in 1..Len(shown) : SubSeq(All, 1, Len(shown))[i] = All[i]
    BY <1>1, <1>2, <1>3
  <2>2. QED
    BY <1>2, <1>3, <2>1
<1>6. \A j \in DOMAIN shown : \A i \in 1 .. j - 1 : shown[i] # shown[j]
  <2>1. ASSUME NEW j \in DOMAIN shown, NEW i \in 1 .. j - 1, shown[i] = shown[j]
        PROVE  FALSE
    <3>1. i \in DOMAIN shown /\ i # j /\ DOMAIN shown \subseteq DOMAIN All
      BY <1>1, <1>2, <1>3
    <3>2. All[i] = All[j]
      BY <1>3, <2>1, <3>1
    <3>3. QED
      BY <1>1, <3>1, <3>2
  <2>2. QED
    BY <2>1
<1>7. phase = "walking" => Len(shown) % Clamped(limit) = 0
  BY Limit, Division DEF IInv, Fixed, ShownInv
<1>8. phase = "done" => Len(shown) = Len(All)
  BY DEF IInv, ShownInv
<1>9. QED
  BY <1>4, <1>5, <1>6, <1>7, <1>8 DEF WalkInOrder, HasStartOf, All

-----------------------------------------------------------------------------

\* A walk keeps the invariant.
LEMMA Walk == ASSUME Ranks PROVE Spec => []IInv
<1>1. IInv /\ [Next]_vars => IInv'
  BY AskInv, FindInv, StutterInv DEF Next
<1>2. QED
  BY InitInv, <1>1, PTL DEF Spec

\* Whatever Solr finds and however it ranks it, a client that walks by pages or
\* by offsets is shown it in order, each document once, and all of it by the
\* end: the clamping of the limit in queryWithCommonParams never makes the pages
\* overlap or leave gaps.
THEOREM InOrderWalk == Ranks => (Spec => []WalkInOrder)
<1> SUFFICES ASSUME Ranks PROVE Spec => []WalkInOrder
  OBVIOUS
<1>1. Spec => []IInv
  BY Walk
<1>2. IInv => WalkInOrder
  BY InOrder
<1>3. QED
  BY <1>1, <1>2, PTL

-----------------------------------------------------------------------------
\* Whatever it is asked to list, Solr lists all of it.
RanksAll ==
  \A fs \in Seq(Wish) : \A docs \in SUBSET Documents(fs) :
    \A d \in docs : \E i \in DOMAIN Ranking(docs) : Ranking(docs)[i] = d

\* Nothing is shown of a request that is refused.
Accepted == (shown # <<>> \/ phase = "done") => ~Rejected

\* A request is refused or accepted with every page, always in the same way.
LEMMA AcceptedInv == Spec => []Accepted
<1>1. Init => Accepted
  BY DEF Init, Accepted
<1>2. Accepted /\ [Next]_vars => Accepted'
  <2> SUFFICES ASSUME Accepted, [Next]_vars PROVE Accepted'
    OBVIOUS
  <2>1. filters' = filters /\ term' = term
    BY DEF Next, Ask, Find, vars
  <2>2. Rejected' <=> Rejected
    BY <2>1, SameAll DEF Rejected
  <2>3. CASE Find
    <3>1. Rejected => shown' = shown /\ phase' = "refused"
      BY <2>3 DEF Find
    <3>2. QED
      BY <2>2, <3>1 DEF Accepted
  <2>4. CASE ~Find
    <3>1. shown' = shown /\ phase' = phase
      BY <2>4 DEF Next, Ask, vars
    <3>2. QED
      BY <2>2, <3>1 DEF Accepted
  <2>5. QED
    BY <2>3, <2>4
<1>3. QED
  BY <1>1, <1>2, PTL DEF Spec

\* What is found of an accepted request is what all the filters want.
LEMMA FoundWanted ==
  ASSUME Reads, Ranks, Fixed, ~Rejected, Plain(Wishes)
  PROVE  /\ \A i \in DOMAIN All : Good(All[i])
         /\ RanksAll => \A d \in Documents(Wishes) : Good(d) => \E i \in DOMAIN All : All[i] = d
<1>1. Wishes \in Seq(Wish)
  BY WishesValid DEF Fixed, Rejected, Wishes
<1> DEFINE docs == Documents(Wishes)
           select == SolrQuery(Wishes)
           found == {d \in docs : Selected(select, d)}
<1>2. All = Ranking(found)
  BY DEF All, Found, Selected
<1>3. ASSUME NEW d PROVE Selected(select, d) <=> Good(d)
  BY <1>1, RequestMeaning DEF Rejected, Good
<1>4. \A d : d \in found <=> d \in docs /\ Good(d)
  BY <1>3
<1>5. found \in SUBSET docs
  OBVIOUS
<1> HIDE DEF found
<1>6. \A i \in DOMAIN All : All[i] \in found
  <2>1. Ranking(found) \in Seq(found)
    BY DEF Ranks
  <2>2. QED
    BY <1>2, <2>1
<1>7. RanksAll => \A d \in found : \E i \in DOMAIN All : All[i] = d
  BY <1>1, <1>2, <1>5 DEF RanksAll
<1>8. QED
  BY <1>4, <1>6, <1>7

\* Nothing unwanted is shown, for every number of filters, in any order and of
\* any types, that keep their words: the groups by type, the parentheses, the
\* NOTs and filter(...) that filterReducers.ts puts together mean all of them.
THEOREM Unwanted == Reads /\ Ranks => (Spec => []NothingUnwanted)
<1> SUFFICES ASSUME Reads, Ranks PROVE Spec => []NothingUnwanted
  OBVIOUS
<1>1. Spec => []IInv
  BY Walk
<1>2. IInv /\ Accepted => NothingUnwanted
  <2> SUFFICES ASSUME IInv, Accepted, Plain(Wishes), NEW i \in DOMAIN shown PROVE Good(shown[i])
    BY DEF NothingUnwanted
  <2>1. shown # <<>>
    OBVIOUS
  <2>2. All \in Seq(Documents(Wishes)) /\ shown \in Seq(Documents(Wishes))
    BY FoundListed DEF IInv, ShownInv
  <2>3. Len(shown) <= Len(All) /\ shown[i] = All[i]
    BY <2>1 DEF IInv, ShownInv
  <2>4. i \in DOMAIN All
    BY <2>2, <2>3
  <2>5. \A j \in DOMAIN All : Good(All[j])
    BY <2>1, FoundWanted DEF IInv, Accepted
  <2>6. QED
    BY <2>3, <2>4, <2>5
<1>3. QED
  BY <1>1, AcceptedInv, <1>2, PTL

\* A walk that came to its end has shown every document that all the filters
\* want, by pages or by offsets and whatever limit was asked for: no filter, and
\* no page of queryWithCommonParams, leaves out more than the filters say.
THEOREM Missed == Reads /\ Ranks /\ RanksAll => (Spec => []NothingMissed)
<1> SUFFICES ASSUME Reads, Ranks, RanksAll PROVE Spec => []NothingMissed
  OBVIOUS
<1>1. Spec => []IInv
  BY Walk
<1>2. IInv /\ Accepted => NothingMissed
  <2> SUFFICES ASSUME IInv, Accepted, phase = "done", Plain(Wishes),
                      NEW d \in Documents(Wishes), Good(d)
               PROVE  \E i \in DOMAIN shown : shown[i] = d
    BY DEF NothingMissed
  <2>1. All \in Seq(Documents(Wishes)) /\ shown \in Seq(Documents(Wishes))
    BY FoundListed DEF IInv, ShownInv
  <2>2. PICK i \in DOMAIN All : All[i] = d
    BY FoundWanted DEF IInv, Accepted
  <2>3. Len(shown) = Len(All)
    BY DEF IInv, ShownInv
  <2>4. i \in DOMAIN shown /\ shown # <<>>
    BY <2>1, <2>2, <2>3
  <2>5. shown[i] = All[i]
    BY <2>4 DEF IInv, ShownInv
  <2>6. QED
    BY <2>2, <2>4, <2>5
<1>3. QED
  BY <1>1, AcceptedInv, <1>2, PTL
=============================================================================
