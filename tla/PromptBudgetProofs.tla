------------------------- MODULE PromptBudgetProofs -------------------------
(***************************************************************************)
(* What the loops of PromptBudget compute, for texts of any size and in    *)
(* any number, and with it the three properties of the prompt.             *)
(*                                                                         *)
(* The loops are recursive functions.  That such a function has the values *)
(* its equation says, and what they are, follows by taking the least       *)
(* number of steps for which it would be false.                            *)
(***************************************************************************)
EXTENDS PromptBudget, SequenceTheorems, FiniteSetTheorems, NaturalsInduction,
        WellFoundedInduction, TLAPS

LEMMA LeastNumber ==
  ASSUME NEW S \in SUBSET Nat, S # {}
  PROVE  \E m \in S : \A k \in S : m <= k
<1> DEFINE R == OpToRel(<, Nat)
<1>1. IsWellFoundedOn(R, Nat)
  BY NatLessThanWellFounded
<1> HIDE DEF R
<1>2. PICK m \in S : \A k \in S : <<k, m>> \notin R
  BY <1>1, WFMin
<1>3. \A k, n \in Nat : <<k, n>> \in R <=> k < n
  BY DEF R, OpToRel
<1>4. \A k \in S : k \in Nat /\ m \in Nat
  OBVIOUS
<1>5. \A k \in S : ~(k < m)
  BY <1>2, <1>3, <1>4, Zenon
<1>6. \A k \in S : m <= k
  BY <1>4, <1>5
<1> QED
  BY <1>6

(* Induction over the steps of a loop: the numbers of steps it holds for.  *)
LEMMA EveryStep ==
  ASSUME NEW last \in Nat, NEW Good, 0 \in Good,
         \A n \in 1..last : n - 1 \in Good => n \in Good
  PROVE  \A n \in 0..last : n \in Good
<1> DEFINE Bad == {n \in 0..last : n \notin Good}
<1> SUFFICES ASSUME Bad # {} PROVE FALSE
  OBVIOUS
<1>1. PICK m \in Bad : \A n \in Bad : m <= n
  <2>1. Bad \in SUBSET Nat
    OBVIOUS
  <2> HIDE DEF Bad
  <2> QED
    BY <2>1, LeastNumber
<1>2. m \in 1..last
  OBVIOUS
<1>3. m - 1 \in 0..last /\ m - 1 \notin Bad
  BY <1>1, <1>2
<1> QED
  BY <1>2, <1>3

(* What a loop has after n of its steps.                                   *)
Iterates(f, last, first, step) ==
  f = [n \in 0..last |-> IF n = 0 THEN first ELSE step[n][f[n - 1]]]

(* A loop with values in S has values, step by step.                       *)
LEMMA LoopHasValues ==
  ASSUME NEW S, NEW last \in Nat, NEW first \in S, NEW step \in [1..last -> [S -> S]]
  PROVE  \E f \in [0..last -> S] : Iterates(f, last, first, step)
<1> DEFINE Good == {k \in 0..last : \E f \in [0..k -> S] : Iterates(f, k, first, step)}
<1>1. 0 \in Good
  <2> DEFINE f == [n \in 0..0 |-> first]
  <2>1. f \in [0..0 -> S] /\ Iterates(f, 0, first, step)
    BY DEF Iterates
  <2> HIDE DEF f
  <2> QED
    BY <2>1
<1>2. ASSUME NEW k \in 1..last, k - 1 \in Good
      PROVE  k \in Good
  <2>1. PICK f \in [0..(k - 1) -> S] : Iterates(f, k - 1, first, step)
    BY <1>2
  <2> DEFINE g == [n \in 0..k |-> IF n = k THEN step[k][f[k - 1]] ELSE f[n]]
  <2>2. step[k][f[k - 1]] \in S
    BY <2>1
  <2>3. g \in [0..k -> S]
    BY <2>1, <2>2
  <2>4. \A n \in 0..(k - 1) : g[n] = f[n]
    OBVIOUS
  <2>5. g[k] = step[k][g[k - 1]]
    BY <2>4
  <2>6. \A n \in 0..k : g[n] = IF n = 0 THEN first ELSE step[n][g[n - 1]]
    <3> SUFFICES ASSUME NEW n \in 0..k
                 PROVE  g[n] = IF n = 0 THEN first ELSE step[n][g[n - 1]]
      OBVIOUS
    <3>1. CASE n = k
      BY <2>5, <3>1
    <3>2. CASE n # k
      <4>1. n \in 0..(k - 1)
        BY <3>2
      <4>2. f[n] = IF n = 0 THEN first ELSE step[n][f[n - 1]]
        BY <2>1, <4>1 DEF Iterates
      <4>3. n # 0 => g[n - 1] = f[n - 1]
        BY <2>4, <4>1
      <4> HIDE DEF g
      <4> QED
        BY <2>4, <4>1, <4>2, <4>3
    <3> QED
      BY <3>1, <3>2
  <2> HIDE DEF g
  <2>7. Iterates(g, k, first, step)
    BY <2>3, <2>6 DEF Iterates
  <2> QED
    BY <2>3, <2>7
<1> HIDE DEF Good
<1>3. \A n \in 0..last : n \in Good
  <2>1. \A n \in 1..last : n - 1 \in Good => n \in Good
    BY <1>2
  <2> QED
    BY <1>1, <2>1, EveryStep
<1>4. last \in Good
  BY <1>3
<1> QED
  BY <1>4 DEF Good

-----------------------------------------------------------------------------
(* What a list of texts costs.                                             *)

CostStep(sum, texts) ==
  [n \in 0..Len(texts) |-> IF n = 0 THEN 0 ELSE sum[n - 1] + texts[n].size]

LEMMA CostLoop ==
  ASSUME NEW R, \A r \in R : r.size \in Nat, NEW texts \in Seq(R)
  PROVE  \E sum \in [0..Len(texts) -> Nat] :
           /\ sum[0] = 0
           /\ \A n \in 1..Len(texts) : sum[n] = sum[n - 1] + texts[n].size
           /\ Cost(texts) = sum[Len(texts)]
<1> DEFINE last == Len(texts)
           step == [n \in 1..last |-> [sum \in Nat |-> sum + texts[n].size]]
           loop == CHOOSE sum : sum = CostStep(sum, texts)
<1>1. last \in Nat /\ \A n \in 1..last : texts[n].size \in Nat
  OBVIOUS
<1>2. \E sum : sum = CostStep(sum, texts)
  <2>1. step \in [1..last -> [Nat -> Nat]]
    BY <1>1
  <2>2. \A n \in 1..last, k \in Nat : step[n][k] = k + texts[n].size
    OBVIOUS
  <2> HIDE DEF step, last
  <2>3. PICK f \in [0..last -> Nat] : Iterates(f, last, 0, step)
    BY <1>1, <2>1, LoopHasValues
  <2>4. \A n \in 0..last :
          f[n] = IF n = 0 THEN 0 ELSE step[n][f[n - 1]]
    BY <2>3 DEF Iterates
  <2>5. \A n \in 0..last : f[n] = IF n = 0 THEN 0 ELSE f[n - 1] + texts[n].size
    <3> SUFFICES ASSUME NEW n \in 0..last
                 PROVE  f[n] = IF n = 0 THEN 0 ELSE f[n - 1] + texts[n].size
      OBVIOUS
    <3>1. CASE n = 0
      BY <2>4, <3>1
    <3>2. CASE n # 0
      <4>1. n \in 1..last /\ f[n - 1] \in Nat
        BY <1>1, <2>3, <3>2
      <4> QED
        BY <2>2, <2>4, <4>1
    <3> QED
      BY <3>1, <3>2
  <2>6. f = CostStep(f, texts)
    BY <2>3, <2>5 DEF CostStep, last
  <2> QED
    BY <2>6
<1> HIDE DEF step
<1>3. loop = CostStep(loop, texts)
  BY <1>2
<1>4. Cost(texts) = loop[last]
  BY DEF Cost, CostStep
<1> HIDE DEF loop, last
<1>5. /\ DOMAIN loop = 0..last /\ loop[0] = 0
      /\ \A n \in 1..last : loop[n] = loop[n - 1] + texts[n].size
  BY <1>1, <1>3 DEF CostStep, last
<1>6. \A n \in 0..last : loop[n] \in Nat
  <2> DEFINE Good == {n \in 0..last : loop[n] \in Nat}
  <2>1. 0 \in Good
    BY <1>1, <1>5
  <2>2. ASSUME NEW n \in 1..last, n - 1 \in Good
        PROVE  n \in Good
    <3>1. loop[n - 1] \in Nat /\ texts[n].size \in Nat /\ n \in 0..last
      BY <1>1, <2>2
    <3>2. loop[n] = loop[n - 1] + texts[n].size
      BY <1>5
    <3> QED
      BY <3>1, <3>2
  <2> HIDE DEF Good
  <2>3. \A n \in 0..last : n \in Good
    BY <1>1, <2>1, <2>2, EveryStep
  <2> QED
    BY <2>3 DEF Good
<1>7. loop \in [0..last -> Nat]
  BY <1>3, <1>6 DEF CostStep, last
<1> QED
  BY <1>4, <1>5, <1>7 DEF last

(* Two sums that grow by the same amounts stay as far apart as they began. *)
LEMMA SameGrowth ==
  ASSUME NEW last \in Nat, NEW f \in [0..last -> Nat], NEW g \in [0..last -> Nat],
         NEW d \in Nat, f[0] = d + g[0],
         \A n \in 1..last : \E k \in Nat : f[n] = f[n - 1] + k /\ g[n] = g[n - 1] + k
  PROVE  f[last] = d + g[last]
<1> DEFINE Good == {n \in 0..last : f[n] = d + g[n]}
<1>1. 0 \in Good
  OBVIOUS
<1>2. ASSUME NEW n \in 1..last, n - 1 \in Good
      PROVE  n \in Good
  <2>1. PICK k \in Nat : f[n] = f[n - 1] + k /\ g[n] = g[n - 1] + k
    OBVIOUS
  <2>2. n - 1 \in 0..last /\ g[n - 1] \in Nat /\ f[n - 1] = d + g[n - 1]
    BY <1>2
  <2> QED
    BY <2>1, <2>2
<1> HIDE DEF Good
<1>3. \A n \in 1..last : n - 1 \in Good => n \in Good
  BY <1>2
<1>4. \A n \in 0..last : n \in Good
  BY <1>1, <1>3, EveryStep
<1> QED
  BY <1>4 DEF Good

LEMMA CostIsNumber ==
  ASSUME NEW R, \A r \in R : r.size \in Nat, NEW texts \in Seq(R)
  PROVE  Cost(texts) \in Nat /\ (texts = << >> => Cost(texts) = 0)
BY CostLoop

LEMMA CostOfAppend ==
  ASSUME NEW R, \A r \in R : r.size \in Nat, NEW texts \in Seq(R), NEW text \in R
  PROVE  Cost(Append(texts, text)) = Cost(texts) + text.size
<1> DEFINE more == Append(texts, text)
           last == Len(texts)
<1>1. /\ more \in Seq(R) /\ last \in Nat /\ Len(more) = last + 1
      /\ more[last + 1] = text
      /\ \A n \in 1..last : more[n] = texts[n] /\ texts[n].size \in Nat
  OBVIOUS
<1> HIDE DEF more
<1>2. PICK f \in [0..(last + 1) -> Nat] :
        /\ f[0] = 0 /\ \A n \in 1..(last + 1) : f[n] = f[n - 1] + more[n].size
        /\ Cost(more) = f[last + 1]
  BY <1>1, CostLoop
<1>3. PICK g \in [0..last -> Nat] :
        /\ g[0] = 0 /\ \A n \in 1..last : g[n] = g[n - 1] + texts[n].size
        /\ Cost(texts) = g[last]
  BY CostLoop
<1> DEFINE h == [n \in 0..last |-> f[n]]
<1>4. h \in [0..last -> Nat] /\ h[last] = f[last]
  BY <1>1, <1>2
<1> PICK zero \in Nat : zero = 0
  OBVIOUS
<1>5. h[0] = zero + g[0]
  BY <1>1, <1>2, <1>3
<1>6. \A n \in 1..last : h[n] = h[n - 1] + texts[n].size /\ g[n] = g[n - 1] + texts[n].size
  BY <1>1, <1>2, <1>3
<1> HIDE DEF h, last
<1>7. h[last] = zero + g[last]
  BY <1>1, <1>3, <1>4, <1>5, <1>6, SameGrowth
<1>8. f[last + 1] = f[last] + text.size
  BY <1>1, <1>2
<1> QED
  BY <1>1, <1>2, <1>3, <1>4, <1>7, <1>8 DEF more

LEMMA CostOfPrepend ==
  ASSUME NEW R, \A r \in R : r.size \in Nat, NEW texts \in Seq(R), NEW text \in R
  PROVE  Cost(<<text>> \o texts) = text.size + Cost(texts)
<1> DEFINE more == <<text>> \o texts
           last == Len(texts)
<1>1. /\ more \in Seq(R) /\ last \in Nat /\ Len(more) = last + 1
      /\ more[1] = text
      /\ \A n \in 1..last : more[n + 1] = texts[n] /\ texts[n].size \in Nat
      /\ text.size \in Nat
  OBVIOUS
<1> HIDE DEF more
<1>2. PICK f \in [0..(last + 1) -> Nat] :
        /\ f[0] = 0 /\ \A n \in 1..(last + 1) : f[n] = f[n - 1] + more[n].size
        /\ Cost(more) = f[last + 1]
  BY <1>1, CostLoop
<1>3. PICK g \in [0..last -> Nat] :
        /\ g[0] = 0 /\ \A n \in 1..last : g[n] = g[n - 1] + texts[n].size
        /\ Cost(texts) = g[last]
  BY CostLoop
<1> DEFINE h == [n \in 0..last |-> f[n + 1]]
<1>4. h \in [0..last -> Nat] /\ h[last] = f[last + 1]
  BY <1>1, <1>2
<1>5. h[0] = text.size + g[0]
  BY <1>1, <1>2, <1>3
<1>6. \A n \in 1..last : h[n] = h[n - 1] + texts[n].size /\ g[n] = g[n - 1] + texts[n].size
  <2> SUFFICES ASSUME NEW n \in 1..last
               PROVE  h[n] = h[n - 1] + texts[n].size
    BY <1>3
  <2>1. n + 1 \in 1..(last + 1) /\ n - 1 \in 0..last /\ (n - 1) + 1 = n
    BY <1>1
  <2>2. f[n + 1] = f[(n + 1) - 1] + more[n + 1].size
    BY <1>2, <2>1
  <2> QED
    BY <1>1, <2>1, <2>2
<1> HIDE DEF h, last
<1>7. h[last] = text.size + g[last]
  BY <1>1, <1>3, <1>4, <1>5, <1>6, SameGrowth
<1> QED
  BY <1>2, <1>3, <1>4, <1>7 DEF more

-----------------------------------------------------------------------------
(* The rows at some places.                                                *)

SelectStep(selected, none, rows, places) ==
  [n \in 0..Len(rows) |->
     IF n = 0 THEN none
     ELSE IF n \in places THEN Append(selected[n - 1], rows[n]) ELSE selected[n - 1]]

Selecting(selected, rows, places) ==
  /\ selected[0] = << >>
  /\ \A n \in 1..Len(rows) :
       /\ n \in places => selected[n] = Append(selected[n - 1], rows[n])
       /\ n \notin places => selected[n] = selected[n - 1]

LEMMA SelectLoop ==
  ASSUME NEW R, NEW rows \in Seq(R), NEW places
  PROVE  \E selected \in [0..Len(rows) -> Seq(R)] :
           /\ Selecting(selected, rows, places)
           /\ Select(rows, places) = selected[Len(rows)]
<1> DEFINE none == << >>
           last == Len(rows)
           step == [n \in 1..last |-> [some \in Seq(R) |->
                      IF n \in places THEN Append(some, rows[n]) ELSE some]]
           loop == CHOOSE selected : selected = SelectStep(selected, none, rows, places)
<1>1. last \in Nat /\ \A n \in 1..last : rows[n] \in R
  OBVIOUS
<1>0. none \in Seq(R)
  OBVIOUS
<1>4. Select(rows, places) = loop[last]
  BY Zenon DEF Select, SelectStep
<1> HIDE DEF none
<1>2. \E selected : selected = SelectStep(selected, none, rows, places)
  <2>1. step \in [1..last -> [Seq(R) -> Seq(R)]]
    BY <1>1
  <2>2. \A n \in 1..last, some \in Seq(R) :
          step[n][some] = IF n \in places THEN Append(some, rows[n]) ELSE some
    OBVIOUS
  <2> HIDE DEF step, last
  <2>3. PICK f \in [0..last -> Seq(R)] : Iterates(f, last, none, step)
    BY <1>0, <1>1, <2>1, LoopHasValues
  <2>4. \A n \in 0..last : f[n] = IF n = 0 THEN none ELSE step[n][f[n - 1]]
    BY <2>3 DEF Iterates
  <2>5. \A n \in 0..last :
          f[n] = IF n = 0 THEN none
                 ELSE IF n \in places THEN Append(f[n - 1], rows[n]) ELSE f[n - 1]
    <3> SUFFICES ASSUME NEW n \in 0..last
                 PROVE  f[n] = IF n = 0 THEN none
                               ELSE IF n \in places THEN Append(f[n - 1], rows[n])
                                    ELSE f[n - 1]
      OBVIOUS
    <3>1. CASE n = 0
      BY <2>4, <3>1
    <3>2. CASE n # 0
      <4>1. n \in 1..last /\ f[n - 1] \in Seq(R)
        BY <1>1, <2>3, <3>2
      <4>2. f[n] = step[n][f[n - 1]]
        BY <2>4, <3>2
      <4> QED
        BY <2>2, <3>2, <4>1, <4>2
    <3> QED
      BY <3>1, <3>2
  <2>6. f = SelectStep(f, none, rows, places)
    BY <2>3, <2>5 DEF SelectStep, last
  <2> QED
    BY <2>6
<1> HIDE DEF step
<1>3. loop = SelectStep(loop, none, rows, places)
  BY <1>2
<1> HIDE DEF loop, last
<1>5. /\ loop[0] = none
      /\ \A n \in 1..last :
           /\ n \in places => loop[n] = Append(loop[n - 1], rows[n])
           /\ n \notin places => loop[n] = loop[n - 1]
  <2> DEFINE next(n) == IF n \in places THEN Append(loop[n - 1], rows[n]) ELSE loop[n - 1]
  <2>1. loop = [n \in 0..last |-> IF n = 0 THEN none ELSE next(n)]
    BY <1>3 DEF SelectStep, last
  <2> HIDE DEF next
  <2>2. loop[0] = none /\ \A n \in 1..last : loop[n] = next(n)
    BY <1>1, <2>1
  <2> QED
    BY <2>2 DEF next
<1>6. \A n \in 0..last : loop[n] \in Seq(R)
  <2> DEFINE Good == {n \in 0..last : loop[n] \in Seq(R)}
  <2>1. 0 \in Good
    BY <1>0, <1>1, <1>5
  <2>2. ASSUME NEW n \in 1..last, n - 1 \in Good
        PROVE  n \in Good
    <3>1. loop[n - 1] \in Seq(R) /\ rows[n] \in R /\ n \in 0..last
      BY <1>1, <2>2
    <3>2. Append(loop[n - 1], rows[n]) \in Seq(R)
      BY <3>1
    <3>3. loop[n] \in Seq(R)
      BY <1>5, <3>1, <3>2, Zenon
    <3> QED
      BY <3>1, <3>3
  <2> HIDE DEF Good
  <2>3. \A n \in 0..last : n \in Good
    BY <1>1, <2>1, <2>2, EveryStep
  <2> QED
    BY <2>3 DEF Good
<1>7. loop \in [0..last -> Seq(R)]
  BY <1>3, <1>6 DEF SelectStep, last
<1> QED
  BY <1>4, <1>5, <1>7 DEF last, none, Selecting

(* How many of some places come up to a place.                             *)
Rank(places, n) == Cardinality({d \in 1..n : d \in places})

LEMMA RankGrows ==
  ASSUME NEW places, NEW n \in Nat \ {0}
  PROVE  /\ Rank(places, n - 1) \in Nat
         /\ Rank(places, n) = IF n \in places THEN Rank(places, n - 1) + 1
                              ELSE Rank(places, n - 1)
<1> DEFINE below == {d \in 1..(n - 1) : d \in places}
<1>1. IsFiniteSet(1..(n - 1)) /\ below \subseteq 1..(n - 1)
  BY FS_Interval
<1>2. IsFiniteSet(below)
  BY <1>1, FS_Subset
<1>3. Cardinality(below) \in Nat
  BY <1>2, FS_CardinalityType
<1>4. n \notin below
  OBVIOUS
<1>5. {d \in 1..n : d \in places} = IF n \in places THEN below \cup {n} ELSE below
  OBVIOUS
<1> HIDE DEF below
<1>6. Cardinality(below \cup {n}) = Cardinality(below) + 1
  BY <1>2, <1>4, FS_AddElement
<1>7. Rank(places, n - 1) = Cardinality(below)
  BY DEF Rank, below
<1> QED
  BY <1>3, <1>5, <1>6, <1>7 DEF Rank

(* The i-th of the selected rows is the one at the i-th of the places.     *)
Selected(selected, rows, places, R) ==
  /\ selected \in Seq(R)
  /\ \A i \in DOMAIN selected :
       \E c \in DOMAIN rows :
         c \in places /\ rows[c] = selected[i] /\ Rank(places, c) = i

LEMMA SelectedAtTheirRank ==
  ASSUME NEW R, NEW rows \in Seq(R), NEW places
  PROVE  Selected(Select(rows, places), rows, places, R)
<1> DEFINE last == Len(rows)
<1>1. last \in Nat /\ \A n \in 1..last : rows[n] \in R /\ n \in DOMAIN rows
  OBVIOUS
<1>2. PICK selected \in [0..last -> Seq(R)] :
        Selecting(selected, rows, places) /\ Select(rows, places) = selected[last]
  BY SelectLoop
<1> DEFINE Placed(n) ==
             /\ Len(selected[n]) = Rank(places, n)
             /\ \A i \in 1..Len(selected[n]) :
                  \E c \in 1..n : /\ c \in places /\ rows[c] = selected[n][i]
                                  /\ Rank(places, c) = i
           Good == {n \in 0..last : Placed(n)}
<1> HIDE DEF last
<1>3. 0 \in Good
  <2>1. {d \in 1..0 : d \in places} = {}
    OBVIOUS
  <2>2. Rank(places, 0) = 0
    BY <2>1, FS_EmptySet DEF Rank
  <2>3. selected[0] = << >>
    BY <1>2 DEF Selecting
  <2> QED
    BY <1>1, <2>2, <2>3
<1>4. ASSUME NEW n \in 1..last, n - 1 \in Good
      PROVE  n \in Good
  <2>1. Placed(n - 1) /\ selected[n - 1] \in Seq(R) /\ n \in 0..last
    BY <1>1, <1>2, <1>4
  <2>2. /\ Rank(places, n - 1) \in Nat
        /\ Rank(places, n) = IF n \in places THEN Rank(places, n - 1) + 1
                             ELSE Rank(places, n - 1)
    BY <1>1, RankGrows
  <2>3. CASE n \notin places
    <3>1. selected[n] = selected[n - 1] /\ Rank(places, n) = Rank(places, n - 1)
      BY <1>2, <2>2, <2>3 DEF Selecting, last
    <3>2. 1..(n - 1) \subseteq 1..n
      BY <1>1
    <3> QED
      BY <2>1, <3>1, <3>2
  <2>4. CASE n \in places
    <3> DEFINE before == selected[n - 1]
               now == selected[n]
    <3>1. now = Append(before, rows[n]) /\ rows[n] \in R
      BY <1>1, <1>2, <2>4 DEF Selecting, last
    <3>2. Rank(places, n) = Len(before) + 1
      BY <2>1, <2>2, <2>4
    <3>3. /\ Len(now) = Len(before) + 1 /\ Len(before) \in Nat
          /\ now[Len(before) + 1] = rows[n]
          /\ \A i \in 1..Len(before) : now[i] = before[i]
      BY <2>1, <3>1
    <3>4. ASSUME NEW i \in 1..Len(now)
          PROVE  \E c \in 1..n : /\ c \in places /\ rows[c] = now[i]
                                 /\ Rank(places, c) = i
      <4>1. CASE i = Len(before) + 1
        BY <2>4, <3>2, <3>3, <4>1
      <4>2. CASE i # Len(before) + 1
        <5>1. i \in 1..Len(before)
          BY <3>3, <4>2
        <5>2. PICK c \in 1..(n - 1) : /\ c \in places /\ rows[c] = before[i]
                                      /\ Rank(places, c) = i
          BY <2>1, <5>1
        <5> QED
          BY <3>3, <5>1, <5>2
      <4> QED
        BY <4>1, <4>2
    <3>5. Placed(n)
      BY <3>2, <3>3, <3>4
    <3> QED
      BY <2>1, <3>5
  <2> QED
    BY <2>3, <2>4
<1> HIDE DEF Good
<1>5. \A n \in 0..last : n \in Good
  BY <1>1, <1>3, <1>4, EveryStep
<1>6. Placed(last)
  <2>1. last \in Good
    BY <1>1, <1>5
  <2> HIDE DEF Placed
  <2> QED
    BY <2>1 DEF Good
<1> QED
  BY <1>1, <1>2, <1>6 DEF last, Selected

-----------------------------------------------------------------------------
(* The recent turns.                                                       *)

LEMMA NewestIs ==
  ASSUME NEW R, NEW turns \in Seq(R), NEW n \in 0..Len(turns)
  PROVE  /\ Newest(turns, n) \in Seq(R)
         /\ Len(Newest(turns, n)) = n
         /\ \A i \in 1..n : Newest(turns, n)[i] = turns[Len(turns) - n + i]
<1> DEFINE last == Len(turns)
<1>1. last \in Nat /\ n \in Nat /\ n <= last
  OBVIOUS
<1>2. \A i \in (last - n + 1)..last : turns[i] \in R
  BY <1>1
<1> HIDE DEF last
<1> DEFINE first == last - n + 1
           suffix == SubSeq(turns, first, last)
<1>3. first \in Int /\ last - first + 1 = n
  BY <1>1
<1> HIDE DEF first
<1>4. /\ suffix \in Seq(R)
      /\ Len(suffix) = IF first <= last THEN last - first + 1 ELSE 0
      /\ \A i \in 1..(last - first + 1) : suffix[i] = turns[first + i - 1]
  BY <1>1, <1>2, <1>3, SubSeqProperties DEF first
<1> HIDE DEF suffix
<1>5. Len(suffix) = n
  BY <1>1, <1>3, <1>4
<1>6. \A i \in 1..n : suffix[i] = turns[last - n + i]
  <2> SUFFICES ASSUME NEW i \in 1..n PROVE suffix[i] = turns[last - n + i]
    OBVIOUS
  <2>1. first + i - 1 = last - n + i
    BY <1>1 DEF first
  <2> QED
    BY <1>3, <1>4, <2>1
<1>7. suffix = Newest(turns, n)
  BY DEF suffix, first, last, Newest
<1> QED
  BY <1>4, <1>5, <1>6, <1>7 DEF last

LEMMA NewestOfNewest ==
  ASSUME NEW R, NEW turns \in Seq(R), NEW a \in 0..Len(turns), NEW b \in 0..a
  PROVE  Newest(Newest(turns, a), b) = Newest(turns, b)
<1> DEFINE recent == Newest(turns, a)
           last == Len(turns)
<1>1. last \in Nat /\ a \in Nat /\ b \in Nat /\ b <= a /\ a <= last
  OBVIOUS
<1>2. /\ recent \in Seq(R) /\ Len(recent) = a
      /\ \A i \in 1..a : recent[i] = turns[last - a + i]
  BY NewestIs
<1> HIDE DEF recent
<1>3. /\ Newest(recent, b) \in Seq(R) /\ Len(Newest(recent, b)) = b
      /\ \A i \in 1..b : Newest(recent, b)[i] = recent[a - b + i]
  BY <1>1, <1>2, NewestIs
<1>4. /\ Newest(turns, b) \in Seq(R) /\ Len(Newest(turns, b)) = b
      /\ \A i \in 1..b : Newest(turns, b)[i] = turns[last - b + i]
  BY <1>1, NewestIs
<1> HIDE DEF last
<1>5. \A i \in 1..b : Newest(recent, b)[i] = Newest(turns, b)[i]
  <2> SUFFICES ASSUME NEW i \in 1..b
               PROVE  Newest(recent, b)[i] = Newest(turns, b)[i]
    OBVIOUS
  <2>1. a - b + i \in 1..a /\ last - a + (a - b + i) = last - b + i
    BY <1>1
  <2>2. recent[a - b + i] = turns[last - a + (a - b + i)]
    BY <1>2, <2>1
  <2> QED
    BY <1>3, <1>4, <2>1, <2>2
<1>6. Newest(recent, b) = Newest(turns, b)
  BY <1>1, <1>3, <1>4, <1>5, SeqEqual
<1> QED
  BY <1>6 DEF recent


LEMMA OneTurnMore ==
  ASSUME NEW R, \A r \in R : r.size \in Nat, NEW turns \in Seq(R),
         NEW n \in 1..Len(turns)
  PROVE  /\ Cost(Newest(turns, n - 1)) \in Nat
         /\ Cost(Newest(turns, n)) \in Nat
         /\ Cost(Newest(turns, n - 1)) <= Cost(Newest(turns, n))
<1> DEFINE last == Len(turns)
           older == Newest(turns, n)
           newer == Newest(turns, n - 1)
           turn == turns[last - n + 1]
<1>1. last \in Nat /\ n \in Nat /\ n <= last /\ n - 1 \in 0..last /\ n \in 0..last
  OBVIOUS
<1>2. turn \in R /\ turn.size \in Nat
  BY <1>1
<1>3. /\ newer \in Seq(R) /\ Len(newer) = n - 1
      /\ \A i \in 1..(n - 1) : newer[i] = turns[last - (n - 1) + i]
  BY <1>1, NewestIs
<1>4. /\ older \in Seq(R) /\ Len(older) = n
      /\ \A i \in 1..n : older[i] = turns[last - n + i]
  BY <1>1, NewestIs
<1> HIDE DEF last, older, newer
<1>5. older = <<turn>> \o newer
  <2> HIDE DEF turn
  <2> DEFINE both == <<turn>> \o newer
  <2>1. /\ both \in Seq(R) /\ Len(both) = n /\ both[1] = turn
        /\ \A i \in 2..n : both[i] = newer[i - 1]
    BY <1>1, <1>2, <1>3
  <2> HIDE DEF both
  <2>2. \A i \in 1..n : both[i] = older[i]
    <3> SUFFICES ASSUME NEW i \in 1..n PROVE both[i] = older[i]
      OBVIOUS
    <3>1. CASE i = 1
      BY <1>1, <1>4, <2>1, <3>1 DEF turn
    <3>2. CASE i # 1
      <4>1. i \in 2..n /\ i - 1 \in 1..(n - 1) /\ last - (n - 1) + (i - 1) = last - n + i
        BY <1>1, <3>2
      <4>2. newer[i - 1] = turns[last - (n - 1) + (i - 1)]
        BY <1>3, <4>1
      <4> QED
        BY <1>4, <2>1, <4>1, <4>2
    <3> QED
      BY <3>1, <3>2
  <2>3. both = older
    BY <1>4, <2>1, <2>2, SeqEqual
  <2> QED
    BY <2>3 DEF both
<1>6. Cost(older) = turn.size + Cost(newer)
  BY <1>2, <1>3, <1>5, CostOfPrepend
<1>7. Cost(newer) \in Nat
  BY <1>3, CostIsNumber
<1> QED
  BY <1>2, <1>6, <1>7 DEF older, newer

LEMMA MoreTurnsCostMore ==
  ASSUME NEW R, \A r \in R : r.size \in Nat, NEW turns \in Seq(R),
         NEW m \in 0..Len(turns), NEW n \in 0..m
  PROVE  Cost(Newest(turns, n)) <= Cost(Newest(turns, m))
<1> DEFINE last == Len(turns)
           cost == [k \in 0..last |-> Cost(Newest(turns, k))]
           Good == {k \in 0..last : n <= k => cost[n] <= cost[k]}
<1>1. last \in Nat /\ n \in 0..last
  OBVIOUS
<1>2. \A k \in 1..last :
        cost[k - 1] \in Nat /\ cost[k] \in Nat /\ cost[k - 1] <= cost[k]
  <2> SUFFICES ASSUME NEW k \in 1..last
               PROVE  cost[k - 1] \in Nat /\ cost[k] \in Nat /\ cost[k - 1] <= cost[k]
    OBVIOUS
  <2>1. k - 1 \in 0..last /\ k \in 0..last
    BY <1>1
  <2>2. cost[k - 1] = Cost(Newest(turns, k - 1)) /\ cost[k] = Cost(Newest(turns, k))
    BY <2>1
  <2> QED
    BY <2>2, OneTurnMore
<1>3. cost[0] \in Nat
  <2>1. 0 \in 0..last /\ cost[0] = Cost(Newest(turns, 0))
    BY <1>1
  <2>2. Newest(turns, 0) \in Seq(R)
    BY <2>1, NewestIs
  <2> QED
    BY <2>1, <2>2, CostIsNumber
<1>4. cost[n] = Cost(Newest(turns, n)) /\ cost[m] = Cost(Newest(turns, m))
  BY <1>1
<1> HIDE DEF cost, last
<1>5. 0 \in Good
  BY <1>1, <1>3
<1>6. ASSUME NEW k \in 1..last, k - 1 \in Good
      PROVE  k \in Good
  <2>1. k \in 0..last /\ cost[k - 1] \in Nat /\ cost[k] \in Nat /\ cost[k - 1] <= cost[k]
    BY <1>1, <1>2
  <2>2. n <= k - 1 => cost[n] <= cost[k - 1]
    BY <1>6
  <2>3. CASE n <= k - 1
    <3>1. cost[n] \in Nat
      BY <1>1, <1>2, <1>3
    <3> QED
      BY <2>1, <2>2, <2>3, <3>1
  <2>4. CASE n = k
    BY <2>1, <2>4
  <2> QED
    BY <1>1, <2>1, <2>3, <2>4
<1> HIDE DEF Good
<1>7. \A k \in 0..last : k \in Good
  BY <1>1, <1>5, <1>6, EveryStep
<1>8. m \in Good
  BY <1>7 DEF last
<1> QED
  BY <1>4, <1>8 DEF Good

(* As many of the last turns as fit.                                       *)
IsLongest(m, turns, room) ==
  /\ m \in 0..Len(turns)
  /\ Cost(Newest(turns, m)) <= room
  /\ m < Len(turns) => Cost(Newest(turns, m + 1)) > room

LEMMA LongestIs ==
  ASSUME NEW R, \A r \in R : r.size \in Nat, NEW turns \in Seq(R), NEW room \in Nat,
         NEW m, IsLongest(m, turns, room)
  PROVE  LongestSuffix(turns, room) = Newest(turns, m)
<1> DEFINE Fit == {n \in 0..Len(turns) : Cost(Newest(turns, n)) <= room}
<1>1. m \in Fit /\ m \in Nat /\ Len(turns) \in Nat
  BY DEF IsLongest
<1>2. ASSUME NEW n \in Fit
      PROVE  m >= n
  <2> SUFFICES ASSUME n > m PROVE FALSE
    BY <1>1
  <2>1. /\ m + 1 \in 0..n /\ n \in 0..Len(turns) /\ m < Len(turns)
        /\ m + 1 \in 0..Len(turns)
    BY <1>1
  <2>2. Cost(Newest(turns, m + 1)) <= Cost(Newest(turns, n))
    BY <2>1, MoreTurnsCostMore
  <2>3. Newest(turns, m + 1) \in Seq(R) /\ Newest(turns, n) \in Seq(R)
    BY <2>1, NewestIs
  <2>4. Cost(Newest(turns, m + 1)) \in Nat /\ Cost(Newest(turns, n)) \in Nat
    BY <2>3, CostIsNumber
  <2>5. Cost(Newest(turns, m + 1)) > room /\ Cost(Newest(turns, n)) <= room
    BY <2>1 DEF IsLongest
  <2> QED
    BY <2>2, <2>4, <2>5
<1>3. Fit \subseteq Nat
  OBVIOUS
<1> HIDE DEF Fit
<1>4. Max(Fit) \in Fit /\ \A n \in Fit : Max(Fit) >= n
  BY <1>1, <1>2 DEF Max
<1>5. Max(Fit) = m
  <2> DEFINE most == Max(Fit)
  <2>1. most \in Nat /\ most >= m
    BY <1>1, <1>3, <1>4
  <2>2. m >= most
    BY <1>2, <1>4
  <2> HIDE DEF most
  <2>3. most = m
    BY <1>1, <2>1, <2>2
  <2> QED
    BY <2>3 DEF most
<1> QED
  BY <1>5 DEF LongestSuffix, Fit

RecentStep(kept, turns, room) ==
  [n \in 0..Len(turns) |->
     IF n = 0 THEN 0
     ELSE LET newer == kept[n - 1] IN
          IF newer = n - 1 /\ Cost(Newest(turns, n)) <= room THEN n ELSE newer]

(* The loop that stops at the first turn that does not fit keeps the most  *)
(* that fit: older turns only add to what the newer ones cost.             *)
LEMMA RecentTurnsAreLongest ==
  ASSUME NEW R, \A r \in R : r.size \in Nat, NEW turns \in Seq(R), NEW room \in Nat
  PROVE  \E m : IsLongest(m, turns, room) /\ RecentTurns(turns, room) = Newest(turns, m)
<1> DEFINE last == Len(turns)
           Takes(n, newer) == newer = n - 1 /\ Cost(Newest(turns, n)) <= room
           step == [n \in 1..last |-> [newer \in 0..last |->
                      IF Takes(n, newer) THEN n ELSE newer]]
           loop == CHOOSE kept : kept = RecentStep(kept, turns, room)
<1>1. last \in Nat /\ 0 \in 0..last
  OBVIOUS
<1>2. RecentTurns(turns, room) = Newest(turns, loop[last])
  BY Zenon DEF RecentTurns, RecentStep
<1>3. \E kept : kept = RecentStep(kept, turns, room)
  <2>1. step \in [1..last -> [0..last -> 0..last]]
    BY <1>1
  <2>2. \A n \in 1..last, newer \in 0..last :
          step[n][newer] = IF Takes(n, newer) THEN n ELSE newer
    OBVIOUS
  <2> HIDE DEF step, last
  <2>3. PICK f \in [0..last -> 0..last] : Iterates(f, last, 0, step)
    BY <1>1, <2>1, LoopHasValues
  <2>4. \A n \in 0..last : f[n] = IF n = 0 THEN 0 ELSE step[n][f[n - 1]]
    BY <2>3 DEF Iterates
  <2>5. \A n \in 0..last :
          f[n] = IF n = 0 THEN 0 ELSE IF Takes(n, f[n - 1]) THEN n ELSE f[n - 1]
    <3> SUFFICES ASSUME NEW n \in 0..last
                 PROVE  f[n] = IF n = 0 THEN 0
                               ELSE IF Takes(n, f[n - 1]) THEN n ELSE f[n - 1]
      OBVIOUS
    <3>1. CASE n = 0
      BY <2>4, <3>1
    <3>2. CASE n # 0
      <4>1. n \in 1..last /\ f[n - 1] \in 0..last
        BY <1>1, <2>3, <3>2
      <4>2. f[n] = step[n][f[n - 1]]
        BY <2>4, <3>2
      <4> HIDE DEF Takes
      <4> QED
        BY <2>2, <3>2, <4>1, <4>2
    <3> QED
      BY <3>1, <3>2
  <2>6. f = RecentStep(f, turns, room)
    BY <2>3, <2>5 DEF RecentStep, last
  <2> QED
    BY <2>6
<1> HIDE DEF step
<1>4. loop = RecentStep(loop, turns, room)
  BY <1>3
<1> HIDE DEF loop, last
<1>5. /\ loop[0] = 0
      /\ \A n \in 1..last : loop[n] = IF Takes(n, loop[n - 1]) THEN n ELSE loop[n - 1]
  BY <1>1, <1>4 DEF RecentStep, last
<1> DEFINE cost == [n \in 0..last |-> Cost(Newest(turns, n))]
           Kept(k, n) == /\ k \in 0..n
                         /\ cost[k] <= room
                         /\ k < n => cost[k + 1] > room
           Good == {n \in 0..last : Kept(loop[n], n)}
<1>6. \A n \in 0..last : cost[n] \in Nat /\ cost[n] = Cost(Newest(turns, n))
  <2> SUFFICES ASSUME NEW n \in 0..last PROVE Cost(Newest(turns, n)) \in Nat
    OBVIOUS
  <2>1. Newest(turns, n) \in Seq(R)
    BY NewestIs DEF last
  <2> QED
    BY <2>1, CostIsNumber
<1>7. cost[0] = 0
  <2>1. Newest(turns, 0) \in Seq(R) /\ Len(Newest(turns, 0)) = 0
    BY <1>1, NewestIs DEF last
  <2>2. Newest(turns, 0) = << >>
    BY <2>1
  <2> QED
    BY <1>1, <2>1, <2>2, CostIsNumber
<1> HIDE DEF cost
<1>8. 0 \in Good
  BY <1>1, <1>5, <1>7
<1>9. ASSUME NEW n \in 1..last, n - 1 \in Good
      PROVE  n \in Good
  <2>1. Kept(loop[n - 1], n - 1) /\ n \in 0..last /\ n \in Nat
    BY <1>1, <1>9
  <2>2. Takes(n, loop[n - 1]) <=> loop[n - 1] = n - 1 /\ cost[n] <= room
    BY <1>6, <2>1
  <2> HIDE DEF Takes
  <2>3. CASE Takes(n, loop[n - 1])
    <3>1. loop[n] = n
      BY <1>5, <2>3
    <3> QED
      BY <2>1, <2>2, <2>3, <3>1
  <2>4. CASE ~Takes(n, loop[n - 1])
    <3>1. loop[n] = loop[n - 1]
      BY <1>5, <2>4
    <3>2. CASE loop[n - 1] = n - 1
      <4>1. cost[n] > room
        BY <1>6, <2>1, <2>2, <2>4, <3>2
      <4> QED
        BY <2>1, <3>1, <3>2, <4>1
    <3>3. CASE loop[n - 1] # n - 1
      BY <2>1, <3>1, <3>3
    <3> QED
      BY <3>2, <3>3
  <2> QED
    BY <2>3, <2>4
<1> HIDE DEF Good
<1>10. \A n \in 0..last : n \in Good
  BY <1>1, <1>8, <1>9, EveryStep
<1>11. Kept(loop[last], last)
  <2>1. last \in Good
    BY <1>1, <1>10
  <2> HIDE DEF Kept
  <2> QED
    BY <2>1 DEF Good
<1>12. IsLongest(loop[last], turns, room)
  BY <1>1, <1>6, <1>11 DEF IsLongest, last
<1> QED
  BY <1>2, <1>12 DEF last

-----------------------------------------------------------------------------
(* The passages that fit.                                                  *)

Passage == [rank : Nat, size : Nat]

Fits(asked, before, passage) ==
  Instructions + asked + Cost(before) + passage.size <= PromptLimit

FittingStep(kept, none, asked) ==
  [n \in 0..Len(found) |->
     IF n = 0 THEN none
     ELSE LET before == kept[n - 1] IN
          IF Instructions + asked + Cost(before) + found[n].size <= PromptLimit
          THEN Append(before, found[n]) ELSE before]

FittingLoop(kept, asked) ==
  /\ kept[0] = << >>
  /\ \A n \in 1..Len(found) :
       /\ Fits(asked, kept[n - 1], found[n]) => kept[n] = Append(kept[n - 1], found[n])
       /\ ~Fits(asked, kept[n - 1], found[n]) => kept[n] = kept[n - 1]

LEMMA PassagesLoop ==
  ASSUME found \in Seq(Passage), NEW asked \in Nat
  PROVE  \E kept \in [0..Len(found) -> Seq(Passage)] :
           FittingLoop(kept, asked) /\ FittingPassages(asked) = kept[Len(found)]
<1> DEFINE none == << >>
           last == Len(found)
           next(before, n) == IF Fits(asked, before, found[n])
                              THEN Append(before, found[n]) ELSE before
           step == [n \in 1..last |-> [before \in Seq(Passage) |-> next(before, n)]]
           loop == CHOOSE kept : kept = FittingStep(kept, none, asked)
<1>1. none \in Seq(Passage)
  OBVIOUS
<1>2. last \in Nat /\ \A n \in 1..last : found[n] \in Passage
  OBVIOUS
<1>3. FittingPassages(asked) = loop[last]
  BY Zenon DEF FittingPassages, FittingStep
<1>4. \A n \in 1..last, before \in Seq(Passage) : next(before, n) \in Seq(Passage)
  <2> SUFFICES ASSUME NEW n \in 1..last, NEW before \in Seq(Passage)
               PROVE  next(before, n) \in Seq(Passage)
    OBVIOUS
  <2>1. Append(before, found[n]) \in Seq(Passage)
    BY <1>2
  <2> QED
    BY <2>1, Zenon
<1> HIDE DEF none
<1>5. \A kept : FittingStep(kept, none, asked)
                  = [n \in 0..last |-> IF n = 0 THEN none ELSE next(kept[n - 1], n)]
  BY Zenon DEF FittingStep, Fits
<1> HIDE DEF next
<1>6. \E kept : kept = FittingStep(kept, none, asked)
  <2>1. step \in [1..last -> [Seq(Passage) -> Seq(Passage)]]
    BY <1>4
  <2>2. \A n \in 1..last, before \in Seq(Passage) : step[n][before] = next(before, n)
    OBVIOUS
  <2> HIDE DEF step, last
  <2>3. PICK f \in [0..last -> Seq(Passage)] : Iterates(f, last, none, step)
    BY <1>1, <1>2, <2>1, LoopHasValues
  <2>4. \A n \in 0..last : f[n] = IF n = 0 THEN none ELSE step[n][f[n - 1]]
    BY <2>3 DEF Iterates
  <2>5. \A n \in 0..last : f[n] = IF n = 0 THEN none ELSE next(f[n - 1], n)
    <3> SUFFICES ASSUME NEW n \in 0..last
                 PROVE  f[n] = IF n = 0 THEN none ELSE next(f[n - 1], n)
      OBVIOUS
    <3>1. CASE n = 0
      BY <2>4, <3>1
    <3>2. CASE n # 0
      <4>1. n \in 1..last /\ f[n - 1] \in Seq(Passage)
        BY <1>2, <2>3, <3>2
      <4>2. f[n] = step[n][f[n - 1]]
        BY <2>4, <3>2
      <4> QED
        BY <2>2, <3>2, <4>1, <4>2
    <3> QED
      BY <3>1, <3>2
  <2>6. f = FittingStep(f, none, asked)
    BY <1>5, <2>3, <2>5
  <2> QED
    BY <2>6
<1> HIDE DEF step
<1>7. loop = [n \in 0..last |-> IF n = 0 THEN none ELSE next(loop[n - 1], n)]
  <2>1. loop = FittingStep(loop, none, asked)
    BY <1>6
  <2> HIDE DEF loop
  <2> QED
    BY <1>5, <2>1
<1> HIDE DEF loop, last
<1>8. loop[0] = none /\ \A n \in 1..last : loop[n] = next(loop[n - 1], n)
  BY <1>2, <1>7
<1>9. \A n \in 0..last : loop[n] \in Seq(Passage)
  <2> DEFINE Good == {n \in 0..last : loop[n] \in Seq(Passage)}
  <2>1. 0 \in Good
    BY <1>1, <1>2, <1>8
  <2>2. ASSUME NEW n \in 1..last, n - 1 \in Good
        PROVE  n \in Good
    BY <1>2, <1>4, <1>8, <2>2
  <2> HIDE DEF Good
  <2>3. \A n \in 0..last : n \in Good
    BY <1>2, <2>1, <2>2, EveryStep
  <2> QED
    BY <2>3 DEF Good
<1>10. loop \in [0..last -> Seq(Passage)]
  BY <1>7, <1>9
<1>11. FittingLoop(loop, asked)
  BY <1>8 DEF FittingLoop, next, none, last
<1> QED
  BY <1>3, <1>10, <1>11 DEF last

Ranks(passages) == {passages[j].rank : j \in DOMAIN passages}

(* Of the first n passages found, those kept.                              *)
KeptOf(n, kept, asked) ==
  /\ kept \in Seq(Passage)
  /\ kept # << >> => Instructions + asked + Cost(kept) <= PromptLimit
  /\ Ranks(kept) \subseteq 1..n
  /\ \A i, j \in DOMAIN kept : i < j => kept[i].rank < kept[j].rank
  /\ \A i \in 1..n \ Ranks(kept) :
       Instructions + asked + Cost(kept) + found[i].size > PromptLimit

LEMMA OnePassageMore ==
  ASSUME found \in Seq(Passage), \A i \in DOMAIN found : found[i].rank = i,
         NEW asked \in Nat, NEW n \in 1..Len(found), NEW before, KeptOf(n - 1, before, asked)
  PROVE  /\ Fits(asked, before, found[n]) => KeptOf(n, Append(before, found[n]), asked)
         /\ ~Fits(asked, before, found[n]) => KeptOf(n, before, asked)
<1>1. /\ n \in Nat /\ n \in DOMAIN found /\ found[n] \in Passage /\ found[n].rank = n
      /\ found[n].size \in Nat
      /\ \A i \in 1..n : found[i].size \in Nat
  <2>1. /\ n \in Nat /\ n \in DOMAIN found
        /\ \A i \in 1..n : i \in DOMAIN found /\ found[i] \in Passage
    OBVIOUS
  <2>2. n \in 1..n
    BY <2>1
  <2>3. \A r \in Passage : r.size \in Nat
    BY DEF Passage
  <2> QED
    BY <2>1, <2>2, <2>3, Zenon
<1>2. /\ before \in Seq(Passage) /\ Cost(before) \in Nat
      /\ Instructions \in Nat /\ PromptLimit \in Nat
  BY CostIsNumber, BudgetAssumption DEF KeptOf, Passage
<1>3. CASE ~Fits(asked, before, found[n])
  <2>1. \A i \in 1..n \ Ranks(before) :
          Instructions + asked + Cost(before) + found[i].size > PromptLimit
    <3> SUFFICES ASSUME NEW i \in 1..n \ Ranks(before)
                 PROVE  Instructions + asked + Cost(before) + found[i].size > PromptLimit
      OBVIOUS
    <3>1. CASE i = n
      BY <1>1, <1>2, <1>3, <3>1 DEF Fits
    <3>2. CASE i # n
      <4>1. i \in 1..(n - 1)
        BY <1>1, <3>2
      <4> QED
        BY <4>1 DEF KeptOf
    <3> QED
      BY <3>1, <3>2
  <2>2. 1..(n - 1) \subseteq 1..n
    BY <1>1
  <2> QED
    BY <1>3, <2>1, <2>2 DEF KeptOf
<1>4. CASE Fits(asked, before, found[n])
  <2> DEFINE kept == Append(before, found[n])
  <2>1. /\ kept \in Seq(Passage) /\ DOMAIN kept = 1..(Len(before) + 1)
        /\ DOMAIN before = 1..Len(before) /\ Len(before) \in Nat
        /\ kept[Len(before) + 1] = found[n]
        /\ \A j \in 1..Len(before) : kept[j] = before[j]
    BY <1>1, <1>2
  <2>2. Cost(kept) = Cost(before) + found[n].size
    <3>1. \A r \in Passage : r.size \in Nat
      BY DEF Passage
    <3> QED
      BY <1>1, <1>2, <3>1, CostOfAppend
  <2> HIDE DEF kept
  <2>3. Ranks(kept) = Ranks(before) \cup {n}
    <3> DEFINE m == Len(before)
    <3>1. 1..(m + 1) = 1..m \cup {m + 1}
      BY <2>1
    <3>2. Ranks(kept) = {kept[j].rank : j \in 1..m} \cup {kept[m + 1].rank}
      BY <2>1, <3>1 DEF Ranks
    <3>3. {kept[j].rank : j \in 1..m} = {before[j].rank : j \in 1..m}
      BY <2>1
    <3> QED
      BY <1>1, <2>1, <3>2, <3>3 DEF Ranks
  <2>4. Ranks(before) \subseteq 1..(n - 1)
    BY DEF KeptOf
  <2>5. Instructions + asked + Cost(kept) <= PromptLimit
    BY <1>1, <1>2, <1>4, <2>2 DEF Fits
  <2>6. ASSUME NEW i \in DOMAIN kept, NEW j \in DOMAIN kept, i < j
        PROVE  kept[i].rank < kept[j].rank
    <3>1. CASE j = Len(before) + 1
      <4>1. i \in 1..Len(before) /\ kept[i] = before[i] /\ kept[j] = found[n]
        BY <2>1, <2>6, <3>1
      <4>2. before[i].rank \in 1..(n - 1)
        BY <2>1, <2>4, <4>1 DEF Ranks
      <4> QED
        BY <1>1, <4>1, <4>2
    <3>2. CASE j # Len(before) + 1
      <4>1. i \in DOMAIN before /\ j \in DOMAIN before
        BY <2>1, <2>6, <3>2
      <4> QED
        BY <2>1, <2>6, <4>1 DEF KeptOf
    <3> QED
      BY <3>1, <3>2
  <2>7. ASSUME NEW i \in 1..n \ Ranks(kept)
        PROVE  Instructions + asked + Cost(kept) + found[i].size > PromptLimit
    <3>1. i \in 1..(n - 1) \ Ranks(before) /\ found[i].size \in Nat
      BY <1>1, <2>3
    <3>2. Instructions + asked + Cost(before) + found[i].size > PromptLimit
      BY <3>1 DEF KeptOf
    <3> QED
      BY <1>1, <1>2, <2>2, <3>1, <3>2
  <2>8. KeptOf(n, kept, asked)
    BY <1>1, <2>1, <2>3, <2>4, <2>5, <2>6, <2>7 DEF KeptOf
  <2> QED
    BY <1>4, <2>8 DEF kept
<1> QED
  BY <1>3, <1>4

LEMMA PassagesKept ==
  ASSUME found \in Seq(Passage), \A i \in DOMAIN found : found[i].rank = i,
         NEW asked \in Nat
  PROVE  KeptOf(Len(found), FittingPassages(asked), asked)
<1> DEFINE last == Len(found)
<1>1. last \in Nat
  OBVIOUS
<1>2. PICK kept \in [0..last -> Seq(Passage)] :
        FittingLoop(kept, asked) /\ FittingPassages(asked) = kept[last]
  BY PassagesLoop
<1> DEFINE Good == {n \in 0..last : KeptOf(n, kept[n], asked)}
<1>3. 0 \in Good
  <2>1. kept[0] = << >> /\ kept[0] \in Seq(Passage)
    BY <1>1, <1>2 DEF FittingLoop
  <2>2. DOMAIN kept[0] = {}
    BY <2>1
  <2>3. KeptOf(0, kept[0], asked)
    BY <2>1, <2>2 DEF KeptOf, Ranks
  <2> QED
    BY <1>1, <2>3
<1>4. ASSUME NEW n \in 1..last, n - 1 \in Good
      PROVE  n \in Good
  <2>1. KeptOf(n - 1, kept[n - 1], asked)
    BY <1>4
  <2>2. /\ Fits(asked, kept[n - 1], found[n]) =>
             KeptOf(n, Append(kept[n - 1], found[n]), asked)
        /\ ~Fits(asked, kept[n - 1], found[n]) => KeptOf(n, kept[n - 1], asked)
    BY <2>1, OnePassageMore
  <2>3. KeptOf(n, kept[n], asked)
    BY <1>2, <2>2 DEF FittingLoop
  <2> QED
    BY <1>1, <2>3
<1> HIDE DEF Good, last
<1>5. \A n \in 0..last : n \in Good
  BY <1>1, <1>3, <1>4, EveryStep
<1>6. last \in Good
  BY <1>1, <1>5
<1> QED
  BY <1>2, <1>6 DEF Good, last

-----------------------------------------------------------------------------
(* The history a budget keeps.                                             *)

Turn == [at : Nat, size : Nat]

LEMMA TurnsHaveSizes == \A turn \in Turn : turn.size \in Nat
BY DEF Turn

(* A memory is kept when half of the budget holds it.                      *)
MemoryKept(saved, budget) == IF saved <= budget \div 2 THEN saved ELSE 0

(* What budget_history promises of the history it returns.                 *)
Budgeted(h, turns, saved, budget) ==
  /\ h.memory = MemoryKept(saved, budget)
  /\ h.memory \in Nat /\ h.turns \in Seq(Turn)
  /\ budget - h.memory \in Nat
  /\ h.turns = LongestSuffix(turns, budget - h.memory)
  /\ HistoryCost(h) \in Nat /\ HistoryCost(h) <= budget

LEMMA BudgetHistoryIs ==
  \A turns \in Seq(Turn) : \A saved, budget \in Nat :
    Budgeted(BudgetHistory(turns, saved, budget), turns, saved, budget)
<1> SUFFICES ASSUME NEW turns \in Seq(Turn), NEW saved \in Nat, NEW budget \in Nat,
                    NEW h, h = BudgetHistory(turns, saved, budget)
             PROVE  Budgeted(h, turns, saved, budget)
  OBVIOUS
<1> DEFINE kept == MemoryKept(saved, budget)
           room == budget - kept
<1>1. kept \in Nat /\ kept <= budget
  BY DEF MemoryKept
<1>2. h.memory = kept /\ h.turns = RecentTurns(turns, room)
  BY DEF BudgetHistory, History, MemoryKept
<1>3. h.memory = MemoryKept(saved, budget)
  BY <1>2
<1> HIDE DEF kept
<1>4. room \in Nat /\ room = budget - kept
  BY <1>1
<1> HIDE DEF room
<1>5. PICK m : IsLongest(m, turns, room) /\ h.turns = Newest(turns, m)
  BY <1>2, <1>4, TurnsHaveSizes, RecentTurnsAreLongest
<1>6. h.turns = LongestSuffix(turns, room)
  BY <1>4, <1>5, TurnsHaveSizes, LongestIs
<1>7. h.turns \in Seq(Turn) /\ Cost(h.turns) <= room
  BY <1>5, NewestIs DEF IsLongest
<1>8. Cost(h.turns) \in Nat
  BY <1>7, TurnsHaveSizes, CostIsNumber
<1>9. HistoryCost(h) = kept + Cost(h.turns)
  BY <1>2 DEF HistoryCost
<1>10. HistoryCost(h) \in Nat /\ HistoryCost(h) <= budget
  BY <1>1, <1>4, <1>7, <1>8, <1>9
<1> QED
  BY <1>1, <1>2, <1>3, <1>4, <1>6, <1>7, <1>10 DEF Budgeted

(* Cutting to a number of turns before budgeting or after it is the same.  *)
LEMMA LongestOfTheNewest ==
  ASSUME NEW turns \in Seq(Turn), NEW room \in Nat, NEW most \in Nat
  PROVE  LET longest == LongestSuffix(turns, room) IN
           LongestSuffix(Newest(turns, Min({most, Len(turns)})), room)
             = Newest(longest, Min({most, Len(longest)}))
<1> DEFINE last == Len(turns)
           cut == Min({most, last})
           few == Newest(turns, cut)
           longest == LongestSuffix(turns, room)
<1>1. last \in Nat
  OBVIOUS
<1>2. \A a, b \in Nat : Min({a, b}) = IF a <= b THEN a ELSE b
  BY DEF Min
<1>3. cut \in 0..last /\ cut = IF most <= last THEN most ELSE last
  BY <1>1, <1>2
<1>4. few \in Seq(Turn) /\ Len(few) = cut
  BY <1>3, NewestIs
<1>5. PICK m : IsLongest(m, turns, room)
  BY TurnsHaveSizes, RecentTurnsAreLongest
<1>6. m \in 0..last /\ longest = Newest(turns, m)
  BY <1>5, TurnsHaveSizes, LongestIs DEF IsLongest
<1>7. Len(longest) = m
  BY <1>6, NewestIs
<1> DEFINE k == IF m <= cut THEN m ELSE cut
<1>8. /\ k \in 0..cut /\ k \in 0..m /\ k \in 0..last
      /\ k = IF most <= m THEN most ELSE m
  BY <1>1, <1>3, <1>6
<1>9. k < cut => k = m
  BY <1>1, <1>3, <1>6
<1>10. Min({most, Len(longest)}) = k
  BY <1>2, <1>6, <1>7, <1>8
<1> HIDE DEF cut, few, longest, k
<1>11. \A n \in 0..cut : Newest(few, n) = Newest(turns, n)
  BY <1>3, NewestOfNewest DEF few
<1>12. IsLongest(k, few, room)
  <2>1. Cost(Newest(few, k)) <= room
    <3>1. Newest(few, k) = Newest(turns, k)
      BY <1>8, <1>11
    <3>2. Cost(Newest(turns, k)) <= Cost(Newest(turns, m))
      BY <1>6, <1>8, TurnsHaveSizes, MoreTurnsCostMore
    <3>3. Newest(turns, k) \in Seq(Turn) /\ Newest(turns, m) \in Seq(Turn)
      BY <1>6, <1>8, NewestIs
    <3>4. Cost(Newest(turns, k)) \in Nat /\ Cost(Newest(turns, m)) \in Nat
      BY <3>3, TurnsHaveSizes, CostIsNumber
    <3>5. Cost(Newest(turns, m)) <= room
      BY <1>5 DEF IsLongest
    <3> QED
      BY <3>1, <3>2, <3>4, <3>5
  <2>2. ASSUME k < cut
        PROVE  Cost(Newest(few, k + 1)) > room
    <3>1. k = m /\ m < Len(turns) /\ m + 1 \in 0..cut
      BY <1>3, <1>6, <1>9, <2>2
    <3>2. Newest(few, k + 1) = Newest(turns, m + 1)
      BY <1>11, <3>1
    <3> QED
      BY <1>5, <3>1, <3>2 DEF IsLongest
  <2> QED
    BY <1>4, <1>8, <2>1, <2>2 DEF IsLongest
<1>13. LongestSuffix(few, room) = Newest(few, k)
  BY <1>4, <1>12, TurnsHaveSizes, LongestIs
<1>14. Newest(few, k) = Newest(turns, k)
  BY <1>8, <1>11
<1>15. Newest(longest, k) = Newest(turns, k)
  BY <1>6, <1>8, NewestOfNewest
<1> QED
  BY <1>10, <1>13, <1>14, <1>15 DEF few, cut, longest

-----------------------------------------------------------------------------
(* What an attempt has at each stage is what the code made of what it      *)
(* read: nothing of that changes while the attempt is active.              *)

BudgetTypeOK ==
  /\ question \in Sizes
  /\ earlier \in Seq(Texts)
  /\ memory # None => memory.size \in MemorySizes /\ memory.through \in Nat
  /\ chunks \in Seq(Texts)

BudgetInv ==
  /\ BudgetTypeOK
  /\ history = IF at = "starting" THEN History(0, << >>) ELSE LoadHistory
  /\ at \in {"retrieved", "context_ready"} => found = SimilaritySearch(K)
  /\ Assembled => Rendered(question, << >>) <= PromptLimit /\ context = Build

LEMMA SequencesUpTo ==
  ASSUME NEW n \in Nat, NEW S
  PROVE  UpTo(n, S) \subseteq Seq(S)
BY DEF UpTo

LEMMA InitBudgetInv == Init => BudgetInv
<1> SUFFICES ASSUME Init PROVE BudgetInv
  OBVIOUS
<1>1. MaxLength \in Nat
  BY BudgetAssumption
<1>2. earlier \in Seq(Texts)
  BY <1>1, SequencesUpTo DEF Init
<1>3. memory # None => memory.size \in MemorySizes /\ memory.through \in Nat
  BY <1>1 DEF Init
<1>4. question \in Sizes /\ chunks = << >> /\ at = "starting" /\ history = History(0, << >>)
  BY DEF Init
<1>5. chunks \in Seq(Texts)
  BY <1>4
<1> QED
  BY <1>2, <1>3, <1>4, <1>5 DEF BudgetInv, BudgetTypeOK, Assembled

LEMMA NextBudgetInv ==
  ASSUME BudgetInv, [Next]_vars
  PROVE  BudgetInv'
<1>1. earlier' = earlier /\ memory' = memory /\ question' = question
  BY DEF Next, Rewrite, Retrieve, Assemble, vars
<1>2. LoadHistory' = LoadHistory
  BY <1>1 DEF LoadHistory, Exchanges, Before
<1>3. CASE Rewrite
  <2>1. at' = "rewritten" /\ history' = LoadHistory /\ chunks' = chunks
    BY <1>3 DEF Rewrite
  <2>2. BudgetTypeOK'
    BY <1>1, <2>1 DEF BudgetInv, BudgetTypeOK
  <2> QED
    BY <1>2, <2>1, <2>2 DEF BudgetInv, Assembled
<1>4. CASE Retrieve
  <2>1. /\ at = "rewritten" /\ at' = "retrieved" /\ history' = history
        /\ found' = SimilaritySearch(K)'
    BY <1>4 DEF Retrieve
  <2>2. MaxChunks \in Nat /\ chunks' \in UpTo(MaxChunks, Texts)
    BY <1>4, BudgetAssumption DEF Retrieve
  <2>3. chunks' \in Seq(Texts)
    BY <2>2, SequencesUpTo
  <2>4. BudgetTypeOK'
    BY <1>1, <2>3 DEF BudgetInv, BudgetTypeOK
  <2> QED
    BY <1>2, <2>1, <2>4 DEF BudgetInv, Assembled
<1>5. CASE Assemble
  <2>1. /\ at = "retrieved" /\ chunks' = chunks /\ history' = history /\ found' = found
        /\ \/ /\ at' = "context_ready" /\ Rendered(question, << >>) <= PromptLimit
              /\ context' = Build
           \/ at' = "failed"
    BY <1>5 DEF Assemble
  <2>2. BudgetTypeOK'
    BY <1>1, <2>1 DEF BudgetInv, BudgetTypeOK
  <2>3. SimilaritySearch(K)' = SimilaritySearch(K)
    BY <2>1 DEF SimilaritySearch
  <2>4. Build' = Build
    BY <1>1, <2>1 DEF Build, FittingPassages
  <2> QED
    BY <1>1, <1>2, <2>1, <2>2, <2>3, <2>4 DEF BudgetInv, Assembled
<1>6. CASE UNCHANGED vars
  <2>1. /\ at' = at /\ chunks' = chunks /\ history' = history /\ found' = found
        /\ context' = context
    BY <1>6 DEF vars
  <2>2. BudgetTypeOK'
    BY <1>1, <2>1 DEF BudgetInv, BudgetTypeOK
  <2>3. SimilaritySearch(K)' = SimilaritySearch(K)
    BY <2>1 DEF SimilaritySearch
  <2>4. Build' = Build
    BY <1>1, <2>1 DEF Build, FittingPassages
  <2> QED
    BY <1>1, <1>2, <2>1, <2>2, <2>3, <2>4 DEF BudgetInv, Assembled
<1> QED
  BY <1>3, <1>4, <1>5, <1>6 DEF Next

(* The captured history, the passages and the prompt are those the code    *)
(* makes of the conversation and the chunks as they were read.             *)
THEOREM BudgetInvariance == Spec => []BudgetInv
<1>1. Init => BudgetInv
  BY InitBudgetInv
<1>2. BudgetInv /\ [Next]_vars => BudgetInv'
  BY NextBudgetInv
<1> QED
  BY <1>1, <1>2, PTL DEF Spec

-----------------------------------------------------------------------------
(* What retrieval found.                                                   *)

Searched == {c \in DOMAIN chunks : chunks[c] # None}

LEMMA FoundIs ==
  ASSUME BudgetTypeOK, found = SimilaritySearch(K)
  PROVE  /\ found \in Seq(Passage)
         /\ \A i \in DOMAIN found :
              /\ found[i].rank = i
              /\ \E c \in DOMAIN chunks :
                   chunks[c] = found[i].size
                     /\ Cardinality({d \in 1..c : chunks[d] # None}) = i
<1> DEFINE searched == Select(chunks, Searched)
           most == Min({K, Len(searched)})
           nearest == SubSeq(searched, 1, most)
<1>1. /\ searched \in Seq(Texts)
      /\ \A i \in DOMAIN searched :
           \E c \in DOMAIN chunks :
             c \in Searched /\ chunks[c] = searched[i] /\ Rank(Searched, c) = i
  BY SelectedAtTheirRank DEF BudgetTypeOK, Selected
<1>2. found = [i \in DOMAIN nearest |-> [rank |-> i, size |-> nearest[i]]]
  BY DEF SimilaritySearch, Searched
<1> HIDE DEF searched
<1>3. most \in Nat /\ most <= Len(searched)
  <2>1. \A a, b \in Nat : Min({a, b}) = IF a <= b THEN a ELSE b
    BY DEF Min
  <2> QED
    BY <1>1, <2>1, BudgetAssumption
<1> HIDE DEF most
<1>4. /\ nearest \in Seq(Texts) /\ DOMAIN nearest = 1..most
      /\ \A i \in 1..most : nearest[i] = searched[i] /\ i \in DOMAIN searched
  BY <1>1, <1>3
<1> HIDE DEF nearest
<1>5. ASSUME NEW i \in 1..most
      PROVE  /\ found[i] \in Passage /\ found[i].rank = i
             /\ \E c \in DOMAIN chunks :
                  chunks[c] = found[i].size
                    /\ Cardinality({d \in 1..c : chunks[d] # None}) = i
  <2>1. found[i] = [rank |-> i, size |-> searched[i]] /\ i \in Nat
    BY <1>2, <1>3, <1>4
  <2>2. PICK c \in DOMAIN chunks :
          c \in Searched /\ chunks[c] = searched[i] /\ Rank(Searched, c) = i
    BY <1>1, <1>4
  <2>3. chunks \in Seq(Texts) /\ c \in 1..Len(chunks)
    BY DEF BudgetTypeOK
  <2>4. {d \in 1..c : d \in Searched} = {d \in 1..c : chunks[d] # None}
    BY <2>3 DEF Searched
  <2>5. Cardinality({d \in 1..c : chunks[d] # None}) = i
    BY <2>2, <2>4 DEF Rank
  <2>6. searched[i] \in Texts /\ searched[i] # None
    BY <2>2, <2>3 DEF Searched
  <2>7. searched[i] \in Nat
    BY <2>6, BudgetAssumption DEF Texts
  <2>8. found[i] \in Passage /\ found[i].rank = i /\ found[i].size = searched[i]
    BY <2>1, <2>7 DEF Passage
  <2> QED
    BY <2>2, <2>5, <2>8
<1>6. DOMAIN found = 1..most
  BY <1>2, <1>4
<1>7. found \in [1..most -> Passage]
  BY <1>2, <1>5, <1>6
<1>8. found \in Seq(Passage)
  BY <1>3, <1>7
<1> QED
  BY <1>5, <1>6, <1>8

-----------------------------------------------------------------------------
(* What was asked.                                                         *)

LEMMA ExchangesSelected ==
  ASSUME BudgetTypeOK, NEW places, places \subseteq Answered
  PROVE  Select(Exchanges, places) \in Seq(Turn)
<1> DEFINE R == [at : Nat, size : Texts]
           rows == Select(Exchanges, places)
<1>1. earlier \in Seq(Texts) /\ Len(earlier) \in Nat /\ DOMAIN earlier = 1..Len(earlier)
  BY DEF BudgetTypeOK
<1>2. \A i \in 1..Len(earlier) : Exchanges[i] \in R /\ Exchanges[i].size = earlier[i]
  BY <1>1 DEF Exchanges, QuestionAt
<1>3. Exchanges \in [1..Len(earlier) -> R]
  BY <1>1, <1>2 DEF Exchanges
<1>4. Exchanges \in Seq(R) /\ DOMAIN Exchanges = 1..Len(earlier)
  <2> DEFINE last == Len(earlier)
  <2>1. last \in Nat /\ Exchanges \in [1..last -> R]
    BY <1>1, <1>3
  <2> HIDE DEF last, R
  <2>2. Exchanges \in Seq(R) /\ DOMAIN Exchanges = 1..last
    BY <2>1
  <2> QED
    BY <2>2 DEF last
<1> HIDE DEF R
<1>5. /\ rows \in Seq(R)
      /\ \A i \in DOMAIN rows :
           \E c \in DOMAIN Exchanges : c \in places /\ Exchanges[c] = rows[i]
  <2>1. Selected(rows, Exchanges, places, R)
    BY <1>4, SelectedAtTheirRank, Zenon
  <2> HIDE DEF rows
  <2> QED
    BY <2>1 DEF Selected
<1> HIDE DEF rows
<1>6. ASSUME NEW i \in DOMAIN rows
      PROVE  rows[i] \in Turn
  <2>1. PICK c \in 1..Len(earlier) : c \in places /\ Exchanges[c] = rows[i]
    BY <1>4, <1>5
  <2>2. earlier[c] \in Texts /\ earlier[c] # None
    BY <1>1, <2>1 DEF Answered
  <2>3. earlier[c] \in Nat
    BY <2>2, BudgetAssumption DEF Texts
  <2>4. rows[i] \in R /\ rows[i].size = earlier[c]
    BY <1>2, <2>1
  <2> QED
    BY <2>3, <2>4 DEF Turn, R
<1>7. rows \in [1..Len(rows) -> Turn] /\ Len(rows) \in Nat
  BY <1>5, <1>6
<1>8. rows \in Seq(Turn)
  BY <1>7
<1> QED
  BY <1>8 DEF rows

Told == IF history.memory = 0 THEN {}
        ELSE {i \in Answered : QuestionAt(i) <= memory.through}

LEMMA LoadedHistory ==
  ASSUME BudgetTypeOK, history = LoadHistory
  PROVE  /\ history.memory \in Nat /\ HistoryBudget - history.memory \in Nat
         /\ history.turns \in Seq(Turn)
         /\ history.memory # 0 => memory.through < Before
         /\ LET all == Select(Exchanges, Answered \ Told) IN
              /\ all \in Seq(Turn)
              /\ history.turns =
                   LongestSuffix(Newest(all, Min({MaxExchanges, Len(all)})),
                                 HistoryBudget - history.memory)
<1> DEFINE saved == IF memory = None \/ memory.through >= Before THEN 0 ELSE memory.size
           after == IF BudgetHistory(<< >>, saved, HistoryBudget).memory # 0
                    THEN memory.through ELSE 0
           places == {i \in DOMAIN earlier : earlier[i] # None /\ QuestionAt(i) > after}
           rows == Select(Exchanges, places)
           newest == Newest(rows, Min({MaxExchanges, Len(rows)}))
<1>1. history = BudgetHistory(newest, saved, HistoryBudget)
  BY Zenon DEF LoadHistory
<1>2. HistoryBudget \in Nat /\ MaxExchanges \in Nat /\ MemorySizes \subseteq Nat
  BY BudgetAssumption
<1>3. Before \in Nat
  BY DEF Before, BudgetTypeOK
<1>4. saved \in Nat /\ (saved # 0 => memory # None /\ memory.through < Before)
  <2>1. CASE memory = None \/ memory.through >= Before
    BY <2>1
  <2>2. CASE memory # None /\ ~(memory.through >= Before)
    <3>1. memory.size \in Nat /\ memory.through \in Nat /\ saved = memory.size
      BY <1>2, <2>2 DEF BudgetTypeOK
    <3> QED
      BY <1>3, <2>2, <3>1
  <2> QED
    BY <2>1, <2>2
<1> HIDE DEF saved
<1>5. places \subseteq Answered
  BY DEF Answered
<1>6. rows \in Seq(Turn)
  BY <1>5, ExchangesSelected
<1>7. newest \in Seq(Turn)
  <2>1. Min({MaxExchanges, Len(rows)}) \in 0..Len(rows)
    <3>1. \A a, b \in Nat : Min({a, b}) = IF a <= b THEN a ELSE b
      BY DEF Min
    <3>2. Len(rows) \in Nat
      BY <1>6
    <3> HIDE DEF rows
    <3> QED
      BY <1>2, <3>1, <3>2
  <2> HIDE DEF rows
  <2> QED
    BY <1>6, <2>1, NewestIs
<1> HIDE DEF newest
<1>8. Budgeted(history, newest, saved, HistoryBudget)
  BY <1>1, <1>2, <1>4, <1>7, BudgetHistoryIs, Zenon
<1>9. BudgetHistory(<< >>, saved, HistoryBudget).memory = history.memory
  <2> DEFINE none == << >>
  <2>1. none \in Seq(Turn)
    OBVIOUS
  <2> HIDE DEF none
  <2>2. Budgeted(BudgetHistory(none, saved, HistoryBudget), none, saved, HistoryBudget)
    BY <1>2, <1>4, <2>1, BudgetHistoryIs, Zenon
  <2>3. BudgetHistory(none, saved, HistoryBudget).memory = history.memory
    BY <1>8, <2>2 DEF Budgeted
  <2> QED
    BY <2>3 DEF none
<1>10. after = IF history.memory # 0 THEN memory.through ELSE 0
  BY <1>9
<1> HIDE DEF after
<1>11. history.memory # 0 => memory # None /\ memory.through < Before /\ memory.through \in Nat
  <2>1. history.memory # 0 => saved # 0
    BY <1>2, <1>4, <1>8 DEF Budgeted, MemoryKept
  <2> QED
    BY <1>4, <2>1 DEF BudgetTypeOK
<1>12. places = Answered \ Told
  <2>1. \A i \in DOMAIN earlier : QuestionAt(i) \in Nat /\ QuestionAt(i) > 0
    BY DEF QuestionAt, BudgetTypeOK
  <2>2. CASE history.memory = 0
    BY <1>10, <2>1, <2>2 DEF Told, Answered
  <2>3. CASE history.memory # 0
    <3>1. after = memory.through /\ memory.through \in Nat
      BY <1>10, <1>11, <2>3
    <3> QED
      BY <2>1, <2>3, <3>1 DEF Told, Answered
  <2> QED
    BY <2>2, <2>3
<1>13. rows = Select(Exchanges, Answered \ Told)
  BY <1>12
<1> HIDE DEF rows
<1> QED
  BY <1>6, <1>8, <1>11, <1>13 DEF newest, Budgeted

(* What the prompt is made of, once there is one.                          *)
LEMMA PromptParts ==
  ASSUME BudgetInv, Assembled
  PROVE  LET passages == FittingPassages(question)
             room == RoomForHistory(question, passages) IN
           /\ KeptOf(Len(found), passages, question)
           /\ Rendered(question, passages) \in Nat
           /\ Rendered(question, passages) <= PromptLimit
           /\ room \in Nat /\ room = PromptLimit - Rendered(question, passages)
           /\ context.history = BudgetHistory(history.turns, history.memory, room)
           /\ context.sources = passages
           /\ context.tokens = Rendered(question, passages) + HistoryCost(context.history)
<1> DEFINE passages == FittingPassages(question)
           rendered == Rendered(question, passages)
           room == RoomForHistory(question, passages)
<1>1. /\ found = SimilaritySearch(K) /\ context = Build /\ BudgetTypeOK
      /\ Rendered(question, << >>) <= PromptLimit
  BY DEF BudgetInv, Assembled
<1>2. found \in Seq(Passage) /\ \A i \in DOMAIN found : found[i].rank = i
  BY <1>1, FoundIs
<1>3. /\ question \in Nat /\ Instructions \in Nat /\ NoEvidence \in Nat
      /\ PromptLimit \in Nat
  BY <1>1, BudgetAssumption DEF BudgetTypeOK
<1>4. KeptOf(Len(found), passages, question)
  BY <1>2, <1>3, PassagesKept
<1>5. /\ context.history = BudgetHistory(history.turns, history.memory, room)
      /\ context.sources = passages
      /\ context.tokens = rendered + HistoryCost(context.history)
  BY <1>1 DEF Build
<1> HIDE DEF passages
<1>6. rendered \in Nat /\ rendered <= PromptLimit
  <2>1. \A r \in Passage : r.size \in Nat
    BY DEF Passage
  <2>2. passages \in Seq(Passage) /\ Cost(passages) \in Nat
    BY <1>4, <2>1, CostIsNumber DEF KeptOf
  <2>3. CASE passages = << >>
    <3>1. rendered = Rendered(question, << >>)
      BY <2>3
    <3>2. Rendered(question, << >>) = Instructions + question + NoEvidence
      BY DEF Rendered
    <3> QED
      BY <1>1, <1>3, <3>1, <3>2
  <2>4. CASE passages # << >>
    <3>1. rendered = Instructions + question + Cost(passages)
      BY <2>4 DEF Rendered
    <3> QED
      BY <1>3, <1>4, <2>2, <2>4, <3>1 DEF KeptOf
  <2> QED
    BY <2>3, <2>4
<1>7. room = PromptLimit - rendered
  BY DEF RoomForHistory
<1> HIDE DEF rendered, room
<1>8. room \in Nat
  BY <1>3, <1>6, <1>7
<1> QED
  BY <1>4, <1>5, <1>6, <1>7, <1>8 DEF passages, rendered, room

(* The prompt leaves the whole answer allowance of the window free, and    *)
(* the estimate saved with it is its size.                                 *)
THEOREM PromptFitsHolds == Spec => []PromptFits
<1>1. ASSUME BudgetInv, Assembled
      PROVE  PromptFits
  <2> DEFINE passages == FittingPassages(question)
             rendered == Rendered(question, passages)
             room == RoomForHistory(question, passages)
             h == context.history
  <2>1. /\ rendered \in Nat /\ rendered <= PromptLimit
        /\ room \in Nat /\ room = PromptLimit - rendered
        /\ h = BudgetHistory(history.turns, history.memory, room)
        /\ context.sources = passages
        /\ context.tokens = rendered + HistoryCost(h)
    BY <1>1, PromptParts
  <2>2. history = LoadHistory /\ BudgetTypeOK
    BY <1>1 DEF BudgetInv, Assembled
  <2>3. history.turns \in Seq(Turn) /\ history.memory \in Nat
    BY <2>2, LoadedHistory
  <2> HIDE DEF room
  <2>4. Budgeted(h, history.turns, history.memory, room)
    BY <2>1, <2>3, BudgetHistoryIs, Zenon
  <2>5. rendered = Instructions + question
                     + (IF context.sources = << >> THEN NoEvidence ELSE Cost(context.sources))
    BY <2>1 DEF Rendered
  <2> HIDE DEF rendered, h
  <2>6. PromptLimit \in Nat
    BY BudgetAssumption
  <2>7. rendered + HistoryCost(h) <= PromptLimit
    BY <2>1, <2>4, <2>6 DEF Budgeted
  <2> QED
    BY <2>1, <2>5, <2>7 DEF PromptFits, h
<1>2. BudgetInv => PromptFits
  BY <1>1 DEF PromptFits
<1> QED
  BY <1>2, BudgetInvariance, PTL

(* A passage found and left out would not have fitted beside those kept,   *)
(* which are in the order they were found and are the ones marked.         *)
THEOREM EvidenceIsMaximalHolds == Spec => []EvidenceIsMaximal
<1>1. ASSUME BudgetInv, Assembled
      PROVE  EvidenceIsMaximal
  <2> DEFINE kept == {context.sources[i].rank : i \in DOMAIN context.sources}
  <2>1. KeptOf(Len(found), context.sources, question) /\ context.sources = FittingPassages(question)
    BY <1>1, PromptParts
  <2>2. found = SimilaritySearch(K) /\ BudgetTypeOK /\ context = Build
    BY <1>1 DEF BudgetInv, Assembled
  <2>3. /\ found \in Seq(Passage)
        /\ \A i \in DOMAIN found :
             \E c \in DOMAIN chunks :
               chunks[c] = found[i].size
                 /\ Cardinality({d \in 1..c : chunks[d] # None}) = i
    BY <2>2, FoundIs
  <2>4. kept = Ranks(context.sources) /\ DOMAIN found = 1..Len(found)
    BY <2>3 DEF Ranks
  <2>5. context.candidates =
          [i \in DOMAIN found |->
             [rank |-> i, selected |-> \E j \in DOMAIN FittingPassages(question) :
                                         FittingPassages(question)[j].rank = i]]
    BY <2>2 DEF Build
  <2>6. \A i \in DOMAIN found : context.candidates[i].selected <=> i \in kept
    <3> SUFFICES ASSUME NEW i \in DOMAIN found
                 PROVE  context.candidates[i].selected <=> i \in kept
      OBVIOUS
    <3> DEFINE selected == \E j \in DOMAIN context.sources : context.sources[j].rank = i
    <3>1. context.candidates[i] = [rank |-> i, selected |-> selected]
      BY <2>1, <2>5
    <3>2. selected <=> i \in kept
      BY Zenon
    <3> HIDE DEF selected
    <3>3. context.candidates[i].selected = selected
      BY <3>1
    <3> QED
      BY <3>2, <3>3, Zenon
  <2>7. \A i \in DOMAIN found \ kept :
          Instructions + question + Cost(context.sources) + found[i].size > PromptLimit
    BY <2>1, <2>4 DEF KeptOf
  <2>8. \A i, j \in DOMAIN context.sources :
          i < j => context.sources[i].rank < context.sources[j].rank
    BY <2>1 DEF KeptOf
  <2> HIDE DEF kept
  <2>9. \A i \in DOMAIN found :
          /\ context.candidates[i].selected <=> i \in kept
          /\ \E c \in DOMAIN chunks :
               chunks[c] = found[i].size
                 /\ Cardinality({d \in 1..c : chunks[d] # None}) = i
    BY <2>3, <2>6, Zenon
  <2> QED
    BY <2>7, <2>8, <2>9, Zenon DEF EvidenceIsMaximal, kept
<1>2. BudgetInv => EvidenceIsMaximal
  BY <1>1 DEF EvidenceIsMaximal
<1> QED
  BY <1>2, BudgetInvariance, PTL

(* Both budgets keep the longest recent part of the conversation that      *)
(* fits, with every answered exchange told once.                           *)
THEOREM HistoryIsLongestSuffixHolds == Spec => []HistoryIsLongestSuffix
<1>1. ASSUME BudgetInv
      PROVE  HistoryIsLongestSuffix
  <2> DEFINE all == Select(Exchanges, Answered \ Told)
             recent == LongestSuffix(all, HistoryBudget - history.memory)
             asked == Newest(recent, Min({MaxExchanges, Len(recent)}))
  <2>1. BudgetTypeOK /\ MaxExchanges \in Nat
    BY <1>1, BudgetAssumption DEF BudgetInv
  <2>2. CASE at = "starting"
    <3>1. history = History(0, << >>) /\ ~Assembled
      BY <1>1, <2>2 DEF BudgetInv, Assembled
    <3>2. history.memory = 0
      BY <3>1 DEF History
    <3> QED
      BY <2>2, <3>1, <3>2 DEF HistoryIsLongestSuffix
  <2>3. CASE at # "starting"
    <3>1. history = LoadHistory
      BY <1>1, <2>3 DEF BudgetInv
    <3>2. /\ history.memory \in Nat /\ HistoryBudget - history.memory \in Nat
          /\ history.turns \in Seq(Turn) /\ all \in Seq(Turn)
          /\ history.memory # 0 => memory.through < Before
          /\ history.turns = LongestSuffix(Newest(all, Min({MaxExchanges, Len(all)})),
                                           HistoryBudget - history.memory)
      BY <2>1, <3>1, LoadedHistory
    <3>3. history.turns = asked
      <4> HIDE DEF all
      <4> QED
        BY <2>1, <3>2, LongestOfTheNewest
    <3>4. ASSUME Assembled
          PROVE  context.history.turns =
                   LongestSuffix(history.turns,
                                 RoomForHistory(question, context.sources)
                                   - context.history.memory)
      <4> DEFINE room == RoomForHistory(question, FittingPassages(question))
      <4>1. /\ room \in Nat /\ context.sources = FittingPassages(question)
            /\ context.history = BudgetHistory(history.turns, history.memory, room)
        BY <1>1, <3>4, PromptParts
      <4>2. room = RoomForHistory(question, context.sources)
        BY <4>1
      <4> HIDE DEF room
      <4>3. Budgeted(context.history, history.turns, history.memory, room)
        BY <3>2, <4>1, BudgetHistoryIs, Zenon
      <4> QED
        BY <4>2, <4>3 DEF Budgeted
    <3> QED
      BY <3>2, <3>3, <3>4 DEF HistoryIsLongestSuffix, Told
  <2> QED
    BY <2>2, <2>3
<1>2. BudgetInv => HistoryIsLongestSuffix
  BY <1>1
<1> QED
  BY <1>2, BudgetInvariance, PTL
=============================================================================
