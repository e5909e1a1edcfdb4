--------------------------- MODULE DataInduction ---------------------------
(***************************************************************************)
(* Induction over data, for the proofs about folds, flattened sequences    *)
(* and other recursive functions.  The induction theorems of the library   *)
(* take an operator, which the provers cannot instantiate; here induction  *)
(* is stated of a set, and so is what a recursion needs to be defined.     *)
(***************************************************************************)
EXTENDS Integers, Sequences, FiniteSets, FiniteSetsExt, SequencesExt, Comprehension,
        FiniteSetTheorems, WellFoundedInduction, TLAPS

LEMMA LessIsWellFounded == IsWellFoundedOn({p \in Nat \X Nat : p[1] < p[2]}, Nat)
  BY NatLessThanWellFounded DEF OpToRel

LEMMA MinIsLeast ==
  ASSUME NEW S \in SUBSET Nat, S # {}
  PROVE  Min(S) \in S /\ \A x \in S : Min(S) <= x
<1> DEFINE R == {p \in Nat \X Nat : p[1] < p[2]}
<1>1. IsWellFoundedOn(R, Nat)
  BY LessIsWellFounded
<1>2. \A m, n \in Nat : m < n => <<m, n>> \in R
  OBVIOUS
<1> HIDE DEF R
<1>3. PICK x \in S : \A y \in S : <<y, x>> \notin R
  BY <1>1, WFMin
<1>4. ASSUME NEW y \in S PROVE x <= y
  <2>1. x \in Nat /\ y \in Nat /\ <<y, x>> \notin R
    BY <1>3
  <2>2. ~(y < x)
    BY <1>2, <2>1
  <2> QED
    BY <2>1, <2>2
<1> QED
  BY <1>4 DEF Min

\* A set that holds 0 and, with a number, the next holds every number.
LEMMA SetInduction ==
  ASSUME NEW S, 0 \in S, \A n \in Nat : n \in S => n + 1 \in S
  PROVE  Nat \subseteq S
<1> SUFFICES ASSUME Nat \ S # {} PROVE FALSE
  OBVIOUS
<1> DEFINE R == {p \in Nat \X Nat : p[1] < p[2]}
<1>1. IsWellFoundedOn(R, Nat)
  BY LessIsWellFounded
<1>2. \A m, n \in Nat : m < n => <<m, n>> \in R
  OBVIOUS
<1> HIDE DEF R
<1>3. PICK x \in Nat \ S : \A y \in Nat \ S : <<y, x>> \notin R
  BY <1>1, WFMin
<1>4. x # 0
  BY <1>3
<1>5. x - 1 \in Nat /\ x - 1 < x
  BY <1>4
<1>6. x - 1 \in S
  BY <1>2, <1>3, <1>5
<1>7. (x - 1) + 1 \in S
  BY <1>5, <1>6
<1> QED
  BY <1>7

\* Induction over the rank of what a set holds.
LEMMA RankInduction ==
  ASSUME NEW D, NEW rank \in [D -> Nat], NEW Q,
         ASSUME NEW d \in D, \A e \in D : rank[e] < rank[d] => e \in Q PROVE d \in Q
  PROVE  D \subseteq Q
<1> DEFINE Good == {k \in Nat : \A d \in D : rank[d] < k => d \in Q}
<1>1. 0 \in Good
  OBVIOUS
<1>2. ASSUME NEW k \in Nat, k \in Good PROVE k + 1 \in Good
  <2>1. ASSUME NEW d \in D, rank[d] < k + 1 PROVE d \in Q
    <3>1. \A e \in D : rank[e] < rank[d] => e \in Q
      <4> SUFFICES ASSUME NEW e \in D, rank[e] < rank[d] PROVE e \in Q
        OBVIOUS
      <4>1. rank[e] \in Nat /\ rank[d] \in Nat
        OBVIOUS
      <4>2. rank[e] < k
        BY <2>1, <4>1
      <4> QED
        BY <1>2, <4>2
    <3> QED
      BY <3>1
  <2> QED
    BY <2>1
<1>3. Nat \subseteq Good
  <2> HIDE DEF Good
  <2> QED
    BY <1>1, <1>2, SetInduction
<1>4. ASSUME NEW d \in D PROVE d \in Q
  <2>1. rank[d] + 1 \in Good
    BY <1>3
  <2> QED
    BY <2>1
<1> QED
  BY <1>4

(***************************************************************************)
(* Recursive functions.  f is start where the recursion ends and elsewhere *)
(* one step from its value at what is next, whose rank is lower.           *)
(***************************************************************************)
Recursion(f, D, ends, start, next, step) ==
  \A d \in D : f[d] = IF d \in ends THEN start[d] ELSE step[<<d, f[next[d]]>>]

Descends(next, rank, D, ends) ==
  \A d \in D : d \notin ends => next[d] \in D /\ rank[next[d]] < rank[d]

\* Where one step leads from V to V, the recursion has a solution.
LEMMA RecursionDefined ==
  ASSUME NEW D, NEW n \in Nat, NEW rank \in [D -> 0 .. n], NEW ends, NEW next,
         Descends(next, rank, D, ends),
         NEW V, NEW start \in [D -> V], NEW step \in [D \X V -> V]
  PROVE  \E f \in [D -> V] : Recursion(f, D, ends, start, next, step)
<1> DEFINE Upto(k) == {d \in D : rank[d] <= k}
           Solves(f, k) == \A d \in Upto(k) :
             f[d] = IF d \in ends THEN start[d] ELSE step[<<d, f[next[d]]>>]
           Good == {k \in Nat : \E f \in [Upto(k) -> V] : Solves(f, k)}
<1>1. 0 \in Good
  <2> DEFINE f == [d \in Upto(0) |-> start[d]]
  <2>1. \A d \in Upto(0) : d \in ends
    BY DEF Descends
  <2>2. f \in [Upto(0) -> V] /\ Solves(f, 0)
    BY <2>1
  <2> QED
    BY <2>2
<1>2. ASSUME NEW k \in Nat, k \in Good PROVE k + 1 \in Good
  <2>1. PICK f \in [Upto(k) -> V] : Solves(f, k)
    BY <1>2
  <2> DEFINE g == [d \in Upto(k + 1) |->
                     IF d \in ends THEN start[d] ELSE step[<<d, f[next[d]]>>]]
  <2>2. ASSUME NEW d \in Upto(k + 1), d \notin ends PROVE next[d] \in Upto(k)
    <3>1. next[d] \in D /\ rank[next[d]] < rank[d]
      BY <2>2 DEF Descends
    <3> QED
      BY <3>1
  <2>3. g \in [Upto(k + 1) -> V]
    <3> SUFFICES ASSUME NEW d \in Upto(k + 1), d \notin ends
                 PROVE  step[<<d, f[next[d]]>>] \in V
      OBVIOUS
    <3>1. f[next[d]] \in V
      BY <2>1, <2>2
    <3> QED
      BY <3>1
  <2>4. \A d \in Upto(k) : d \in Upto(k + 1) /\ g[d] = f[d]
    BY <2>1
  <2>5. Solves(g, k + 1)
    BY <2>2, <2>4
  <2> HIDE DEF g, Solves, Upto
  <2>6. \E h \in [Upto(k + 1) -> V] : Solves(h, k + 1)
    BY <2>3, <2>5
  <2> QED
    BY <2>6
<1>3. Nat \subseteq Good
  <2> HIDE DEF Good
  <2> QED
    BY <1>1, <1>2, SetInduction
<1>4. n \in Good
  BY <1>3
<1>5. Upto(n) = D
  OBVIOUS
<1> QED
  BY <1>4, <1>5 DEF Recursion

\* A recursion that splits in two: f is start where it ends, and elsewhere joins
\* its values at the left and at the right, whose ranks are lower.
Splits(f, D, ends, start, left, right, join) ==
  \A d \in D : f[d] = IF d \in ends THEN start[d] ELSE join[<<f[left[d]], f[right[d]]>>]

LEMMA SplitDefined ==
  ASSUME NEW D, NEW n \in Nat, NEW rank \in [D -> 0 .. n], NEW ends, NEW left, NEW right,
         Descends(left, rank, D, ends), Descends(right, rank, D, ends),
         NEW V, NEW start \in [D -> V], NEW join \in [V \X V -> V]
  PROVE  \E f \in [D -> V] : Splits(f, D, ends, start, left, right, join)
<1> DEFINE Upto(k) == {d \in D : rank[d] <= k}
           Solves(f, k) == \A d \in Upto(k) :
             f[d] = IF d \in ends THEN start[d] ELSE join[<<f[left[d]], f[right[d]]>>]
           Good == {k \in Nat : \E f \in [Upto(k) -> V] : Solves(f, k)}
<1>1. 0 \in Good
  <2> DEFINE f == [d \in Upto(0) |-> start[d]]
  <2>1. \A d \in Upto(0) : d \in ends
    BY DEF Descends
  <2>2. f \in [Upto(0) -> V] /\ Solves(f, 0)
    BY <2>1
  <2> QED
    BY <2>2
<1>2. ASSUME NEW k \in Nat, k \in Good PROVE k + 1 \in Good
  <2>1. PICK f \in [Upto(k) -> V] : Solves(f, k)
    BY <1>2
  <2> DEFINE g == [d \in Upto(k + 1) |->
                     IF d \in ends THEN start[d] ELSE join[<<f[left[d]], f[right[d]]>>]]
  <2>2. ASSUME NEW d \in Upto(k + 1), d \notin ends
        PROVE  left[d] \in Upto(k) /\ right[d] \in Upto(k)
    <3>1. /\ left[d] \in D /\ rank[left[d]] < rank[d]
          /\ right[d] \in D /\ rank[right[d]] < rank[d]
      BY <2>2 DEF Descends
    <3> QED
      BY <3>1
  <2>3. g \in [Upto(k + 1) -> V]
    <3> SUFFICES ASSUME NEW d \in Upto(k + 1), d \notin ends
                 PROVE  join[<<f[left[d]], f[right[d]]>>] \in V
      OBVIOUS
    <3>1. f[left[d]] \in V /\ f[right[d]] \in V
      BY <2>1, <2>2
    <3> QED
      BY <3>1
  <2>4. ASSUME NEW d \in Upto(k) PROVE d \in Upto(k + 1) /\ g[d] = f[d]
    <3>1. d \in D /\ rank[d] \in 0 .. n /\ rank[d] <= k
      OBVIOUS
    <3>2. d \in Upto(k + 1)
      BY <3>1
    <3>3. f[d] = IF d \in ends THEN start[d] ELSE join[<<f[left[d]], f[right[d]]>>]
      BY <2>1
    <3> HIDE DEF Upto
    <3> QED
      BY <3>2, <3>3
  <2>5. Solves(g, k + 1)
    <3>1. ASSUME NEW d \in Upto(k + 1), d \notin ends
          PROVE  g[d] = join[<<g[left[d]], g[right[d]]>>]
      <4>1. g[left[d]] = f[left[d]] /\ g[right[d]] = f[right[d]]
        BY <2>2, <2>4, <3>1
      <4>2. g[d] = join[<<f[left[d]], f[right[d]]>>]
        BY <3>1
      <4> HIDE DEF g
      <4> QED
        BY <4>1, <4>2
    <3>2. ASSUME NEW d \in Upto(k + 1), d \in ends PROVE g[d] = start[d]
      BY <3>2
    <3> HIDE DEF g, Upto
    <3> QED
      BY <3>1, <3>2
  <2> HIDE DEF g, Solves, Upto
  <2>6. \E h \in [Upto(k + 1) -> V] : Solves(h, k + 1)
    BY <2>3, <2>5
  <2> QED
    BY <2>6
<1>3. Nat \subseteq Good
  <2> HIDE DEF Good
  <2> QED
    BY <1>1, <1>2, SetInduction
<1>4. n \in Good
  BY <1>3
<1>5. Upto(n) = D
  OBVIOUS
<1> QED
  BY <1>4, <1>5 DEF Splits

(***************************************************************************)
(* Folds over finite sets.  pick chooses an element of every subset; f     *)
(* folds step over the subsets, taking away what pick chooses.             *)
(***************************************************************************)
Picks(pick, S) == \A s \in SUBSET S : s # {} => pick[s] \in s

Folds(f, S, base, pick, step) ==
  \A s \in SUBSET S : f[s] = IF s = {} THEN base ELSE step[<<pick[s], f[s \ {pick[s]}]>>]

LEMMA SubsetRank ==
  ASSUME NEW S, IsFiniteSet(S), NEW pick, Picks(pick, S)
  PROVE  \E n \in Nat : \E rank \in [SUBSET S -> 0 .. n] : \A s \in SUBSET S : s # {} =>
           pick[s] \in s /\ s \ {pick[s]} \in SUBSET S /\ rank[s \ {pick[s]}] < rank[s]
<1> DEFINE n == Cardinality(S)
           rank == [s \in SUBSET S |-> Cardinality(s)]
<1>1. n \in Nat
  BY FS_CardinalityType
<1>2. \A s \in SUBSET S : IsFiniteSet(s) /\ Cardinality(s) \in Nat /\ Cardinality(s) <= n
  BY FS_Subset, FS_CardinalityType
<1>3. rank \in [SUBSET S -> 0 .. n]
  BY <1>1, <1>2
<1>4. ASSUME NEW s \in SUBSET S, s # {}
      PROVE  pick[s] \in s /\ s \ {pick[s]} \in SUBSET S /\ rank[s \ {pick[s]}] < rank[s]
  <2>1. pick[s] \in s
    BY <1>4 DEF Picks
  <2>2. Cardinality(s \ {pick[s]}) = Cardinality(s) - 1
    BY <1>2, <2>1, FS_RemoveElement
  <2> QED
    BY <1>2, <2>1, <2>2
<1> HIDE DEF rank, n
<1> QED
  BY <1>1, <1>3, <1>4

\* Where one step leads from V to V, the fold over a finite set is a function.
LEMMA FoldDefined ==
  ASSUME NEW S, IsFiniteSet(S), NEW V, NEW base \in V,
         NEW pick, Picks(pick, S), NEW step \in [S \X V -> V]
  PROVE  \E f \in [SUBSET S -> V] : Folds(f, S, base, pick, step)
<1> DEFINE D == SUBSET S
           start == [s \in D |-> base]
           next == [s \in D |-> s \ {pick[s]}]
           down == [p \in D \X V |-> IF p[1] = {} THEN base ELSE step[<<pick[p[1]], p[2]>>]]
<1>0. PICK n \in Nat : \E rank \in [D -> 0 .. n] : \A s \in D : s # {} =>
        pick[s] \in s /\ s \ {pick[s]} \in D /\ rank[s \ {pick[s]}] < rank[s]
  BY SubsetRank
<1>1. PICK rank \in [D -> 0 .. n] : \A s \in D : s # {} =>
        pick[s] \in s /\ s \ {pick[s]} \in D /\ rank[s \ {pick[s]}] < rank[s]
  BY <1>0
<1>2. Descends(next, rank, D, {{}})
  BY <1>1 DEF Descends
<1>3. start \in [D -> V]
  OBVIOUS
<1>4. down \in [D \X V -> V]
  BY <1>1
<1>5. PICK f \in [D -> V] : Recursion(f, D, {{}}, start, next, down)
  <2> HIDE DEF D, start, next, down
  <2> QED
    BY <1>2, <1>3, <1>4, RecursionDefined
<1>6. Folds(f, S, base, pick, step)
  <2> SUFFICES ASSUME NEW s \in D
               PROVE  f[s] = IF s = {} THEN base ELSE step[<<pick[s], f[s \ {pick[s]}]>>]
    BY DEF Folds
  <2>1. CASE s = {}
    BY <1>5, <2>1 DEF Recursion
  <2>2. CASE s # {}
    <3>1. f[s] = down[<<s, f[s \ {pick[s]}]>>]
      BY <1>5, <2>2 DEF Recursion
    <3>2. f[s \ {pick[s]}] \in V
      BY <1>1, <2>2
    <3> QED
      BY <2>2, <3>1, <3>2
  <2> QED
    BY <2>1, <2>2
<1> QED
  BY <1>6

\* A set that holds the empty set and, with a subset short of the element picked
\* from it, the subset itself holds every subset of a finite set.
LEMMA SubsetInduction ==
  ASSUME NEW S, IsFiniteSet(S), NEW pick, Picks(pick, S), NEW Q, {} \in Q,
         \A s \in SUBSET S : s # {} /\ s \ {pick[s]} \in Q => s \in Q
  PROVE  SUBSET S \subseteq Q
<1>0. PICK n \in Nat : \E rank \in [SUBSET S -> 0 .. n] : \A s \in SUBSET S : s # {} =>
        pick[s] \in s /\ s \ {pick[s]} \in SUBSET S /\ rank[s \ {pick[s]}] < rank[s]
  BY SubsetRank
<1>1. PICK rank \in [SUBSET S -> 0 .. n] : \A s \in SUBSET S : s # {} =>
        pick[s] \in s /\ s \ {pick[s]} \in SUBSET S /\ rank[s \ {pick[s]}] < rank[s]
  BY <1>0
<1>2. rank \in [SUBSET S -> Nat]
  OBVIOUS
<1>3. ASSUME NEW s \in SUBSET S, \A e \in SUBSET S : rank[e] < rank[s] => e \in Q
      PROVE  s \in Q
  <2>1. CASE s = {}
    BY <2>1
  <2>2. CASE s # {}
    <3>1. s \ {pick[s]} \in Q
      BY <1>1, <1>3, <2>2
    <3> QED
      BY <2>2, <3>1
  <2> QED
    BY <2>1, <2>2
<1> DEFINE D == SUBSET S
<1>4. D \subseteq Q
  <2>1. rank \in [D -> Nat]
    BY <1>2
  <2>2. ASSUME NEW s \in D, \A e \in D : rank[e] < rank[s] => e \in Q PROVE s \in Q
    BY <1>3, <2>2
  <2> HIDE DEF D
  <2> QED
    BY <2>1, <2>2, RankInduction
<1> QED
  BY <1>4

\* A set that holds 1 and, with a number below n, the next holds 1 .. n.
LEMMA IntervalInduction ==
  ASSUME NEW n \in Nat, NEW Q, 1 \in Q, \A k \in 1 .. n - 1 : k \in Q => k + 1 \in Q
  PROVE  1 .. n \subseteq Q
<1> DEFINE S == {k \in Nat : k + 1 \in 1 .. n => k + 1 \in Q}
<1>1. 0 \in S
  OBVIOUS
<1>2. ASSUME NEW k \in Nat, k \in S PROVE k + 1 \in S
  <2>1. CASE k + 2 \in 1 .. n
    <3>1. k + 1 \in 1 .. n - 1
      BY <2>1
    <3>2. k + 1 \in Q
      BY <1>2, <3>1
    <3>3. (k + 1) + 1 \in Q
      BY <3>1, <3>2
    <3> QED
      BY <3>3
  <2>2. CASE k + 2 \notin 1 .. n
    BY <2>2
  <2> QED
    BY <2>1, <2>2
<1>3. Nat \subseteq S
  <2> HIDE DEF S
  <2> QED
    BY <1>1, <1>2, SetInduction
<1>4. ASSUME NEW k \in 1 .. n PROVE k \in Q
  <2>1. k - 1 \in S
    BY <1>3
  <2> QED
    BY <2>1
<1> QED
  BY <1>4

(***************************************************************************)
(* FlattenSeq.                                                             *)
(***************************************************************************)
LEMMA ConcatElements ==
  ASSUME NEW V, NEW s \in Seq(V), NEW t \in Seq(V)
  PROVE  /\ s \o t \in Seq(V) /\ Len(s \o t) = Len(s) + Len(t)
         /\ \A k \in 1 .. Len(s) : k \in 1 .. Len(s \o t) /\ (s \o t)[k] = s[k]
         /\ \A k \in 1 .. Len(t) :
              Len(s) + k \in 1 .. Len(s \o t) /\ (s \o t)[Len(s) + k] = t[k]
  OBVIOUS

\* The whole u ends with t, after s.
ClosesWith(s, t, u) ==
  \A k \in 1 .. Len(t) : Len(s) + k \in 1 .. Len(u) /\ u[Len(s) + k] = t[k]

LEMMA ConcatEnd ==
  ASSUME NEW V, NEW s \in Seq(V), NEW t \in Seq(V)
  PROVE  ClosesWith(s, t, s \o t)
BY ConcatElements DEF ClosesWith

\* The concatenation of the parts up to k, for each k.
Joins(f, part, n) ==
  f[1] = part[1] /\ \A k \in 1 .. n - 1 : f[k + 1] = f[k] \o part[k + 1]

JoinsBy(f, part, n) ==
  f = [k \in 1 .. n |-> IF k = 1 THEN part[k] ELSE f[k - 1] \o part[k]]

\* Where each part begins in the whole.
Offsets(first, part, n) ==
  first[1] = 1 /\ \A k \in 1 .. n : first[k + 1] = first[k] + Len(part[k])

LEMMA JoinsDefined ==
  ASSUME NEW V, NEW n \in Nat \ {0}, NEW part \in [1 .. n -> Seq(V)]
  PROVE  \E f \in [1 .. n -> Seq(V)] : JoinsBy(f, part, n)
<1> DEFINE D == 1 .. n
           W == Seq(V)
           next == [k \in D |-> k - 1]
           rank == [k \in D |-> k]
           step == [p \in D \X W |-> p[2] \o part[p[1]]]
<1>1. Descends(next, rank, D, {1})
  BY DEF Descends
<1>2. step \in [D \X W -> W]
  <2> SUFFICES ASSUME NEW k \in D, NEW w \in W PROVE w \o part[k] \in W
    OBVIOUS
  <2>1. part[k] \in W
    OBVIOUS
  <2> QED
    BY <2>1, ConcatElements
<1>3. rank \in [D -> 0 .. n] /\ part \in [D -> W] /\ n \in Nat
  OBVIOUS
<1>4. PICK f \in [D -> W] : Recursion(f, D, {1}, part, next, step)
  <2> HIDE DEF D, W, next, rank, step
  <2> QED
    BY <1>1, <1>2, <1>3, RecursionDefined
<1>5. ASSUME NEW k \in D, k # 1 PROVE f[k] = f[k - 1] \o part[k]
  <2>1. k - 1 \in D
    BY <1>5
  <2>2. f[k] = step[<<k, f[k - 1]>>]
    BY <1>4, <1>5 DEF Recursion
  <2>3. f[k - 1] \in W
    BY <1>4, <2>1
  <2> HIDE DEF D, W
  <2> QED
    BY <2>2, <2>3
<1>6. f[1] = part[1]
  <2>1. 1 \in D
    OBVIOUS
  <2> HIDE DEF D
  <2> QED
    BY <1>4, <2>1 DEF Recursion
<1>7. f = [k \in D |-> IF k = 1 THEN part[k] ELSE f[k - 1] \o part[k]]
  <2> HIDE DEF D, W
  <2> QED
    BY <1>4, <1>5, <1>6
<1> QED
  BY <1>4, <1>7 DEF JoinsBy

LEMMA JoinsTyped ==
  ASSUME NEW V, NEW n \in Nat \ {0}, NEW part \in [1 .. n -> Seq(V)], NEW f,
         JoinsBy(f, part, n)
  PROVE  f \in [1 .. n -> Seq(V)] /\ Joins(f, part, n)
<1> USE DEF JoinsBy
<1> DEFINE Q == {k \in 1 .. n : f[k] \in Seq(V)}
<1>1. f[1] = part[1]
  OBVIOUS
<1>2. ASSUME NEW k \in 1 .. n - 1 PROVE f[k + 1] = f[k] \o part[k + 1]
  <2>1. k + 1 \in 1 .. n /\ k + 1 # 1 /\ (k + 1) - 1 = k
    OBVIOUS
  <2> QED
    BY <2>1
<1>3. 1 \in Q
  BY <1>1
<1>4. ASSUME NEW k \in 1 .. n - 1, k \in Q PROVE k + 1 \in Q
  <2>1. f[k] \in Seq(V) /\ k + 1 \in 1 .. n /\ part[k + 1] \in Seq(V)
    BY <1>4
  <2>2. f[k] \o part[k + 1] \in Seq(V)
    BY <2>1, ConcatElements
  <2> QED
    BY <1>2, <2>1, <2>2
<1>5. 1 .. n \subseteq Q
  <2> HIDE DEF Q
  <2> QED
    BY <1>3, <1>4, IntervalInduction
<1> QED
  BY <1>1, <1>2, <1>5 DEF Joins

InPlace(whole, part, n, first) ==
  /\ Len(whole) = first[n + 1] - 1
  /\ \A k \in 1 .. n : \A d \in 1 .. Len(part[k]) :
       /\ first[k] + d - 1 \in 1 .. Len(whole)
       /\ whole[first[k] + d - 1] = part[k][d]

Holds(whole, part, n) ==
  /\ \A e \in 1 .. Len(whole) : \E k \in 1 .. n : \E d \in 1 .. Len(part[k]) :
       whole[e] = part[k][d]
  /\ \A k \in 1 .. n : \A d \in 1 .. Len(part[k]) : \E e \in 1 .. Len(whole) :
       whole[e] = part[k][d]

\* What is joined keeps its place: element d of part k comes after everything
\* the parts before k hold.
LEMMA JoinsPlaces ==
  ASSUME NEW V, NEW n \in Nat \ {0}, NEW part \in [1 .. n -> Seq(V)],
         NEW f \in [1 .. n -> Seq(V)], Joins(f, part, n),
         NEW first \in [1 .. n + 1 -> Nat], Offsets(first, part, n)
  PROVE  InPlace(f[n], part, n, first)
<1> DEFINE Here(k, j) == \A d \in 1 .. Len(part[j]) :
             first[j] + d - 1 \in 1 .. Len(f[k]) /\ f[k][first[j] + d - 1] = part[j][d]
           Placed(k) == Len(f[k]) = first[k + 1] - 1 /\ \A j \in 1 .. k : Here(k, j)
           Q == {k \in 1 .. n : Placed(k)}
<1>1. \A k \in 1 .. n : Len(part[k]) \in Nat /\ Len(f[k]) \in Nat
  OBVIOUS
<1>2. Placed(1)
  <2>1. f[1] = part[1] /\ first[1] = 1 /\ first[1 + 1] = 1 + Len(part[1])
    BY DEF Joins, Offsets
  <2>2. Len(f[1]) = first[1 + 1] - 1
    BY <1>1, <2>1
  <2>3. ASSUME NEW d \in 1 .. Len(part[1])
        PROVE  first[1] + d - 1 \in 1 .. Len(f[1]) /\ f[1][first[1] + d - 1] = part[1][d]
    <3>1. first[1] + d - 1 = d
      BY <1>1, <2>1
    <3> QED
      BY <2>1, <3>1
  <2>4. Here(1, 1)
    BY <2>3
  <2> HIDE DEF Here
  <2> QED
    BY <2>2, <2>4
<1>3. ASSUME NEW k \in 1 .. n - 1, Placed(k) PROVE Placed(k + 1)
  <2>1. PICK m \in 1 .. n : m = k + 1
    OBVIOUS
  <2>2. k \in 1 .. n /\ f[k] \in Seq(V) /\ part[m] \in Seq(V) /\ f[m] = f[k] \o part[m]
    <3>1. f[k + 1] = f[k] \o part[k + 1]
      BY DEF Joins
    <3>2. k \in 1 .. n
      OBVIOUS
    <3>3. f[k] \in Seq(V) /\ part[m] \in Seq(V)
      BY <3>2
    <3> QED
      BY <2>1, <3>1, <3>2, <3>3
  <2>3. first[m + 1] = first[m] + Len(part[m]) /\ first[m] \in Nat
    <3>1. first[m + 1] = first[m] + Len(part[m])
      BY DEF Offsets
    <3>2. m \in 1 .. n + 1
      OBVIOUS
    <3> QED
      BY <3>1, <3>2
  <2>4. Len(f[k]) = first[m] - 1
    <3>1. Len(f[k]) = first[k + 1] - 1
      BY <1>3
    <3> QED
      BY <2>1, <3>1
  <2>5. Len(f[m]) = Len(f[k]) + Len(part[m])
    BY <2>2, ConcatElements
  <2>0. Len(f[k]) \in Nat /\ Len(part[m]) \in Nat
    BY <1>1, <2>2
  <2>6. Len(f[m]) = first[m + 1] - 1
    <3> DEFINE a == first[m]
               z == first[m + 1]
               p == Len(part[m])
               q == Len(f[k])
               r == Len(f[m])
    <3>1. a \in Nat /\ p \in Nat /\ q \in Nat
      BY <2>0, <2>3
    <3>2. z = a + p /\ q = a - 1 /\ r = q + p
      BY <2>3, <2>4, <2>5
    <3>3. r = z - 1
      <4> HIDE DEF a, z, p, q, r, Placed, Q
      <4> QED
        BY <3>1, <3>2
    <3> QED
      BY <3>3
  <2>9. ClosesWith(f[k], part[m], f[m])
    <3>1. ClosesWith(f[k], part[m], f[k] \o part[m])
      BY <2>2, ConcatEnd, Zenon
    <3> QED
      BY <2>2, <3>1, Zenon
  <2>7. Here(m, m)
    <3> SUFFICES ASSUME NEW d \in 1 .. Len(part[m])
                 PROVE  first[m] + d - 1 \in 1 .. Len(f[m]) /\ f[m][first[m] + d - 1] = part[m][d]
      OBVIOUS
    <3>0. d \in Nat
      BY <2>0
    <3>1. first[m] + d - 1 = Len(f[k]) + d
      <4> DEFINE a == first[m]
                 q == Len(f[k])
      <4>1. a \in Nat /\ q \in Nat /\ q = a - 1
        BY <2>0, <2>3, <2>4
      <4>2. a + d - 1 = q + d
        <5> HIDE DEF a, q, Here, Placed, Q
        <5> QED
          BY <3>0, <4>1
      <4> QED
        BY <4>2
    <3>2. Len(f[k]) + d \in 1 .. Len(f[m]) /\ f[m][Len(f[k]) + d] = part[m][d]
      BY <2>9 DEF ClosesWith
    <3> QED
      BY <3>1, <3>2
  <2>8. ASSUME NEW j \in 1 .. k PROVE Here(m, j)
    <3> SUFFICES ASSUME NEW d \in 1 .. Len(part[j])
                 PROVE  first[j] + d - 1 \in 1 .. Len(f[m]) /\ f[m][first[j] + d - 1] = part[j][d]
      OBVIOUS
    <3>1. first[j] + d - 1 \in 1 .. Len(f[k]) /\ f[k][first[j] + d - 1] = part[j][d]
      BY <1>3
    <3> DEFINE e == first[j] + d - 1
    <3>2. e \in 1 .. Len(f[k]) /\ f[k][e] = part[j][d]
      BY <3>1
    <3> HIDE DEF e
    <3>3. e \in 1 .. Len(f[m]) /\ f[m][e] = part[j][d]
      BY <2>2, <3>2, ConcatElements
    <3> QED
      BY <3>3 DEF e
  <2> HIDE DEF Here
  <2> QED
    BY <2>1, <2>2, <2>6, <2>7, <2>8
<1>4. 1 .. n \subseteq Q
  <2>1. 1 \in Q /\ \A k \in 1 .. n - 1 : k \in Q => k + 1 \in Q
    <3> HIDE DEF Placed
    <3> QED
      BY <1>2, <1>3
  <2> HIDE DEF Q
  <2> QED
    BY <2>1, IntervalInduction
<1>5. Placed(n)
  <2> HIDE DEF Placed
  <2> QED
    BY <1>4
<1> QED
  BY <1>5 DEF InPlace

\* What is joined holds the elements of the parts and no other.
LEMMA JoinsElements ==
  ASSUME NEW V, NEW n \in Nat \ {0}, NEW part \in [1 .. n -> Seq(V)],
         NEW f \in [1 .. n -> Seq(V)], Joins(f, part, n)
  PROVE  Holds(f[n], part, n)
<1> DEFINE From(k, e) == \E j \in 1 .. k : \E d \in 1 .. Len(part[j]) : f[k][e] = part[j][d]
           Into(k, j) == \A d \in 1 .. Len(part[j]) : \E e \in 1 .. Len(f[k]) :
                           f[k][e] = part[j][d]
           Same(k) == /\ \A e \in 1 .. Len(f[k]) : From(k, e)
                      /\ \A j \in 1 .. k : Into(k, j)
           Q == {k \in 1 .. n : Same(k)}
<1>1. Same(1)
  <2>1. f[1] = part[1]
    BY DEF Joins
  <2> QED
    BY <2>1
<1>2. ASSUME NEW k \in 1 .. n - 1, Same(k) PROVE Same(k + 1)
  <2>1. PICK m \in 1 .. n : m = k + 1
    OBVIOUS
  <2>2. k \in 1 .. n /\ f[k] \in Seq(V) /\ part[m] \in Seq(V) /\ f[m] = f[k] \o part[m]
    <3>1. f[k + 1] = f[k] \o part[k + 1]
      BY DEF Joins
    <3>2. k \in 1 .. n
      OBVIOUS
    <3>3. f[k] \in Seq(V) /\ part[m] \in Seq(V)
      BY <3>2
    <3> QED
      BY <2>1, <3>1, <3>2, <3>3
  <2>3. /\ Len(f[m]) = Len(f[k]) + Len(part[m])
        /\ Len(f[k]) \in Nat /\ Len(part[m]) \in Nat
        /\ \A e \in 1 .. Len(f[k]) : e \in 1 .. Len(f[m]) /\ f[m][e] = f[k][e]
        /\ \A d \in 1 .. Len(part[m]) :
             Len(f[k]) + d \in 1 .. Len(f[m]) /\ f[m][Len(f[k]) + d] = part[m][d]
    BY <2>2, ConcatElements
  <2>4. ASSUME NEW e \in 1 .. Len(f[m]) PROVE From(m, e)
    <3>1. CASE e \in 1 .. Len(f[k])
      <4>1. From(k, e) /\ f[m][e] = f[k][e]
        BY <1>2, <2>3, <3>1
      <4> QED
        BY <2>1, <4>1
    <3>2. CASE e \notin 1 .. Len(f[k])
      <4>1. PICK d \in 1 .. Len(part[m]) : e = Len(f[k]) + d
        <5>1. e - Len(f[k]) \in 1 .. Len(part[m])
          BY <2>3, <3>2
        <5>2. e = Len(f[k]) + (e - Len(f[k]))
          BY <2>3
        <5> QED
          BY <5>1, <5>2
      <4>2. f[m][e] = part[m][d]
        BY <2>3, <4>1
      <4>3. m \in 1 .. m
        BY <2>1
      <4> QED
        BY <4>2, <4>3
    <3> QED
      BY <3>1, <3>2
  <2>5. ASSUME NEW j \in 1 .. m PROVE Into(m, j)
    <3>1. CASE j = m
      BY <2>3, <3>1
    <3>2. CASE j \in 1 .. k
      <4>1. Into(k, j)
        BY <1>2, <3>2
      <4> QED
        BY <2>3, <4>1
    <3>3. j = m \/ j \in 1 .. k
      BY <2>1
    <3> QED
      BY <3>1, <3>2, <3>3
  <2> HIDE DEF From, Into
  <2> QED
    BY <2>1, <2>4, <2>5
<1>3. 1 .. n \subseteq Q
  <2>1. 1 \in Q /\ \A k \in 1 .. n - 1 : k \in Q => k + 1 \in Q
    <3> HIDE DEF Same
    <3> QED
      BY <1>1, <1>2
  <2> HIDE DEF Q
  <2> QED
    BY <2>1, IntervalInduction
<1>4. Same(n)
  <2> HIDE DEF Same
  <2> QED
    BY <1>3
<1> QED
  BY <1>4 DEF Holds

LEMMA FlattenJoins ==
  ASSUME NEW V, NEW n \in Nat \ {0}, NEW seqs \in [1 .. n -> Seq(V)]
  PROVE  \E f \in [1 .. n -> Seq(V)] : Joins(f, seqs, n) /\ FlattenSeq(seqs) = f[n]
<1> DEFINE flatten == CHOOSE f : JoinsBy(f, seqs, n)
<1>1. Len(seqs) = n
  OBVIOUS
<1>2. FlattenSeq(seqs) = flatten[n]
  BY <1>1 DEF FlattenSeq, JoinsBy
<1>3. \E f : JoinsBy(f, seqs, n)
  BY JoinsDefined
<1>4. JoinsBy(flatten, seqs, n)
  BY <1>3
<1> HIDE DEF flatten
<1>5. flatten \in [1 .. n -> Seq(V)] /\ Joins(flatten, seqs, n)
  BY <1>4, JoinsTyped
<1> QED
  BY <1>2, <1>5

\* A sequence is flattened to the elements of its parts, in their order.
LEMMA FlattenPlaces ==
  ASSUME NEW V, NEW n \in Nat \ {0}, NEW seqs \in [1 .. n -> Seq(V)],
         NEW first \in [1 .. n + 1 -> Nat], Offsets(first, seqs, n)
  PROVE  FlattenSeq(seqs) \in Seq(V) /\ InPlace(FlattenSeq(seqs), seqs, n, first)
<1>1. PICK f \in [1 .. n -> Seq(V)] : Joins(f, seqs, n) /\ FlattenSeq(seqs) = f[n]
  BY FlattenJoins
<1>2. f[n] \in Seq(V)
  OBVIOUS
<1>3. InPlace(f[n], seqs, n, first)
  BY <1>1, JoinsPlaces
<1> QED
  BY <1>1, <1>2, <1>3

LEMMA FlattenElements ==
  ASSUME NEW V, NEW n \in Nat, NEW seqs \in [1 .. n -> Seq(V)]
  PROVE  FlattenSeq(seqs) \in Seq(V) /\ Holds(FlattenSeq(seqs), seqs, n)
<1>1. CASE n = 0
  <2>1. seqs = <<>>
    BY <1>1
  <2>2. FlattenSeq(seqs) = <<>>
    BY <2>1 DEF FlattenSeq
  <2> QED
    BY <1>1, <2>2 DEF Holds
<1>2. CASE n # 0
  <2>1. PICK f \in [1 .. n -> Seq(V)] : Joins(f, seqs, n) /\ FlattenSeq(seqs) = f[n]
    BY <1>2, FlattenJoins
  <2>2. f[n] \in Seq(V)
    BY <1>2
  <2>3. Holds(f[n], seqs, n)
    BY <1>2, <2>1, JoinsElements
  <2> QED
    BY <2>1, <2>2, <2>3
<1> QED
  BY <1>1, <1>2

Ordered(s, R) == \A m, n \in 1 .. Len(s) : m < n => <<s[m], s[n]>> \in R

\* All of s comes before all of t.
Follows(s, t, R) == \A m \in 1 .. Len(s) : \A n \in 1 .. Len(t) : <<s[m], t[n]>> \in R

LEMMA ConcatOrdered ==
  ASSUME NEW V, NEW s \in Seq(V), NEW t \in Seq(V), NEW R,
         Ordered(s, R), Ordered(t, R), Follows(s, t, R)
  PROVE  Ordered(s \o t, R)
<1> DEFINE u == s \o t
           p == Len(s)
           q == Len(t)
<1>1. /\ Len(u) = p + q
      /\ \A k \in 1 .. p : u[k] = s[k]
      /\ \A k \in 1 .. q : u[p + k] = t[k]
  BY ConcatElements
<1>2. p \in Nat /\ q \in Nat
  OBVIOUS
<1>3. /\ \A m, n \in 1 .. p : m < n => <<s[m], s[n]>> \in R
      /\ \A m, n \in 1 .. q : m < n => <<t[m], t[n]>> \in R
      /\ \A m \in 1 .. p : \A n \in 1 .. q : <<s[m], t[n]>> \in R
  BY DEF Ordered, Follows
<1> HIDE DEF u, p, q
<1>4. ASSUME NEW m \in 1 .. p + q, NEW n \in 1 .. p + q, m < n PROVE <<u[m], u[n]>> \in R
  <2>1. CASE n <= p
    BY <1>1, <1>2, <1>3, <1>4, <2>1
  <2>2. CASE m > p
    <3>1. m - p \in 1 .. q /\ n - p \in 1 .. q /\ m - p < n - p
      BY <1>2, <1>4, <2>2
    <3>2. u[p + (m - p)] = t[m - p] /\ u[p + (n - p)] = t[n - p]
      BY <1>1, <3>1
    <3>3. u[m] = t[m - p] /\ u[n] = t[n - p]
      BY <1>2, <3>2
    <3> QED
      BY <1>3, <3>1, <3>3
  <2>3. CASE m <= p /\ n > p
    <3>1. m \in 1 .. p /\ n - p \in 1 .. q
      BY <1>2, <2>3
    <3>2. u[p + (n - p)] = t[n - p] /\ u[m] = s[m]
      BY <1>1, <3>1
    <3>3. u[n] = t[n - p]
      BY <1>2, <3>2
    <3> QED
      BY <1>3, <3>1, <3>2, <3>3
  <2> QED
    BY <1>2, <2>1, <2>2, <2>3
<1> QED
  BY <1>1, <1>4 DEF Ordered, u

LEMMA ConcatFollows ==
  ASSUME NEW V, NEW s \in Seq(V), NEW t \in Seq(V), NEW u, NEW R,
         Follows(s, u, R), Follows(t, u, R)
  PROVE  Follows(s \o t, u, R)
<1> DEFINE v == s \o t
           p == Len(s)
           q == Len(t)
<1>1. /\ Len(v) = p + q
      /\ \A k \in 1 .. p : v[k] = s[k]
      /\ \A k \in 1 .. q : v[p + k] = t[k]
  BY ConcatElements
<1>2. p \in Nat /\ q \in Nat
  OBVIOUS
<1>3. /\ \A m \in 1 .. p : \A n \in 1 .. Len(u) : <<s[m], u[n]>> \in R
      /\ \A m \in 1 .. q : \A n \in 1 .. Len(u) : <<t[m], u[n]>> \in R
  BY DEF Follows
<1> HIDE DEF v, p, q
<1>4. ASSUME NEW m \in 1 .. p + q, NEW n \in 1 .. Len(u) PROVE <<v[m], u[n]>> \in R
  <2>1. CASE m <= p
    <3>1. m \in 1 .. p
      BY <1>2, <2>1
    <3> QED
      BY <1>1, <1>3, <3>1
  <2>2. CASE m > p
    <3>1. m - p \in 1 .. q
      BY <1>2, <2>2
    <3>2. v[p + (m - p)] = t[m - p]
      BY <1>1, <3>1
    <3>3. v[m] = t[m - p]
      BY <1>2, <3>2
    <3> QED
      BY <1>3, <3>1, <3>3
  <2> QED
    BY <1>2, <2>1, <2>2
<1> QED
  BY <1>1, <1>4 DEF Follows, v

\* What is flattened is in order when each part is and the parts follow each other.
LEMMA FlattenOrdered ==
  ASSUME NEW V, NEW n \in Nat, NEW seqs \in [1 .. n -> Seq(V)], NEW R,
         \A k \in 1 .. n : Ordered(seqs[k], R),
         \A j, k \in 1 .. n : j < k => Follows(seqs[j], seqs[k], R)
  PROVE  Ordered(FlattenSeq(seqs), R)
<1>1. CASE n = 0
  <2>1. seqs = <<>>
    BY <1>1
  <2>2. FlattenSeq(seqs) = <<>>
    BY <2>1 DEF FlattenSeq
  <2> QED
    BY <2>2 DEF Ordered
<1>2. CASE n # 0
  <2>1. PICK f \in [1 .. n -> Seq(V)] : Joins(f, seqs, n) /\ FlattenSeq(seqs) = f[n]
    BY <1>2, FlattenJoins
  <2> DEFINE Q == {k \in 1 .. n : /\ Ordered(f[k], R)
                                  /\ \A j \in k + 1 .. n : Follows(f[k], seqs[j], R)}
  <2>2. 1 \in Q
    BY <1>2, <2>1 DEF Joins
  <2>3. ASSUME NEW k \in 1 .. n - 1, k \in Q PROVE k + 1 \in Q
    <3>1. k + 1 \in 1 .. n /\ k \in 1 .. n
      OBVIOUS
    <3>2. f[k + 1] = f[k] \o seqs[k + 1]
      BY <2>1 DEF Joins
    <3>3. f[k] \in Seq(V) /\ seqs[k + 1] \in Seq(V)
      BY <3>1
    <3>4. Ordered(f[k], R) /\ \A j \in k + 1 .. n : Follows(f[k], seqs[j], R)
      BY <2>3
    <3>5. Ordered(seqs[k + 1], R) /\ \A j \in k + 2 .. n : Follows(seqs[k + 1], seqs[j], R)
      BY <3>1
    <3>6. Follows(f[k], seqs[k + 1], R)
      BY <3>1, <3>4
    <3>7. Ordered(f[k + 1], R)
      BY <3>2, <3>3, <3>4, <3>5, <3>6, ConcatOrdered
    <3>8. ASSUME NEW j \in k + 2 .. n PROVE Follows(f[k + 1], seqs[j], R)
      <4>1. Follows(f[k], seqs[j], R) /\ Follows(seqs[k + 1], seqs[j], R)
        BY <3>4, <3>5
      <4> QED
        BY <3>2, <3>3, <4>1, ConcatFollows
    <3> QED
      BY <3>1, <3>7, <3>8
  <2>4. 1 .. n \subseteq Q
    <3> HIDE DEF Q
    <3> QED
      BY <2>2, <2>3, IntervalInduction
  <2>5. n \in Q
    BY <1>2, <2>4
  <2> QED
    BY <2>1, <2>5
<1> QED
  BY <1>1, <1>2

(***************************************************************************)
(* Ordering a finite set: each element has the place its rank gives it.    *)
(***************************************************************************)
\* Two elements are in one order; whether one is related to itself does not matter.
StrictlyOrders(R, S) ==
  /\ \A x, y \in S : x # y => (<<x, y>> \in R <=> <<y, x>> \notin R)
  /\ \A x, y, z \in S :
       x # y /\ y # z /\ <<x, y>> \in R /\ <<y, z>> \in R => <<x, z>> \in R

Below(R, S, x) == {y \in S \ {x} : <<y, x>> \in R}

LEMMA BelowGrows ==
  ASSUME NEW S, IsFiniteSet(S), NEW R, StrictlyOrders(R, S),
         NEW x \in S, NEW y \in S, x # y, <<x, y>> \in R
  PROVE  Cardinality(Below(R, S, x)) < Cardinality(Below(R, S, y))
<1>1. Below(R, S, x) \in SUBSET Below(R, S, y)
  BY DEF Below, StrictlyOrders
<1>2. Below(R, S, x) # Below(R, S, y)
  BY DEF Below, StrictlyOrders
<1>3. IsFiniteSet(Below(R, S, y))
  <2>1. Below(R, S, y) \in SUBSET S
    BY DEF Below
  <2> QED
    BY <2>1, FS_Subset
<1>4. /\ Cardinality(Below(R, S, x)) <= Cardinality(Below(R, S, y))
      /\ Cardinality(Below(R, S, x)) # Cardinality(Below(R, S, y))
      /\ IsFiniteSet(Below(R, S, x))
  BY <1>1, <1>2, <1>3, FS_Subset
<1>5. Cardinality(Below(R, S, x)) \in Nat /\ Cardinality(Below(R, S, y)) \in Nat
  BY <1>3, <1>4, FS_CardinalityType
<1> QED
  BY <1>4, <1>5

\* Every rank is taken.
LEMMA RankTaken ==
  ASSUME NEW S, IsFiniteSet(S), NEW R, StrictlyOrders(R, S), NEW n \in 1 .. Cardinality(S)
  PROVE  \E x \in S : Cardinality(Below(R, S, x)) = n - 1
<1> DEFINE size == Cardinality(S)
           rank == [x \in S |-> Cardinality(Below(R, S, x)) + 1]
<1>1. size \in Nat
  BY FS_CardinalityType
<1>2. IsFiniteSet(1 .. size) /\ Cardinality(1 .. size) = size
  BY <1>1, FS_Interval
<1>3. ASSUME NEW x \in S
      PROVE  Cardinality(Below(R, S, x)) \in Nat /\ Cardinality(Below(R, S, x)) < size
  <2>1. Below(R, S, x) \in SUBSET S /\ Below(R, S, x) # S
    BY DEF Below, StrictlyOrders
  <2>2. /\ IsFiniteSet(Below(R, S, x)) /\ Cardinality(Below(R, S, x)) <= size
        /\ Cardinality(Below(R, S, x)) # size
    BY <2>1, FS_Subset
  <2>3. Cardinality(Below(R, S, x)) \in Nat
    BY <2>2, FS_CardinalityType
  <2> QED
    BY <1>1, <2>2, <2>3
<1>4. rank \in [S -> 1 .. size]
  BY <1>1, <1>3
<1>5. ASSUME NEW x \in S, NEW y \in S, x # y PROVE rank[x] # rank[y]
  <2>1. \/ Cardinality(Below(R, S, x)) < Cardinality(Below(R, S, y))
        \/ Cardinality(Below(R, S, y)) < Cardinality(Below(R, S, x))
    BY <1>5, BelowGrows DEF StrictlyOrders
  <2>2. Cardinality(Below(R, S, x)) \in Nat /\ Cardinality(Below(R, S, y)) \in Nat
    BY <1>3
  <2> QED
    BY <2>1, <2>2
<1>6. rank \in Injection(S, 1 .. size)
  <2> HIDE DEF rank
  <2> QED
    BY <1>4, <1>5 DEF Injection, IsInjective
<1>7. rank \in Surjection(S, 1 .. size)
  <2> HIDE DEF rank
  <2> QED
    BY <1>2, <1>6, FS_Injection
<1>8. PICK x \in S : rank[x] = n
  <2> HIDE DEF rank
  <2> QED
    BY <1>7 DEF Surjection
<1> QED
  BY <1>3, <1>8

\* The elements by rank: all of them, each once, and in order.
InRank(order, R, S) ==
  order = [n \in 1 .. Cardinality(S) |->
             CHOOSE x \in S : Cardinality(Below(R, S, x)) = n - 1]

LEMMA RankOrders ==
  ASSUME NEW S, IsFiniteSet(S), NEW R, StrictlyOrders(R, S), NEW order, InRank(order, R, S)
  PROVE  /\ order \in [1 .. Cardinality(S) -> S]
         /\ \A x \in S : \E n \in 1 .. Cardinality(S) : order[n] = x
         /\ \A m, n \in 1 .. Cardinality(S) :
              m < n => <<order[m], order[n]>> \in R /\ order[m] # order[n]
<1> DEFINE size == Cardinality(S)
<1>1. size \in Nat
  BY FS_CardinalityType
<1>2. ASSUME NEW n \in 1 .. size
      PROVE  order[n] \in S /\ Cardinality(Below(R, S, order[n])) = n - 1
  <2>1. \E x \in S : Cardinality(Below(R, S, x)) = n - 1
    BY RankTaken
  <2>2. order[n] = CHOOSE x \in S : Cardinality(Below(R, S, x)) = n - 1
    BY DEF InRank
  <2> QED
    BY <2>1, <2>2
<1>3. order \in [1 .. size -> S]
  <2>1. order = [n \in 1 .. size |-> order[n]]
    BY DEF InRank
  <2> QED
    BY <1>2, <2>1
<1>4. ASSUME NEW m \in 1 .. size, NEW n \in 1 .. size, m < n
      PROVE  <<order[m], order[n]>> \in R /\ order[m] # order[n]
  <2>1. order[m] # order[n]
    BY <1>2, <1>4
  <2>2. CASE <<order[n], order[m]>> \in R
    <3>1. Cardinality(Below(R, S, order[n])) < Cardinality(Below(R, S, order[m]))
      BY <1>2, <2>1, <2>2, BelowGrows
    <3> QED
      BY <1>1, <1>2, <1>4, <3>1
  <2> QED
    BY <1>2, <2>1, <2>2 DEF StrictlyOrders
<1>5. ASSUME NEW x \in S PROVE \E n \in 1 .. size : order[n] = x
  <2>1. Below(R, S, x) \in SUBSET S /\ Below(R, S, x) # S
    BY DEF Below, StrictlyOrders
  <2>2. /\ IsFiniteSet(Below(R, S, x)) /\ Cardinality(Below(R, S, x)) <= size
        /\ Cardinality(Below(R, S, x)) # size
    BY <2>1, FS_Subset
  <2>3. Cardinality(Below(R, S, x)) \in Nat
    BY <2>2, FS_CardinalityType
  <2> DEFINE n == Cardinality(Below(R, S, x)) + 1
  <2>4. n \in 1 .. size
    BY <1>1, <2>2, <2>3
  <2>5. Cardinality(Below(R, S, order[n])) = Cardinality(Below(R, S, x)) /\ order[n] \in S
    <3>1. order[n] \in S /\ Cardinality(Below(R, S, order[n])) = n - 1
      BY <1>2, <2>4
    <3> QED
      BY <2>3, <3>1
  <2> HIDE DEF n
  <2>6. order[n] = x
    <3>1. order[n] # x => <<order[n], x>> \notin R /\ <<x, order[n]>> \notin R
      <4>1. IsFiniteSet(S)
        OBVIOUS
      <4> QED
        BY <2>3, <2>5, BelowGrows
    <3> QED
      BY <2>5, <3>1 DEF StrictlyOrders
  <2> QED
    BY <2>4, <2>6
<1> QED
  BY <1>3, <1>4, <1>5

(***************************************************************************)
(* Folding a sequence from its beginning: the fold over the indices picks  *)
(* the greatest of them and goes down.                                     *)
(***************************************************************************)
LEMMA MaxIsGreatest ==
  ASSUME NEW n \in Nat, NEW S \in SUBSET (0 .. n), S # {}
  PROVE  Max(S) \in S /\ \A x \in S : x <= Max(S)
<1> DEFINE T == {y \in 0 .. n : n - y \in S}
<1>1. T \in SUBSET Nat
  OBVIOUS
<1>2. T # {}
  <2>1. PICK x \in S : TRUE
    OBVIOUS
  <2>2. n - x \in 0 .. n /\ n - (n - x) = x
    OBVIOUS
  <2> QED
    BY <2>1, <2>2
<1>3. Min(T) \in T /\ \A y \in T : Min(T) <= y
  <2> HIDE DEF T
  <2> QED
    BY <1>1, <1>2, MinIsLeast
<1>4. PICK least \in T : \A y \in T : least <= y
  BY <1>3
<1>5. ASSUME NEW x \in S PROVE n - least >= x
  <2>1. n - x \in T
    BY n - (n - x) = x
  <2>2. least <= n - x
    BY <1>4, <2>1
  <2> QED
    BY <2>2
<1>6. n - least \in S
  OBVIOUS
<1> QED
  BY <1>5, <1>6 DEF Max

\* A fold that picks the greatest index goes through a sequence from its beginning.
FoldsUp(f, n, base, step) ==
  \A s \in SUBSET (1 .. n) : f[s] = IF s = {} THEN base ELSE step[<<Max(s), f[s \ {Max(s)}]>>]

Steps(g, n, base, step) ==
  g[0] = base /\ \A k \in 1 .. n : g[k] = step[<<k, g[k - 1]>>]

\* The steps lead to v.
StepsTo(v, n, V, base, step) == \E g \in [0 .. n -> V] : Steps(g, n, base, step) /\ v = g[n]

LEMMA TopOfInterval ==
  ASSUME NEW k \in Nat \ {0}
  PROVE  Max(1 .. k) = k /\ (1 .. k) \ {k} = 1 .. k - 1
<1>1. 1 .. k \in SUBSET (0 .. k) /\ 1 .. k # {}
  OBVIOUS
<1>2. Max(1 .. k) \in 1 .. k /\ \A x \in 1 .. k : x <= Max(1 .. k)
  BY <1>1, MaxIsGreatest
<1> QED
  BY <1>2

LEMMA FoldUpDefined ==
  ASSUME NEW n \in Nat, NEW V, NEW base \in V, NEW step \in [(1 .. n) \X V -> V]
  PROVE  \E f \in [SUBSET (1 .. n) -> V] : FoldsUp(f, n, base, step)
<1> DEFINE S == 1 .. n
           pick == [s \in SUBSET S |-> Max(s)]
<1>1. IsFiniteSet(S)
  BY FS_Interval
<1>2. Picks(pick, S)
  <2> SUFFICES ASSUME NEW s \in SUBSET S, s # {} PROVE Max(s) \in s
    BY DEF Picks
  <2>1. s \in SUBSET (0 .. n)
    OBVIOUS
  <2> QED
    BY <2>1, MaxIsGreatest
<1>3. PICK f \in [SUBSET S -> V] : Folds(f, S, base, pick, step)
  <2>1. step \in [S \X V -> V]
    OBVIOUS
  <2> HIDE DEF S, pick
  <2> QED
    BY <2>1, <1>1, <1>2, FoldDefined
<1>4. FoldsUp(f, n, base, step)
  BY <1>3 DEF Folds, FoldsUp
<1> QED
  BY <1>4

LEMMA FoldUpSteps ==
  ASSUME NEW n \in Nat, NEW V, NEW base \in V, NEW step \in [(1 .. n) \X V -> V],
         NEW f, FoldsUp(f, n, base, step)
  PROVE  StepsTo(f[1 .. n], n, V, base, step)
<1> DEFINE g == [k \in 0 .. n |-> f[1 .. k]]
           Q == {k \in Nat : k <= n => g[k] \in V}
<1>1. ASSUME NEW k \in 1 .. n PROVE g[k] = step[<<k, g[k - 1]>>]
  <2>1. 1 .. k \in SUBSET (1 .. n) /\ 1 .. k # {}
    OBVIOUS
  <2>2. Max(1 .. k) = k /\ (1 .. k) \ {k} = 1 .. k - 1
    BY TopOfInterval
  <2>3. f[1 .. k] = step[<<Max(1 .. k), f[(1 .. k) \ {Max(1 .. k)}]>>]
    BY <2>1 DEF FoldsUp
  <2>4. f[1 .. k] = step[<<k, f[1 .. k - 1]>>]
    BY <2>2, <2>3
  <2>5. g[k] = f[1 .. k] /\ g[k - 1] = f[1 .. k - 1]
    OBVIOUS
  <2> HIDE DEF g
  <2> QED
    BY <2>4, <2>5
<1>2. g[0] = base
  <2>1. 1 .. 0 = {} /\ {} \in SUBSET (1 .. n)
    OBVIOUS
  <2>2. g[0] = f[{}]
    BY <2>1
  <2> QED
    BY <2>1, <2>2 DEF FoldsUp
<1>3. g[n] = f[1 .. n]
  OBVIOUS
<1> HIDE DEF g
<1>4. 0 \in Q
  BY <1>2
<1>5. ASSUME NEW k \in Nat, k \in Q PROVE k + 1 \in Q
  <2> SUFFICES ASSUME k + 1 <= n PROVE g[k + 1] \in V
    OBVIOUS
  <2>1. k + 1 \in 1 .. n /\ (k + 1) - 1 = k
    OBVIOUS
  <2>2. g[k + 1] = step[<<k + 1, g[k]>>]
    BY <1>1, <2>1
  <2> QED
    BY <1>5, <2>1, <2>2
<1>6. Nat \subseteq Q
  <2> HIDE DEF Q
  <2> QED
    BY <1>4, <1>5, SetInduction
<1>7. g \in [0 .. n -> V]
  <2>1. \A k \in 0 .. n : g[k] \in V
    BY <1>6
  <2>2. g = [k \in 0 .. n |-> g[k]]
    BY DEF g
  <2> QED
    BY <2>1, <2>2
<1> QED
  BY <1>1, <1>2, <1>3, <1>7 DEF Steps, StepsTo

LEMMA FoldUpTyped ==
  ASSUME NEW n \in Nat, NEW V, NEW f, f[{}] \in V,
         \A s \in SUBSET (1 .. n) : s # {} /\ f[s \ {Max(s)}] \in V => f[s] \in V
  PROVE  \A s \in SUBSET (1 .. n) : f[s] \in V
<1> DEFINE S == 1 .. n
           pick == [s \in SUBSET S |-> Max(s)]
           Q == {s \in SUBSET S : f[s] \in V}
<1>1. IsFiniteSet(S)
  BY FS_Interval
<1>2. ASSUME NEW s \in SUBSET S, s # {} PROVE Max(s) \in s
  <2>1. s \in SUBSET (0 .. n)
    OBVIOUS
  <2> QED
    BY <1>2, <2>1, MaxIsGreatest
<1>3. Picks(pick, S)
  BY <1>2 DEF Picks
<1>4. {} \in Q /\ \A s \in SUBSET S : s # {} /\ s \ {pick[s]} \in Q => s \in Q
  BY <1>2
<1>5. SUBSET S \subseteq Q
  <2> HIDE DEF S, pick, Q
  <2> QED
    BY <1>1, <1>3, <1>4, SubsetInduction
<1> QED
  BY <1>5

(***************************************************************************)
(* Small facts about pairs of numbers and about sequences.                 *)
(***************************************************************************)
LEMMA PartOf ==
  ASSUME NEW A, NEW s \in Seq(A), NEW a \in 1 .. Len(s), NEW b \in a .. Len(s)
  PROVE  /\ SubSeq(s, a, b) \in Seq(A) /\ Len(SubSeq(s, a, b)) = b - a + 1
         /\ DOMAIN SubSeq(s, a, b) = 1 .. b - a + 1
         /\ \A k \in 1 .. b - a + 1 : SubSeq(s, a, b)[k] = s[a + k - 1]
  OBVIOUS

LEMMA LeastOfTwo ==
  ASSUME NEW a \in Nat, NEW b \in Nat
  PROVE  Min({a, b}) \in {a, b} /\ Min({a, b}) <= a /\ Min({a, b}) <= b
<1>1. {a, b} \in SUBSET Nat /\ {a, b} # {}
  OBVIOUS
<1> QED
  BY <1>1, MinIsLeast

LEMMA GreaterOfTwo ==
  ASSUME NEW a \in Nat, NEW b \in Nat
  PROVE  Max({a, b}) \in {a, b} /\ a <= Max({a, b}) /\ b <= Max({a, b})
<1> DEFINE S == {a, b}
           n == a + b
<1>1. S \in SUBSET (0 .. n) /\ S # {} /\ n \in Nat
  OBVIOUS
<1>2. a \in S /\ b \in S
  OBVIOUS
<1> HIDE DEF S, n
<1>3. Max(S) \in S /\ \A x \in S : x <= Max(S)
  BY <1>1, MaxIsGreatest
<1>4. Max(S) \in S /\ a <= Max(S) /\ b <= Max(S)
  BY <1>2, <1>3
<1> QED
  BY <1>4 DEF S

LEMMA SameElements ==
  ASSUME NEW A, NEW s \in Seq(A), NEW t \in Seq(A), Len(s) = Len(t),
         \A k \in 1 .. Len(s) : s[k] = t[k]
  PROVE  s = t
  OBVIOUS

LEMMA PrefixPart ==
  ASSUME NEW A, NEW s \in Seq(A), NEW n \in 0 .. Len(s)
  PROVE  /\ SubSeq(s, 1, n) \in Seq(A) /\ Len(SubSeq(s, 1, n)) = n
         /\ \A a \in 1 .. n : \A b \in a .. n : SubSeq(SubSeq(s, 1, n), a, b) = SubSeq(s, a, b)
<1>0. Len(s) \in Nat /\ n \in Nat /\ n <= Len(s)
  OBVIOUS
<1>1. SubSeq(s, 1, n) \in Seq(A) /\ Len(SubSeq(s, 1, n)) = n
  OBVIOUS
<1>2. \A k \in 1 .. n : SubSeq(s, 1, n)[k] = s[k]
  OBVIOUS
<1>3. ASSUME NEW a \in 1 .. n, NEW b \in a .. n
      PROVE  SubSeq(SubSeq(s, 1, n), a, b) = SubSeq(s, a, b)
  <2> DEFINE t == SubSeq(s, 1, n)
             u == SubSeq(t, a, b)
             v == SubSeq(s, a, b)
             l == b - a + 1
  <2>1. a \in 1 .. Len(s) /\ b \in a .. Len(s) /\ a \in 1 .. Len(t) /\ b \in a .. Len(t)
    BY <1>0, <1>1
  <2>2. v \in Seq(A) /\ Len(v) = l /\ \A k \in 1 .. l : v[k] = s[a + k - 1]
    BY <2>1, PartOf
  <2>3. t \in Seq(A) /\ t = SubSeq(s, 1, n)
    BY <1>1
  <2> HIDE DEF t
  <2>4. u \in Seq(A) /\ Len(u) = l /\ \A k \in 1 .. l : u[k] = t[a + k - 1]
    BY <2>1, <2>3, PartOf
  <2>5. a \in Nat /\ b \in Nat /\ 1 <= a /\ a <= b /\ b <= n
    BY <1>0
  <2>6. l \in Nat /\ \A k \in 1 .. l : a + k - 1 \in 1 .. n
    BY <1>0, <2>5
  <2> HIDE DEF u, v, l
  <2>7. \A k \in 1 .. l : u[k] = v[k]
    BY <1>2, <2>2, <2>3, <2>4, <2>6
  <2>8. u = v
    BY <2>2, <2>4, <2>7
  <2> QED
    BY <2>8 DEF u, v, t
<1> QED
  BY <1>1, <1>3

LEMMA FlattenedIn ==
  ASSUME NEW V, NEW n \in Int, NEW seqs, seqs \in [1 .. n -> Seq(V)]
  PROVE  FlattenSeq(seqs) \in Seq(V)
<1>1. CASE n \in Nat
  BY <1>1, FlattenElements
<1>2. CASE n \notin Nat
  <2>1. 1 .. n = 1 .. 0
    BY <1>2
  <2>2. seqs \in [1 .. 0 -> Seq(V)]
    BY <2>1
  <2> QED
    BY <2>2, FlattenElements
<1> QED
  BY <1>1, <1>2

LEMMA SequenceOfRange ==
  ASSUME NEW R, NEW s \in Seq(R)
  PROVE  s \in Seq(Range(s)) /\ Range(s) \subseteq R /\ Len(s) \in Nat /\ DOMAIN s = 1 .. Len(s)
         /\ Range(s) = {s[k] : k \in DOMAIN s}
  BY DEF Range

LEMMA RangeFinite ==
  ASSUME NEW R, NEW s \in Seq(R)
  PROVE  IsFiniteSet(Range(s))
<1>1. Len(s) \in Nat /\ DOMAIN s = 1 .. Len(s)
  OBVIOUS
<1>2. s \in Surjection(DOMAIN s, Range(s))
  BY DEF Surjection, Range
<1>3. IsFiniteSet(DOMAIN s)
  BY <1>1, FS_Interval
<1> QED
  BY <1>2, <1>3, FS_Surjection

(***************************************************************************)
(* The positions of a comprehension: ascending, all of them, each once, and *)
(* the only way to list them so.                                           *)
(***************************************************************************)
Enumerates(s, m, K) ==
  /\ s \in [1 .. m -> K]
  /\ \A k \in K : \E n \in 1 .. m : s[n] = k
  /\ \A p, q \in 1 .. m : p < q => s[p] < s[q]

LEMMA AscendingEnumerates ==
  ASSUME NEW K \in SUBSET Int, IsFiniteSet(K)
  PROVE  Cardinality(K) \in Nat /\ Enumerates(Ascending(K), Cardinality(K), K)
<1> DEFINE R == {p \in Int \X Int : p[1] < p[2]}
<1>1. \A x, y \in K : <<x, y>> \in R <=> x < y
  OBVIOUS
<1>2. StrictlyOrders(R, K)
  <2> HIDE DEF R
  <2>1. \A x \in K : x \in Int
    OBVIOUS
  <2>2. \A x, y \in K : x # y => (x < y <=> ~(y < x))
    BY <2>1
  <2>3. \A x, y, z \in K : x < y /\ y < z => x < z
    BY <2>1
  <2> QED
    BY <1>1, <2>2, <2>3 DEF StrictlyOrders
<1>3. ASSUME NEW x \in K PROVE Below(R, K, x) = {y \in K : y < x}
  <2> HIDE DEF R
  <2>1. \A y \in K : y < x => y # x
    OBVIOUS
  <2> QED
    BY <1>1, <2>1 DEF Below
<1>4. InRank(Ascending(K), R, K)
  <2> HIDE DEF R
  <2>1. ASSUME NEW n \in 1 .. Cardinality(K)
        PROVE  (CHOOSE x \in K : Cardinality(Below(R, K, x)) = n - 1)
                 = CHOOSE x \in K : Cardinality({y \in K : y < x}) = n - 1
    BY <1>3
  <2> QED
    BY <2>1 DEF InRank, Ascending
<1> HIDE DEF R
<1>5. /\ Ascending(K) \in [1 .. Cardinality(K) -> K]
      /\ \A x \in K : \E n \in 1 .. Cardinality(K) : Ascending(K)[n] = x
      /\ \A m, n \in 1 .. Cardinality(K) : m < n => <<Ascending(K)[m], Ascending(K)[n]>> \in R
  BY <1>2, <1>4, RankOrders
<1>6. Cardinality(K) \in Nat
  BY FS_CardinalityType
<1> QED
  BY <1>1, <1>5, <1>6 DEF Enumerates

LEMMA EnumerationPrefix ==
  ASSUME NEW K \in SUBSET Int, NEW m \in Nat, NEW n \in Nat, NEW s, NEW t,
         Enumerates(s, m, K), Enumerates(t, n, K)
  PROVE  m <= n /\ \A k \in 1 .. m : s[k] = t[k]
<1> DEFINE Bad == {k \in 1 .. m : ~(k <= n /\ s[k] = t[k])}
<1>1. /\ \A p \in 1 .. m : s[p] \in Int
      /\ \A p \in 1 .. n : t[p] \in Int
      /\ \A p, q \in 1 .. m : p < q => s[p] < s[q]
      /\ \A p, q \in 1 .. n : p < q => t[p] < t[q]
  BY DEF Enumerates
<1>2. /\ \A p \in 1 .. m : \E q \in 1 .. n : t[q] = s[p]
      /\ \A p \in 1 .. n : \E q \in 1 .. m : s[q] = t[p]
  BY DEF Enumerates
<1>3. ASSUME Bad # {} PROVE FALSE
  <2>1. Bad \in SUBSET Nat
    OBVIOUS
  <2>2. PICK x \in Bad : \A y \in Bad : x <= y
    <3> HIDE DEF Bad
    <3> QED
      BY <1>3, <2>1, MinIsLeast
  <2>3. x \in 1 .. m /\ ~(x <= n /\ s[x] = t[x])
    OBVIOUS
  <2>4. \A p \in 1 .. x - 1 : p \in 1 .. m /\ p <= n /\ s[p] = t[p]
    BY <2>2, <2>3
  <2>5. PICK q \in 1 .. n : t[q] = s[x]
    BY <1>2, <2>3
  <2>6. q >= x
    <3>1. ASSUME q < x PROVE FALSE
      <4>1. q \in 1 .. x - 1 /\ q \in 1 .. m
        BY <2>3, <3>1
      <4>2. s[q] = s[x] /\ s[q] < s[x] /\ s[x] \in Int
        BY <1>1, <2>3, <2>4, <2>5, <3>1, <4>1
      <4> QED
        BY <4>2
    <3> QED
      BY <2>3, <3>1
  <2>7. x \in 1 .. n
    BY <2>3, <2>6
  <2>8. PICK p \in 1 .. m : s[p] = t[x]
    BY <1>2, <2>7
  <2>9. p >= x
    <3>1. ASSUME p < x PROVE FALSE
      <4>1. p \in 1 .. x - 1 /\ p \in 1 .. n
        BY <2>7, <3>1
      <4>2. t[p] = t[x] /\ t[p] < t[x] /\ t[x] \in Int
        BY <1>1, <2>4, <2>7, <2>8, <3>1, <4>1
      <4> QED
        BY <4>2
    <3> QED
      BY <2>3, <3>1
  <2>10. s[x] \in Int /\ t[x] \in Int /\ s[x] # t[x]
    BY <1>1, <2>3, <2>7
  <2>11. q # x /\ p # x
    BY <2>5, <2>8, <2>10
  <2>12. t[x] < s[x]
    BY <1>1, <2>5, <2>6, <2>7, <2>11
  <2>13. s[x] < t[x]
    BY <1>1, <2>3, <2>8, <2>9, <2>11
  <2> QED
    BY <2>10, <2>12, <2>13
<1>4. \A k \in 1 .. m : k <= n /\ s[k] = t[k]
  BY <1>3
<1>5. m <= n
  <2>1. CASE m = 0
    BY <2>1
  <2>2. CASE m # 0
    BY <1>4, <2>2
  <2> QED
    BY <2>1, <2>2
<1> QED
  BY <1>4, <1>5

\* Two ascending lists of one set are one list.
LEMMA EnumerationUnique ==
  ASSUME NEW K \in SUBSET Int, NEW m \in Nat, NEW n \in Nat, NEW s, NEW t,
         Enumerates(s, m, K), Enumerates(t, n, K)
  PROVE  m = n /\ s = t
<1>1. m <= n /\ \A k \in 1 .. m : s[k] = t[k]
  BY EnumerationPrefix
<1>2. n <= m
  BY EnumerationPrefix
<1>3. s \in [1 .. m -> K] /\ t \in [1 .. n -> K]
  BY DEF Enumerates
<1>4. m = n
  BY <1>1, <1>2
<1> QED
  BY <1>1, <1>3, <1>4

LEMMA KeepInOrder ==
  ASSUME NEW V, NEW s \in Seq(V), NEW K \in SUBSET (1 .. Len(s))
  PROVE  /\ Cardinality(K) \in Nat /\ Enumerates(Ascending(K), Cardinality(K), K)
         /\ Keep(s, K) \in [1 .. Cardinality(K) -> V]
         /\ Keep(s, K) \in Seq(V) /\ Len(Keep(s, K)) = Cardinality(K)
         /\ \A n \in 1 .. Cardinality(K) : Keep(s, K)[n] = s[Ascending(K)[n]]
         /\ \A k \in K : \E n \in 1 .. Cardinality(K) : Keep(s, K)[n] = s[k]
<1> DEFINE m == Cardinality(K)
<1>1. Len(s) \in Nat /\ \A k \in 1 .. Len(s) : s[k] \in V
  OBVIOUS
<1>2. K \in SUBSET Int /\ IsFiniteSet(K)
  <2> DEFINE D == 1 .. Len(s)
  <2>1. IsFiniteSet(D) /\ D \in SUBSET Int
    BY <1>1, FS_Interval
  <2>2. K \in SUBSET D
    OBVIOUS
  <2> HIDE DEF D
  <2> QED
    BY <2>1, <2>2, FS_Subset
<1>3. m \in Nat /\ Enumerates(Ascending(K), m, K)
  BY <1>2, AscendingEnumerates
<1>4. Keep(s, K) = [n \in 1 .. m |-> s[Ascending(K)[n]]]
  BY DEF Keep
<1> HIDE DEF m
<1>5. \A n \in 1 .. m : Ascending(K)[n] \in K
  BY <1>3 DEF Enumerates
<1>6. Keep(s, K) \in [1 .. m -> V]
  BY <1>1, <1>4, <1>5
<1>7. Keep(s, K) \in Seq(V) /\ Len(Keep(s, K)) = m
  BY <1>3, <1>6
<1>8. \A n \in 1 .. m : Keep(s, K)[n] = s[Ascending(K)[n]]
  BY <1>4
<1>9. \A k \in K : \E n \in 1 .. m : Keep(s, K)[n] = s[k]
  BY <1>3, <1>8 DEF Enumerates
<1> QED
  BY <1>3, <1>6, <1>7, <1>8, <1>9 DEF m

\* P keeps the order of K and reaches all of L.
Carries(P, K, L) ==
  /\ P \in [K -> L]
  /\ \A j, k \in K : j < k => P[j] < P[k]
  /\ \A l \in L : \E k \in K : P[k] = l

LEMMA EnumerationCarried ==
  ASSUME NEW K \in SUBSET Int, IsFiniteSet(K), NEW L \in SUBSET Int, IsFiniteSet(L),
         NEW P, Carries(P, K, L)
  PROVE  /\ Cardinality(K) = Cardinality(L)
         /\ \A n \in 1 .. Cardinality(K) : Ascending(L)[n] = P[Ascending(K)[n]]
<1> DEFINE m == Cardinality(K)
           a == Ascending(K)
           e == [n \in 1 .. m |-> P[a[n]]]
<1>1. m \in Nat /\ Enumerates(a, m, K)
  BY AscendingEnumerates
<1>2. Cardinality(L) \in Nat /\ Enumerates(Ascending(L), Cardinality(L), L)
  BY AscendingEnumerates
<1> HIDE DEF m, a
<1>3. /\ a \in [1 .. m -> K] /\ \A k \in K : \E n \in 1 .. m : a[n] = k
      /\ \A p, q \in 1 .. m : p < q => a[p] < a[q]
  BY <1>1 DEF Enumerates
<1>4. Enumerates(e, m, L)
  <2>1. e \in [1 .. m -> L]
    BY <1>3 DEF Carries
  <2>2. \A l \in L : \E n \in 1 .. m : e[n] = l
    BY <1>3 DEF Carries
  <2>3. \A p, q \in 1 .. m : p < q => e[p] < e[q]
    BY <1>3 DEF Carries
  <2> QED
    BY <2>1, <2>2, <2>3 DEF Enumerates
<1> HIDE DEF e
<1>5. m = Cardinality(L) /\ Ascending(L) = e
  BY <1>1, <1>2, <1>4, EnumerationUnique
<1>6. \A n \in 1 .. m : e[n] = P[a[n]]
  BY DEF e
<1> QED
  BY <1>5, <1>6 DEF m, a

\* What is kept of everything is everything.
LEMMA KeepAll ==
  ASSUME NEW V, NEW s \in Seq(V)
  PROVE  /\ Cardinality(1 .. Len(s)) = Len(s)
         /\ \A n \in 1 .. Len(s) : Ascending(1 .. Len(s))[n] = n
<1> DEFINE n == Len(s)
           K == 1 .. n
           e == [k \in 1 .. n |-> k]
<1>1. n \in Nat
  OBVIOUS
<1> HIDE DEF n
<1>2. K \in SUBSET Int /\ IsFiniteSet(K)
  BY <1>1, FS_Interval
<1>3. Cardinality(K) \in Nat /\ Enumerates(Ascending(K), Cardinality(K), K)
  <2> HIDE DEF K
  <2> QED
    BY <1>2, AscendingEnumerates
<1>4. Enumerates(e, n, K)
  BY <1>1 DEF Enumerates
<1>5. Cardinality(K) = n /\ Ascending(K) = e
  <2> HIDE DEF K, e
  <2> QED
    BY <1>1, <1>2, <1>3, <1>4, EnumerationUnique
<1> QED
  BY <1>5 DEF n
=============================================================================
