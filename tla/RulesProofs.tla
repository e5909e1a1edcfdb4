---------------------------- MODULE RulesProofs ----------------------------
(***************************************************************************)
(* What holds of the analyses of a feature index: of the flattening rule   *)
(* on every graph, of the strings recovered from every file, and of the    *)
(* rule generated from them for every request.                             *)
(***************************************************************************)
EXTENDS CffRule, YaraRule, DataInduction

(***************************************************************************)
(* score_cff.                                                              *)
(***************************************************************************)
\* The sum of the weights, signal by signal.
WeightSum(signals) ==
  (IF "blocks" \in signals THEN 15 ELSE 0) + (IF "tiny" \in signals THEN 20 ELSE 0)
  + (IF "indegree" \in signals THEN 25 ELSE 0) + (IF "loop" \in signals THEN 20 ELSE 0)
  + (IF "dominance" \in signals THEN 15 ELSE 0) + (IF "indirect" \in signals THEN 10 ELSE 0)

LEMMA SignalsFinite == IsFiniteSet(DOMAIN Weight)
<1>1. DOMAIN Weight = {"blocks"} \cup ({"tiny"} \cup ({"indegree"} \cup ({"loop"}
                        \cup ({"dominance"} \cup {"indirect"}))))
  BY DEF Weight
<1>2. IsFiniteSet({"blocks"}) /\ IsFiniteSet({"tiny"}) /\ IsFiniteSet({"indegree"})
      /\ IsFiniteSet({"loop"}) /\ IsFiniteSet({"dominance"}) /\ IsFiniteSet({"indirect"})
  BY FS_Singleton
<1>3. IsFiniteSet({"dominance"} \cup {"indirect"})
  BY <1>2, FS_Union
<1>4. IsFiniteSet({"loop"} \cup ({"dominance"} \cup {"indirect"}))
  BY <1>2, <1>3, FS_Union
<1>5. IsFiniteSet({"indegree"} \cup ({"loop"} \cup ({"dominance"} \cup {"indirect"})))
  BY <1>2, <1>4, FS_Union
<1>6. IsFiniteSet({"tiny"} \cup ({"indegree"} \cup ({"loop"}
                    \cup ({"dominance"} \cup {"indirect"}))))
  BY <1>2, <1>5, FS_Union
<1>7. IsFiniteSet({"blocks"} \cup ({"tiny"} \cup ({"indegree"} \cup ({"loop"}
                    \cup ({"dominance"} \cup {"indirect"})))))
  BY <1>2, <1>6, FS_Union
<1> QED
  BY <1>1, <1>7

\* The score is the sum of the weights whatever order they are added in, up to 100.
LEMMA ScoreIsSum ==
  ASSUME NEW signals \in SUBSET DOMAIN Weight
  PROVE  Score(signals) = IF WeightSum(signals) <= 100 THEN WeightSum(signals) ELSE 100
<1> DEFINE pick == [s \in SUBSET signals |-> CHOOSE x \in s : TRUE]
           step == [p \in signals \X Int |-> Weight[p[1]] + p[2]]
           Solves(f) == f = [s \in SUBSET signals |->
             IF s = {} THEN 0 ELSE Weight[CHOOSE x \in s : TRUE] + f[s \ {CHOOSE x \in s : TRUE}]]
           total == CHOOSE f : Solves(f)
<1>1. IsFiniteSet(signals)
  BY SignalsFinite, FS_Subset
<1>2. MapThenSumSet(LAMBDA s : Weight[s], signals) = total[signals]
  BY DEF MapThenSumSet, MapThenFoldSet
<1>3. /\ Picks(pick, signals)
      /\ \A s \in SUBSET signals : s # {} => pick[s] = CHOOSE x \in s : TRUE
  BY DEF Picks
<1>4. step \in [signals \X Int -> Int]
  BY DEF Weight
<1>5. \E f : Solves(f)
  <2>1. PICK f \in [SUBSET signals -> Int] : Folds(f, signals, 0, pick, step)
    <3> DEFINE zero == 0
               whole == Int
    <3>1. zero \in whole /\ step \in [signals \X whole -> whole] /\ Picks(pick, signals)
      BY <1>3, <1>4
    <3> HIDE DEF pick, step, zero, whole
    <3>2. \E f \in [SUBSET signals -> whole] : Folds(f, signals, zero, pick, step)
      BY <1>1, <3>1, FoldDefined
    <3> QED
      BY <3>2 DEF zero, whole
  <2>2. ASSUME NEW s \in SUBSET signals, s # {}
        PROVE  f[s] = Weight[pick[s]] + f[s \ {pick[s]}]
    BY <1>3, <2>1, <2>2 DEF Folds, Picks
  <2>3. f[{}] = 0
    BY <2>1 DEF Folds
  <2>4. f = [s \in SUBSET signals |-> IF s = {} THEN 0
                                     ELSE Weight[pick[s]] + f[s \ {pick[s]}]]
    BY <2>1, <2>2, <2>3
  <2>5. f = [s \in SUBSET signals |->
               IF s = {} THEN 0
               ELSE Weight[CHOOSE x \in s : TRUE] + f[s \ {CHOOSE x \in s : TRUE}]]
    BY <1>3, <2>4
  <2> QED
    BY <2>5
<1>6. \A s \in SUBSET signals :
        total[s] = IF s = {} THEN 0 ELSE Weight[pick[s]] + total[s \ {pick[s]}]
  <2>1. Solves(total)
    BY <1>5
  <2> HIDE DEF total
  <2> QED
    BY <1>3, <2>1
<1> DEFINE Known == {s \in SUBSET signals : total[s] = WeightSum(s)}
<1>7. {} \in Known
  <2>1. total[{}] = 0
    BY <1>6
  <2> HIDE DEF total
  <2> QED
    BY <2>1 DEF WeightSum
<1>8. ASSUME NEW s \in SUBSET signals, s # {}, s \ {pick[s]} \in Known PROVE s \in Known
  <2>1. total[s] = Weight[pick[s]] + WeightSum(s \ {pick[s]})
    BY <1>6, <1>8
  <2>2. pick[s] \in s /\ pick[s] \in DOMAIN Weight
    BY <1>3, <1>8 DEF Picks
  <2> HIDE DEF pick, total
  <2>3. WeightSum(s) = Weight[pick[s]] + WeightSum(s \ {pick[s]})
    BY <2>2 DEF WeightSum, Weight
  <2> QED
    BY <2>1, <2>3
<1>9. SUBSET signals \subseteq Known
  <2> HIDE DEF pick, Known
  <2> QED
    BY <1>1, <1>3, <1>7, <1>8, SubsetInduction
<1> HIDE DEF total
<1>10. total[signals] = WeightSum(signals) /\ WeightSum(signals) \in Int
  <2>1. signals \in Known
    BY <1>9
  <2> QED
    BY <2>1 DEF WeightSum
<1>11. Score(signals) = Min({100, WeightSum(signals)})
  BY <1>2, <1>10 DEF Score
<1> QED
  BY <1>10, <1>11 DEF Min

\* Without a dispatcher and without a loop the signals weigh too little.
LEMMA LowScore ==
  ASSUME NEW signals \in SUBSET DOMAIN Weight, "indegree" \notin signals, "loop" \notin signals
  PROVE  Score(signals) < 70
  BY ScoreIsSum DEF WeightSum

LEMMA SignalMeaning ==
  ASSUME NEW itself
  PROVE  /\ Signals(itself) \in SUBSET DOMAIN Weight
         /\ "indegree" \in Signals(itself) => MaxBranchIndegree >= 3
         /\ "loop" \in Signals(itself) => LoopCount >= 1
  BY DEF Signals

\* A component of more than one node is a loop.
LEMMA LoopCounted == LoopCount >= 1 => HasLoop
<1> DEFINE paths        == UNION {{n} \X Reach(Digraph, n) : n \in Nodes}
           Component(n) == {m \in Nodes : <<n, m>> \in paths /\ <<m, n>> \in paths}
           Loops        == {c \in {Component(n) : n \in Nodes} : Cardinality(c) > 1}
<1> SUFFICES ASSUME LoopCount >= 1 PROVE HasLoop
  OBVIOUS
<1>1. PICK n \in Nodes : Cardinality(Component(n)) > 1
  <2>1. LoopCount = Cardinality(Loops)
    BY DEF LoopCount
  <2> HIDE DEF Loops
  <2>2. Loops # {}
    BY <2>1, FS_EmptySet
  <2> QED
    BY <2>2 DEF Loops
<1>2. PICK m \in Component(n) : m # n
  <2> SUFFICES ASSUME Component(n) \subseteq {n} PROVE FALSE
    OBVIOUS
  <2>1. IsFiniteSet({n}) /\ Cardinality({n}) = 1
    BY FS_Singleton
  <2> DEFINE C == Component(n)
  <2> HIDE DEF C
  <2>2. C \subseteq {n} /\ Cardinality(C) > 1
    BY <1>1 DEF C
  <2>3. Cardinality(C) <= 1 /\ Cardinality(C) \in Nat
    BY <2>1, <2>2, FS_Subset, FS_CardinalityType
  <2> QED
    BY <2>2, <2>3
<1>3. m \in Nodes /\ m \in Reach(Digraph, n) /\ n \in Reach(Digraph, m)
  BY <1>2
<1> QED
  BY <1>2, <1>3 DEF HasLoop

(***************************************************************************)
(* The rule.                                                               *)
(***************************************************************************)
\* A graph is evaluated once and grows no more after that.
VerdictOfGraph ==
  /\ StraightCodePasses
  /\ ~verdict.done => verdict = NoVerdict

LEMMA EvaluatedGraphKept ==
  ASSUME blocks' = blocks
  PROVE  HasLoop' = HasLoop /\ MaxBranchIndegree' = MaxBranchIndegree
<1>1. HasLoop' = HasLoop
  BY SMT DEF HasLoop, Nodes, Reach, Digraph, FallThroughs, Branches, Calls,
             Targeted, FoldLeftDomain, FoldLeft, MapThenFoldSet
<1>2. MaxBranchIndegree' = MaxBranchIndegree
  BY SMT DEF MaxBranchIndegree, BranchIndegree, Branches, Targeted, Nodes
<1> QED
  BY <1>1, <1>2

LEMMA VerdictKept == VerdictOfGraph /\ [Next]_vars => VerdictOfGraph'
<1> SUFFICES ASSUME VerdictOfGraph, [Next]_vars PROVE VerdictOfGraph'
  OBVIOUS
<1>1. CASE Grow
  BY <1>1 DEF VerdictOfGraph, Grow, StraightCodePasses, NoVerdict
<1>2. CASE Evaluate
  <2>1. PICK itself \in IdomOfEntry :
          /\ verdict'.done
          /\ verdict'.flagged = (verdict'.declared \/ Flagged(Signals(itself)))
    BY <1>2 DEF Evaluate
  <2>2. Flagged(Signals(itself)) => HasLoop \/ MaxBranchIndegree >= 3
    <3>1. HasSwitchDispatcher => MaxBranchIndegree >= 3
      BY DEF HasSwitchDispatcher
    <3>2. CASE Score(Signals(itself)) >= 70
      <4>1. Score(Signals(itself)) \in Int
        BY SignalMeaning, ScoreIsSum DEF WeightSum
      <4>2. "indegree" \in Signals(itself) \/ "loop" \in Signals(itself)
        BY <3>2, <4>1, SignalMeaning, LowScore
      <4> QED
        BY <4>2, SignalMeaning, LoopCounted
    <3> QED
      BY <3>1, <3>2 DEF Flagged
  <2>3. blocks' = blocks
    BY <1>2 DEF Evaluate
  <2>4. verdict'.flagged /\ ~verdict'.declared => HasLoop' \/ MaxBranchIndegree' >= 3
    BY <2>1, <2>2, <2>3, EvaluatedGraphKept
  <2> QED
    BY <2>1, <2>4 DEF VerdictOfGraph, StraightCodePasses
<1>3. CASE UNCHANGED vars
  <2>1. blocks' = blocks /\ verdict' = verdict
    BY <1>3 DEF vars
  <2> QED
    BY <2>1, EvaluatedGraphKept DEF VerdictOfGraph, StraightCodePasses
<1> QED
  BY <1>1, <1>2, <1>3 DEF Next

\* Where no dispatcher is declared, a graph that neither loops, through calls or
\* otherwise, nor has a block three branches lead to is never flagged, however
\* large it is and whichever networkx is installed.
THEOREM StraightCodeIsNeverFlagged == Spec => []StraightCodePasses
<1>1. Init => VerdictOfGraph
  BY DEF Init, VerdictOfGraph, StraightCodePasses, NoVerdict
<1>2. VerdictOfGraph => StraightCodePasses
  BY DEF VerdictOfGraph
<1> QED
  BY <1>1, <1>2, VerdictKept, PTL DEF Spec

-----------------------------------------------------------------------------
(***************************************************************************)
(* find_xor_strings: what a pass finds in a file.                          *)
(***************************************************************************)
\* The runs of a class of bytes in s.
Spans(s, class) ==
  {m \in [first : 1 .. Len(s), last : 1 .. Len(s)] :
     m.first <= m.last /\ \A p \in m.first .. m.last : s[p] \in class}

LEMMA MatchesAreSpans ==
  ASSUME NEW A, NEW s \in Seq(A), NEW class, NEW lo \in Nat \ {0}, NEW hi \in Nat
  PROVE  Matches(s, class, lo, hi) \in Seq(Spans(s, class))
<1> DEFINE n == Len(s)
           D == 1 .. n + 1
           inside == {p \in DOMAIN s : s[p] \in class}
           stop(c) == Min({q \in c .. n + 1 : q \notin inside \/ q = c + hi})
           run(c) == [first |-> c, last |-> stop(c) - 1]
           W == Spans(s, class)
           V == Seq(W)
           Solves(f) == f = [c \in D |->
             IF c > n THEN <<>>
             ELSE IF stop(c) - c < lo THEN f[c + 1] ELSE <<run(c)>> \o f[stop(c)]]
           from == CHOOSE f : Solves(f)
<1>1. n \in Nat /\ DOMAIN s = 1 .. n
  OBVIOUS
<1>2. ASSUME NEW c \in 1 .. n
      PROVE  /\ stop(c) \in c .. n + 1
             /\ stop(c) - c >= lo => stop(c) \in c + 1 .. n + 1 /\ run(c) \in W
  <2> DEFINE Ends == {q \in c .. n + 1 : q \notin inside \/ q = c + hi}
  <2>1. n + 1 \in Ends /\ Ends \in SUBSET Nat
    BY <1>1
  <2>2. stop(c) \in Ends /\ \A q \in Ends : stop(c) <= q
    <3> HIDE DEF Ends
    <3>1. Min(Ends) \in Ends /\ \A q \in Ends : Min(Ends) <= q
      BY <2>1, MinIsLeast
    <3> QED
      BY <3>1 DEF Ends
  <2> DEFINE e == stop(c)
  <2>3. e \in c .. n + 1
    BY <2>2
  <2>4. \A q \in c .. n + 1 : q < e => q \in inside
    BY <2>2, <2>3
  <2>5. run(c) = [first |-> c, last |-> e - 1]
    OBVIOUS
  <2> HIDE DEF stop, Ends, e, run
  <2>6. ASSUME e - c >= lo PROVE e \in c + 1 .. n + 1 /\ run(c) \in W
    <3>1. e \in c + 1 .. n + 1
      BY <1>1, <2>3, <2>6
    <3>2. \A q \in c .. e - 1 : s[q] \in class
      BY <1>1, <2>4, <3>1
    <3> QED
      BY <1>1, <2>5, <3>1, <3>2 DEF Spans
  <2> QED
    BY <2>3, <2>6 DEF e
<1> HIDE DEF stop, run
<1>3. \E f : Solves(f)
  <2> DEFINE rank == [c \in D |-> n + 1 - c]
             ends == {n + 1}
             next == [c \in D |-> IF c > n THEN c
                                  ELSE IF stop(c) - c < lo THEN c + 1 ELSE stop(c)]
             start == [c \in D |-> <<>>]
             step == [p \in D \X V |-> IF p[1] > n \/ stop(p[1]) - p[1] < lo THEN p[2]
                                       ELSE <<run(p[1])>> \o p[2]]
  <2>1. rank \in [D -> 0 .. n + 1]
    BY <1>1
  <2>2. Descends(next, rank, D, ends)
    <3> SUFFICES ASSUME NEW c \in D, c \notin ends
                 PROVE  next[c] \in D /\ rank[next[c]] < rank[c]
      BY DEF Descends
    <3>1. c \in 1 .. n
      BY <1>1
    <3>2. next[c] = IF stop(c) - c < lo THEN c + 1 ELSE stop(c)
      BY <1>1, <3>1
    <3>3. stop(c) \in Int /\ (stop(c) - c >= lo => stop(c) \in c + 1 .. n + 1)
      BY <1>1, <1>2, <3>1
    <3> HIDE DEF stop, next
    <3>4. next[c] \in c + 1 .. n + 1
      BY <1>1, <3>1, <3>2, <3>3
    <3> QED
      BY <1>1, <3>1, <3>4
  <2>3. start \in [D -> V]
    OBVIOUS
  <2>4. step \in [D \X V -> V]
    <3> SUFFICES ASSUME NEW c \in D, NEW v \in V, ~(c > n \/ stop(c) - c < lo)
                 PROVE  <<run(c)>> \o v \in V
      OBVIOUS
    <3>1. c \in 1 .. n
      BY <1>1
    <3>2. stop(c) - c >= lo
      BY <1>1, <1>2, <3>1
    <3>3. run(c) \in W
      BY <1>2, <3>1, <3>2
    <3> HIDE DEF run, W
    <3> QED
      BY <3>3
  <2>5. PICK f \in [D -> V] : Recursion(f, D, ends, start, next, step)
    <3>1. n + 1 \in Nat
      BY <1>1
    <3> HIDE DEF D, V, rank, ends, next, start, step
    <3> QED
      BY <2>1, <2>2, <2>3, <2>4, <3>1, RecursionDefined
  <2>6. ASSUME NEW c \in D
        PROVE  f[c] = IF c > n THEN <<>>
                      ELSE IF stop(c) - c < lo THEN f[c + 1] ELSE <<run(c)>> \o f[stop(c)]
    <3>1. CASE c > n
      <4>1. c \in ends /\ start[c] = <<>>
        BY <1>1, <3>1
      <4> QED
        BY <2>5, <3>1, <4>1 DEF Recursion
    <3>2. CASE ~(c > n)
      <4>1. c \in 1 .. n /\ c \notin ends
        BY <1>1, <3>2
      <4>2. f[c] = step[<<c, f[next[c]]>>]
        BY <2>5, <4>1 DEF Recursion
      <4>3. next[c] \in D
        BY <2>2, <4>1 DEF Descends
      <4>4. f[next[c]] \in V
        BY <2>5, <4>3
      <4>5. step[<<c, f[next[c]]>>] = IF c > n \/ stop(c) - c < lo THEN f[next[c]]
                                      ELSE <<run(c)>> \o f[next[c]]
        BY <4>4
      <4>6. next[c] = IF stop(c) - c < lo THEN c + 1 ELSE stop(c)
        BY <3>2
      <4> HIDE DEF next, step, run, stop, V
      <4> QED
        BY <3>2, <4>2, <4>5, <4>6
    <3> QED
      BY <3>1, <3>2
  <2>7. Solves(f)
    <3> HIDE DEF run, stop, V
    <3> QED
      BY <2>5, <2>6
  <2> HIDE DEF Solves
  <2> QED
    BY <2>7
<1>4. Solves(from)
  <2> HIDE DEF Solves
  <2> QED
    BY <1>3
<1>5. Matches(s, class, lo, hi) = from[1]
  BY DEF Matches, stop, run
<1> DEFINE Q == {c \in D : from[c] \in V}
           rank == [c \in D |-> n + 1 - c]
<1>6. ASSUME NEW c \in D, \A e \in D : rank[e] < rank[c] => e \in Q PROVE c \in Q
  <2>1. from[c] = IF c > n THEN <<>>
                  ELSE IF stop(c) - c < lo THEN from[c + 1] ELSE <<run(c)>> \o from[stop(c)]
    <3> HIDE DEF from, run, stop
    <3> QED
      BY <1>4
  <2>2. \A e \in c + 1 .. n + 1 : from[e] \in V
    <3> HIDE DEF from, V
    <3> QED
      BY <1>1, <1>6
  <2>3. CASE c > n
    <3> HIDE DEF from, run, stop
    <3>1. from[c] = <<>> /\ <<>> \in V
      BY <2>1, <2>3
    <3> HIDE DEF V
    <3> QED
      BY <3>1
  <2>4. CASE ~(c > n) /\ stop(c) - c < lo
    <3>1. c + 1 \in c + 1 .. n + 1
      BY <1>1, <2>4
    <3> HIDE DEF from, run, stop, V
    <3> QED
      BY <2>1, <2>2, <2>4, <3>1
  <2>5. CASE ~(c > n) /\ ~(stop(c) - c < lo)
    <3>1. c \in 1 .. n /\ stop(c) - c >= lo
      BY <1>1, <1>2, <2>5
    <3>2. stop(c) \in c + 1 .. n + 1 /\ run(c) \in W
      BY <1>2, <3>1
    <3> HIDE DEF from, run, stop, W
    <3>3. from[stop(c)] \in V
      BY <2>2, <3>2
    <3>4. <<run(c)>> \o from[stop(c)] \in V
      BY <3>2, <3>3
    <3> QED
      BY <2>1, <2>5, <3>4
  <2> QED
    BY <2>3, <2>4, <2>5
<1>7. D \subseteq Q
  <2>1. rank \in [D -> Nat]
    BY <1>1
  <2> HIDE DEF D, Q, rank
  <2> QED
    BY <1>6, <2>1, RankInduction
<1>8. 1 \in D
  BY <1>1
<1> HIDE DEF from
<1> QED
  BY <1>5, <1>7, <1>8

(***************************************************************************)
(* The greedy choice of a pass, result by result.                          *)
(***************************************************************************)
Takes(taken, r, occupied, cap) ==
  /\ Len(taken) < cap
  /\ \A k \in DOMAIN taken : Apart(r, taken[k])
  /\ \A k \in DOMAIN occupied : Apart(r, occupied[k])

\* What is accepted of the first k, for each k.
Accepts(g, n, ranked, occupied, cap) ==
  /\ g[0] = <<>>
  /\ \A k \in 1 .. n :
       g[k] = IF Takes(g[k - 1], ranked[k], occupied, cap) THEN Append(g[k - 1], ranked[k])
              ELSE g[k - 1]

AcceptedStepwise(R, n, ranked, occupied, cap) ==
  \E g \in [0 .. n -> Seq(R)] :
    Accepts(g, n, ranked, occupied, cap) /\ Accepted(ranked, occupied, cap) = g[n]

LEMMA AcceptedSteps ==
  ASSUME NEW R, NEW n \in Nat, NEW ranked \in [1 .. n -> R], NEW occupied, NEW cap
  PROVE  AcceptedStepwise(R, n, ranked, occupied, cap)
<1> DEFINE S == 1 .. n
           V == Seq(R)
           step == [p \in S \X V |->
             IF Takes(p[2], ranked[p[1]], occupied, cap) THEN Append(p[2], ranked[p[1]])
             ELSE p[2]]
           Solves(f) == f = [s \in SUBSET S |->
             IF s = {} THEN <<>>
             ELSE IF Takes(f[s \ {Max(s)}], ranked[Max(s)], occupied, cap)
                  THEN Append(f[s \ {Max(s)}], ranked[Max(s)]) ELSE f[s \ {Max(s)}]]
           accepted == CHOOSE f : Solves(f)
<1>1. Accepted(ranked, occupied, cap) = accepted[S]
  BY DEF Accepted, FoldLeft, MapThenFoldSet, Takes
<1>2. step \in [S \X V -> V] /\ <<>> \in V /\ n \in Nat
  OBVIOUS
<1>3. ASSUME NEW s \in SUBSET S, s # {} PROVE Max(s) \in s /\ s \ {Max(s)} \in SUBSET S
  <2>1. s \in SUBSET (0 .. n)
    OBVIOUS
  <2> QED
    BY <1>3, <2>1, MaxIsGreatest
<1>4. \E f \in [SUBSET S -> V] : FoldsUp(f, n, <<>>, step)
  <2> HIDE DEF step, V
  <2> QED
    BY <1>2, FoldUpDefined
<1>5. PICK f \in [SUBSET S -> V] : FoldsUp(f, n, <<>>, step)
  BY <1>4
<1>6. Solves(f)
  <2>1. ASSUME NEW s \in SUBSET S, s # {}
        PROVE  f[s] = IF Takes(f[s \ {Max(s)}], ranked[Max(s)], occupied, cap)
                      THEN Append(f[s \ {Max(s)}], ranked[Max(s)]) ELSE f[s \ {Max(s)}]
    <3>1. f[s] = step[<<Max(s), f[s \ {Max(s)}]>>]
      BY <1>5, <2>1 DEF FoldsUp
    <3>2. Max(s) \in S /\ f[s \ {Max(s)}] \in V
      BY <1>3, <1>5, <2>1
    <3> QED
      BY <3>1, <3>2
  <2>2. f[{}] = <<>>
    BY <1>5 DEF FoldsUp
  <2> QED
    BY <1>5, <2>1, <2>2
<1>7. Solves(accepted)
  <2> HIDE DEF Solves
  <2> QED
    BY <1>6
<1> HIDE DEF accepted
<1>8. \A s \in SUBSET S :
        accepted[s] = IF s = {} THEN <<>>
                      ELSE IF Takes(accepted[s \ {Max(s)}], ranked[Max(s)], occupied, cap)
                      THEN Append(accepted[s \ {Max(s)}], ranked[Max(s)])
                      ELSE accepted[s \ {Max(s)}]
  BY <1>7
<1>9. \A s \in SUBSET S : accepted[s] \in V
  <2>1. accepted[{}] \in V
    BY <1>2, <1>8
  <2>2. ASSUME NEW s \in SUBSET S, s # {}, accepted[s \ {Max(s)}] \in V
        PROVE  accepted[s] \in V
    <3>1. ranked[Max(s)] \in R
      BY <1>3, <2>2
    <3>2. Append(accepted[s \ {Max(s)}], ranked[Max(s)]) \in V
      BY <2>2, <3>1
    <3> HIDE DEF V
    <3> QED
      BY <1>8, <2>2, <3>2
  <2> HIDE DEF V
  <2> QED
    BY <1>2, <2>1, <2>2, FoldUpTyped
<1>10. FoldsUp(accepted, n, <<>>, step)
  <2> SUFFICES ASSUME NEW s \in SUBSET S
               PROVE  accepted[s] = IF s = {} THEN <<>>
                                    ELSE step[<<Max(s), accepted[s \ {Max(s)}]>>]
    BY DEF FoldsUp
  <2>1. CASE s = {}
    BY <1>8, <2>1
  <2>2. CASE s # {}
    <3>1. Max(s) \in S /\ accepted[s \ {Max(s)}] \in V
      BY <1>3, <1>9, <2>2
    <3> HIDE DEF V
    <3> QED
      BY <1>8, <2>2, <3>1
  <2> QED
    BY <2>1, <2>2
<1>11. PICK g \in [0 .. n -> V] : Steps(g, n, <<>>, step) /\ accepted[S] = g[n]
  <2> DEFINE empty == <<>>
  <2>1. empty \in V /\ step \in [(1 .. n) \X V -> V] /\ FoldsUp(accepted, n, empty, step)
    BY <1>2, <1>10
  <2> HIDE DEF V, step, empty
  <2>2. StepsTo(accepted[1 .. n], n, V, empty, step)
    BY <2>1, FoldUpSteps
  <2> QED
    BY <2>2 DEF empty, StepsTo
<1>12. Accepts(g, n, ranked, occupied, cap)
  <2>1. ASSUME NEW k \in S
        PROVE  g[k] = IF Takes(g[k - 1], ranked[k], occupied, cap)
                      THEN Append(g[k - 1], ranked[k]) ELSE g[k - 1]
    <3>1. k - 1 \in 0 .. n
      OBVIOUS
    <3>2. g[k - 1] \in V
      BY <3>1
    <3>3. g[k] = step[<<k, g[k - 1]>>]
      BY <1>11 DEF Steps
    <3> HIDE DEF V
    <3> QED
      BY <3>2, <3>3
  <2> QED
    BY <1>11, <2>1 DEF Accepts, Steps
<1> QED
  BY <1>1, <1>11, <1>12 DEF AcceptedStepwise

\* A result that takes up room in the file.
Solid(r) == r.offset \in Nat \ {0} /\ Len(r.value) \in Nat \ {0}

AllApart(s) == \A j, k \in DOMAIN s : j # k => Apart(s[j], s[k])

\* What is accepted comes from the first n of the ranking and keeps off the rest.
Chosen(s, n, ranked, occupied) ==
  /\ AllApart(s)
  /\ \A j \in DOMAIN s : /\ \E h \in 1 .. n : s[j] = ranked[h]
                         /\ \A o \in DOMAIN occupied : Apart(s[j], occupied[o])

\* r, of place i, loses to what is accepted of the places up to i.
Loses(i, s, ranked, occupied) ==
  \/ \E j \in DOMAIN s : \E h \in 1 .. i : s[j] = ranked[h] /\ ~Apart(ranked[i], ranked[h])
  \/ \E o \in DOMAIN occupied : ~Apart(ranked[i], occupied[o])

LEMMA ApartSymmetric == \A r, t : Apart(r, t) <=> Apart(t, r)
  BY DEF Apart, Clear

LEMMA SolidMeetsItself == \A r : Solid(r) => ~Apart(r, r)
  BY DEF Apart, Clear, Solid, LastOf

LEMMA Appended ==
  ASSUME NEW R, NEW s \in Seq(R), NEW r \in R
  PROVE  /\ Append(s, r) \in Seq(R) /\ Len(Append(s, r)) = Len(s) + 1 /\ Len(s) \in Nat
         /\ DOMAIN s = 1 .. Len(s) /\ DOMAIN Append(s, r) = 1 .. Len(s) + 1
         /\ \A k \in DOMAIN s : k \in DOMAIN Append(s, r) /\ Append(s, r)[k] = s[k]
         /\ Append(s, r)[Len(s) + 1] = r /\ Len(s) + 1 \in DOMAIN Append(s, r)
         /\ \A k \in DOMAIN Append(s, r) : k \in DOMAIN s \/ k = Len(s) + 1
  OBVIOUS

LEMMA AcceptedChosen ==
  ASSUME NEW R, NEW n \in Nat, NEW ranked \in [1 .. n -> R], NEW occupied, NEW cap \in Nat,
         \A r \in R : Solid(r)
  PROVE  LET s == Accepted(ranked, occupied, cap)
         IN  /\ s \in Seq(R) /\ Chosen(s, n, ranked, occupied)
             /\ Len(s) < cap => \A i \in 1 .. n : Loses(i, s, ranked, occupied)
<1>1. PICK g \in [0 .. n -> Seq(R)] :
        Accepts(g, n, ranked, occupied, cap) /\ Accepted(ranked, occupied, cap) = g[n]
  <2>1. AcceptedStepwise(R, n, ranked, occupied, cap)
    BY AcceptedSteps
  <2> QED
    BY <2>1 DEF AcceptedStepwise
<1> DEFINE Fine(k) == /\ Chosen(g[k], k, ranked, occupied)
                      /\ Len(g[k]) < cap => \A i \in 1 .. k : Loses(i, g[k], ranked, occupied)
           Q == {k \in Nat : k <= n => Fine(k)}
<1>2. 0 \in Q
  BY <1>1 DEF Accepts, Chosen, AllApart
<1>3. ASSUME NEW k \in Nat, k \in Q PROVE k + 1 \in Q
  <2> SUFFICES ASSUME k + 1 <= n PROVE Fine(k + 1)
    OBVIOUS
  <2> DEFINE r == ranked[k + 1]
             s == g[k]
             t == g[k + 1]
  <2>1. k + 1 \in 1 .. n /\ (k + 1) - 1 = k /\ k \in 0 .. n /\ k + 1 \in 0 .. n
    OBVIOUS
  <2>2. r \in R /\ s \in Seq(R) /\ t \in Seq(R) /\ r \in Range(ranked) /\ Solid(r)
    BY <2>1 DEF Range
  <2>3. Chosen(s, k, ranked, occupied)
        /\ (Len(s) < cap => \A i \in 1 .. k : Loses(i, s, ranked, occupied))
    BY <1>3, <2>1
  <2>4. t = IF Takes(s, r, occupied, cap) THEN Append(s, r) ELSE s
    BY <1>1, <2>1 DEF Accepts
  <2>5. r = ranked[k + 1]
    OBVIOUS
  <2> HIDE DEF r, s, t
  <2>6. CASE Takes(s, r, occupied, cap)
    <3>1. t = Append(s, r)
      BY <2>4, <2>6
    <3>2. /\ t \in Seq(R) /\ Len(t) = Len(s) + 1 /\ Len(s) \in Nat
          /\ \A j \in DOMAIN s : j \in DOMAIN t /\ t[j] = s[j]
          /\ t[Len(s) + 1] = r /\ Len(s) + 1 \in DOMAIN t
          /\ \A j \in DOMAIN t : j \in DOMAIN s \/ j = Len(s) + 1
      BY <2>2, <3>1, Appended
    <3>3. /\ \A j \in DOMAIN s : Apart(r, s[j])
          /\ \A o \in DOMAIN occupied : Apart(r, occupied[o])
      BY <2>6 DEF Takes
    <3>4. AllApart(t)
      BY <2>3, <3>2, <3>3, ApartSymmetric DEF Chosen, AllApart
    <3>5. Chosen(t, k + 1, ranked, occupied)
      <4>1. ASSUME NEW j \in DOMAIN t PROVE \E h \in 1 .. k + 1 : t[j] = ranked[h]
        <5>1. CASE j = Len(s) + 1
          BY <2>1, <2>5, <3>2, <5>1
        <5>2. CASE j \in DOMAIN s
          <6>1. PICK h \in 1 .. k : s[j] = ranked[h]
            BY <2>3, <5>2 DEF Chosen
          <6>2. h \in 1 .. k + 1
            OBVIOUS
          <6> QED
            BY <3>2, <5>2, <6>1, <6>2
        <5> QED
          BY <3>2, <5>1, <5>2
      <4> QED
        BY <2>3, <3>2, <3>3, <3>4, <4>1 DEF Chosen
    <3>6. ASSUME Len(t) < cap, NEW i \in 1 .. k + 1 PROVE Loses(i, t, ranked, occupied)
      <4>1. CASE i = k + 1
        <5>1. ~Apart(ranked[i], ranked[i]) /\ t[Len(s) + 1] = ranked[i] /\ i \in 1 .. i
          BY <2>2, <2>5, <3>2, <4>1, SolidMeetsItself
        <5> QED
          BY <3>2, <5>1 DEF Loses
      <4>2. CASE i \in 1 .. k
        <5>1. Len(s) < cap
          BY <3>2, <3>6
        <5>2. Loses(i, s, ranked, occupied)
          BY <2>3, <4>2, <5>1
        <5> QED
          BY <3>2, <5>2 DEF Loses
      <4> QED
        BY <4>1, <4>2
    <3> QED
      BY <3>5, <3>6 DEF t
  <2>7. CASE ~Takes(s, r, occupied, cap)
    <3>1. t = s
      BY <2>4, <2>7
    <3>2. ASSUME Len(t) < cap, NEW i \in 1 .. k + 1 PROVE Loses(i, t, ranked, occupied)
      <4>1. CASE i = k + 1
        <5>1. \/ \E j \in DOMAIN s : ~Apart(r, s[j])
              \/ \E o \in DOMAIN occupied : ~Apart(r, occupied[o])
          BY <2>7, <3>1, <3>2 DEF Takes
        <5>2. CASE \E j \in DOMAIN s : ~Apart(r, s[j])
          <6>1. PICK j \in DOMAIN s : ~Apart(r, s[j])
            BY <5>2
          <6>2. \E h \in 1 .. k : s[j] = ranked[h]
            BY <2>3, <6>1 DEF Chosen
          <6> QED
            <7>1. PICK h \in 1 .. k : s[j] = ranked[h]
              BY <6>2
            <7>2. h \in 1 .. i
              BY <4>1
            <7> QED
              BY <2>5, <3>1, <4>1, <6>1, <7>1, <7>2 DEF Loses
        <5>3. CASE \E o \in DOMAIN occupied : ~Apart(r, occupied[o])
          BY <2>5, <3>1, <4>1, <5>3 DEF Loses
        <5> QED
          BY <5>1, <5>2, <5>3
      <4>2. CASE i \in 1 .. k
        BY <2>3, <3>1, <3>2, <4>2 DEF Loses
      <4> QED
        BY <4>1, <4>2
    <3>3. Chosen(t, k + 1, ranked, occupied)
      <4>1. ASSUME NEW j \in DOMAIN s PROVE \E h \in 1 .. k + 1 : s[j] = ranked[h]
        <5>1. PICK h \in 1 .. k : s[j] = ranked[h]
          BY <2>3 DEF Chosen
        <5>2. h \in 1 .. k + 1
          OBVIOUS
        <5> QED
          BY <5>1, <5>2
      <4> QED
        BY <2>3, <3>1, <4>1 DEF Chosen
    <3> QED
      BY <3>2, <3>3 DEF t
  <2> QED
    BY <2>6, <2>7
<1>4. Nat \subseteq Q
  <2> HIDE DEF Q
  <2> QED
    BY <1>2, <1>3, SetInduction
<1>5. n \in Q /\ g[n] \in Seq(R)
  BY <1>4
<1> QED
  BY <1>1, <1>5

(***************************************************************************)
(* Sorting and ranking.                                                    *)
(***************************************************************************)
LEMMA SortedOrders ==
  ASSUME NEW S, IsFiniteSet(S), NEW R, StrictlyOrders(R, S)
  PROVE  /\ Sorted(S, R) \in [1 .. Cardinality(S) -> S]
         /\ \A x \in S : \E n \in 1 .. Cardinality(S) : Sorted(S, R)[n] = x
         /\ \A m, n \in 1 .. Cardinality(S) :
              m < n => /\ <<Sorted(S, R)[m], Sorted(S, R)[n]>> \in R
                       /\ Sorted(S, R)[m] # Sorted(S, R)[n]
<1>1. InRank(Sorted(S, R), R, S)
  BY DEF Sorted, InRank, Below
<1> QED
  BY <1>1, RankOrders

(***************************************************************************)
(* Scores are compared as fractions.                                       *)
(***************************************************************************)
Weighed(c) == c.score \in Nat /\ c.tie \in Int /\ Solid(c.result)

LEMMA FractionsCompare ==
  ASSUME NEW a \in Nat, NEW b \in Nat, NEW c \in Nat,
         NEW x \in Nat \ {0}, NEW y \in Nat \ {0}, NEW z \in Nat \ {0},
         a * y >= b * x, b * z >= c * y
  PROVE  a * z >= c * x
  OBVIOUS

\* Not to be worse is transitive, and no two candidates are better than each other.
LEMMA BetterIsOrder ==
  ASSUME NEW c, NEW d, NEW e, Weighed(c), Weighed(d), Weighed(e)
  PROVE  /\ ~Better(d, c) /\ ~Better(e, d) => ~Better(e, c)
         /\ ~(Better(c, d) /\ Better(d, c))
<1> DEFINE l(v) == Len(v.result.value)
<1>1. /\ c.score \in Nat /\ d.score \in Nat /\ e.score \in Nat
      /\ l(c) \in Nat \ {0} /\ l(d) \in Nat \ {0} /\ l(e) \in Nat \ {0}
  BY DEF Weighed, Solid
<1>2. /\ Better(d, c) <=> d.score * l(c) > c.score * l(d)
      /\ Better(e, d) <=> e.score * l(d) > d.score * l(e)
      /\ Better(e, c) <=> e.score * l(c) > c.score * l(e)
      /\ Better(c, d) <=> c.score * l(d) > d.score * l(c)
  BY DEF Better
<1> HIDE DEF l
<1>3. ASSUME NEW a \in Nat, NEW b \in Nat, NEW x \in Nat, NEW y \in Nat
      PROVE  a * y \in Int /\ b * x \in Int
  OBVIOUS
<1>4. ~(Better(c, d) /\ Better(d, c))
  BY <1>1, <1>2
<1>5. ASSUME ~Better(d, c), ~Better(e, d) PROVE ~Better(e, c)
  <2>1. c.score * l(d) >= d.score * l(c) /\ d.score * l(e) >= e.score * l(d)
    BY <1>1, <1>2, <1>5
  <2>2. c.score * l(e) >= e.score * l(c)
    BY <1>1, <2>1, FractionsCompare
  <2> QED
    BY <1>1, <1>2, <2>2
<1> QED
  BY <1>4, <1>5

\* The candidate of place i comes before that of place j.
Precedes(candidates, i, j) ==
  \/ Better(candidates[i], candidates[j])
  \/ /\ ~Better(candidates[j], candidates[i])
     /\ \/ candidates[i].tie < candidates[j].tie
        \/ candidates[i].tie = candidates[j].tie /\ i < j

\* order ranks the candidates: each has a place, and none a place after a worse one.
Ranks(order, candidates) ==
  /\ order \in [DOMAIN candidates -> DOMAIN candidates]
  /\ \A i \in DOMAIN candidates : \E k \in DOMAIN candidates : order[k] = i
  /\ \A j, k \in DOMAIN candidates :
       j < k => ~Better(candidates[order[k]], candidates[order[j]])

LEMMA RankedByScore ==
  ASSUME NEW C, \A c \in C : Weighed(c), NEW candidates \in Seq(C)
  PROVE  \E order : /\ Ranks(order, candidates)
                    /\ Ranked(candidates) =
                         [k \in DOMAIN candidates |-> candidates[order[k]].result]
<1> DEFINE S == DOMAIN candidates
           R == {p \in S \X S : Precedes(candidates, p[1], p[2])}
           order == Sorted(S, R)
<1>1. S = 1 .. Len(candidates) /\ Len(candidates) \in Nat
  OBVIOUS
<1>2. IsFiniteSet(S) /\ Cardinality(S) = Len(candidates)
  BY <1>1, FS_Interval
<1>3. \A i \in S : Weighed(candidates[i]) /\ candidates[i].tie \in Int /\ i \in Int
  BY <1>1 DEF Weighed
<1>4. \A i, j \in S : <<i, j>> \in R <=> Precedes(candidates, i, j)
  OBVIOUS
<1> HIDE DEF R
<1>5. StrictlyOrders(R, S)
  <2>1. ASSUME NEW i \in S PROVE <<i, i>> \notin R
    BY <1>3, <1>4, BetterIsOrder DEF Precedes
  <2>2. ASSUME NEW i \in S, NEW j \in S, NEW k \in S, <<i, j>> \in R, <<j, k>> \in R
        PROVE  <<i, k>> \in R
    <3> DEFINE c == candidates[i]
               d == candidates[j]
               e == candidates[k]
    <3>1. Weighed(c) /\ Weighed(d) /\ Weighed(e)
      BY <1>3
    <3>2. /\ Better(c, d) \/ (~Better(d, c) /\ (c.tie < d.tie \/ (c.tie = d.tie /\ i < j)))
          /\ Better(d, e) \/ (~Better(e, d) /\ (d.tie < e.tie \/ (d.tie = e.tie /\ j < k)))
      BY <1>4, <2>2 DEF Precedes
    <3>3. c.tie \in Int /\ d.tie \in Int /\ e.tie \in Int /\ i \in Int /\ j \in Int /\ k \in Int
      BY <1>3
    <3>4. Precedes(candidates, i, k) <=>
            \/ Better(c, e)
            \/ ~Better(e, c) /\ (c.tie < e.tie \/ (c.tie = e.tie /\ i < k))
      BY DEF Precedes
    <3> HIDE DEF c, d, e
    <3>5. ~Better(d, c) /\ ~Better(e, d)
      BY <3>1, <3>2, BetterIsOrder
    <3>6. ~Better(e, c)
      BY <3>1, <3>5, BetterIsOrder
    <3>7. CASE ~Better(c, e)
      <4>1. ~Better(c, d) /\ ~Better(d, e)
        BY <3>1, <3>5, <3>7, BetterIsOrder
      <4> QED
        BY <1>4, <3>2, <3>3, <3>4, <3>6, <4>1
    <3> QED
      BY <1>4, <3>4, <3>7
  <2>3. ASSUME NEW i \in S, NEW j \in S, i # j PROVE <<i, j>> \in R \/ <<j, i>> \in R
    BY <1>3, <1>4, <2>3 DEF Precedes
  <2> HIDE DEF S
  <2> QED
    BY <2>1, <2>2, <2>3 DEF StrictlyOrders
<1>6. /\ order \in [S -> S]
      /\ \A i \in S : \E k \in S : order[k] = i
      /\ \A j, k \in S : j < k => <<order[j], order[k]>> \in R
  <2>1. /\ Sorted(S, R) \in [1 .. Cardinality(S) -> S]
        /\ \A x \in S : \E n \in 1 .. Cardinality(S) : Sorted(S, R)[n] = x
        /\ \A m, n \in 1 .. Cardinality(S) :
              m < n => /\ <<Sorted(S, R)[m], Sorted(S, R)[n]>> \in R
                       /\ Sorted(S, R)[m] # Sorted(S, R)[n]
    <3> HIDE DEF S
    <3> QED
      BY <1>2, <1>5, SortedOrders
  <2>2. 1 .. Cardinality(S) = S
    BY <1>1, <1>2
  <2> HIDE DEF S
  <2> QED
    BY <2>1, <2>2
<1>7. Ranks(order, candidates)
  <2>1. ASSUME NEW j \in S, NEW k \in S, j < k
        PROVE  ~Better(candidates[order[k]], candidates[order[j]])
    <3>1. order[j] \in S /\ order[k] \in S /\ <<order[j], order[k]>> \in R
      BY <1>6, <2>1
    <3>2. Precedes(candidates, order[j], order[k])
      BY <1>4, <3>1
    <3>3. Weighed(candidates[order[j]]) /\ Weighed(candidates[order[k]])
      BY <1>3, <3>1
    <3> HIDE DEF order
    <3> QED
      BY <3>2, <3>3, BetterIsOrder DEF Precedes
  <2> HIDE DEF order
  <2> QED
    BY <1>6, <2>1 DEF Ranks
<1>8. Ranked(candidates) = [k \in S |-> candidates[order[k]].result]
  BY DEF Ranked, Precedes, R
<1> HIDE DEF order
<1> QED
  BY <1>7, <1>8

(***************************************************************************)
(* Decoding, and what the text score says of a text.                       *)
(***************************************************************************)
LEMMA DecodedKeepsLength ==
  ASSUME NEW A, NEW s \in Seq(A), NEW key
  PROVE  /\ Decoded(s, key) \in Seq(Range(Decoded(s, key)))
         /\ Len(Decoded(s, key)) = Len(s) /\ DOMAIN Decoded(s, key) = 1 .. Len(s)
         /\ \A k \in 1 .. Len(s) :
              Decoded(s, key)[k] = Xor[s[k], key[((k - 1) % Len(key)) + 1]]
<1> DEFINE code(k) == Xor[s[k], key[((k - 1) % Len(key)) + 1]]
           t == Decoded(s, key)
<1>1. DOMAIN s = 1 .. Len(s) /\ Len(s) \in Nat
  OBVIOUS
<1>2. t = [k \in 1 .. Len(s) |-> code(k)]
  BY <1>1 DEF Decoded
<1> HIDE DEF t, code
<1>3. DOMAIN t = 1 .. Len(s) /\ \A k \in 1 .. Len(s) : t[k] = code(k) /\ t[k] \in Range(t)
  BY <1>2 DEF Range
<1>4. t \in Seq(Range(t)) /\ Len(t) = Len(s)
  BY <1>1, <1>2, <1>3
<1> QED
  BY <1>3, <1>4 DEF t, code

LEMMA DecodedByByte ==
  ASSUME NEW A, NEW s \in Seq(A), NEW byte
  PROVE  /\ Decoded(s, <<byte>>) \in Seq(Range(Decoded(s, <<byte>>)))
         /\ Len(Decoded(s, <<byte>>)) = Len(s)
         /\ \A k \in 1 .. Len(s) : Decoded(s, <<byte>>)[k] = Xor[s[k], byte]
<1> DEFINE key == <<byte>>
<1>1. Len(key) = 1 /\ key[1] = byte
  OBVIOUS
<1> HIDE DEF key
<1>2. \A k \in 1 .. Len(s) : key[((k - 1) % Len(key)) + 1] = byte
  <2> SUFFICES ASSUME NEW k \in 1 .. Len(s) PROVE key[((k - 1) % Len(key)) + 1] = byte
    OBVIOUS
  <2>1. k - 1 \in Nat
    OBVIOUS
  <2>2. (k - 1) % 1 = 0
    BY <2>1
  <2> QED
    BY <1>1, <2>2
<1>3. /\ Decoded(s, key) \in Seq(Range(Decoded(s, key))) /\ Len(Decoded(s, key)) = Len(s)
      /\ \A k \in 1 .. Len(s) : Decoded(s, key)[k] = Xor[s[k], key[((k - 1) % Len(key)) + 1]]
  BY DecodedKeepsLength
<1>4. \A k \in 1 .. Len(s) : Decoded(s, key)[k] = Xor[s[k], byte]
  BY <1>2, <1>3
<1> QED
  BY <1>3, <1>4 DEF key

\* A key of one byte decodes a part of a text as it does the whole.
LEMMA DecodedPart ==
  ASSUME NEW A, NEW s \in Seq(A), NEW byte, NEW a \in 1 .. Len(s), NEW b \in a .. Len(s)
  PROVE  SubSeq(Decoded(s, <<byte>>), a, b) = Decoded(SubSeq(s, a, b), <<byte>>)
<1> DEFINE t == Decoded(s, <<byte>>)
           part == SubSeq(s, a, b)
           n == b - a + 1
<1>3. /\ t \in Seq(Range(t)) /\ Len(t) = Len(s)
      /\ \A k \in 1 .. Len(s) : t[k] = Xor[s[k], byte]
  BY DecodedByByte
<1>4. /\ part \in Seq(A) /\ Len(part) = n /\ \A k \in 1 .. n : part[k] = s[a + k - 1]
  BY PartOf
<1>5. n \in Nat \ {0} /\ \A k \in 1 .. n : a + k - 1 \in 1 .. Len(s)
  <2>1. Len(s) \in Nat /\ a \in Nat \ {0} /\ b \in Nat /\ a <= b /\ b <= Len(s)
    OBVIOUS
  <2> QED
    BY <2>1
<1>6. /\ Decoded(part, <<byte>>) \in Seq(Range(Decoded(part, <<byte>>)))
      /\ Len(Decoded(part, <<byte>>)) = n
      /\ \A k \in 1 .. n : Decoded(part, <<byte>>)[k] = Xor[part[k], byte]
  <2>1. part \in Seq(A) /\ Len(part) = n
    BY <1>4
  <2> HIDE DEF part, n
  <2>2. /\ Decoded(part, <<byte>>) \in Seq(Range(Decoded(part, <<byte>>)))
        /\ Len(Decoded(part, <<byte>>)) = Len(part)
        /\ \A k \in 1 .. Len(part) : Decoded(part, <<byte>>)[k] = Xor[part[k], byte]
    BY <2>1, DecodedByByte
  <2> QED
    BY <2>1, <2>2
<1>7. /\ SubSeq(t, a, b) \in Seq(Range(t)) /\ Len(SubSeq(t, a, b)) = n
      /\ \A k \in 1 .. n : SubSeq(t, a, b)[k] = t[a + k - 1]
  <2> HIDE DEF t
  <2>1. a \in 1 .. Len(t) /\ b \in a .. Len(t)
    BY <1>3
  <2> QED
    BY <1>3, <2>1, PartOf
<1> DEFINE u == SubSeq(t, a, b)
           v == Decoded(part, <<byte>>)
<1>8. \A k \in 1 .. n : u[k] = v[k]
  <2> HIDE DEF t, part, n
  <2> QED
    BY <1>3, <1>4, <1>5, <1>6, <1>7
<1>9. u \in Seq(Range(t)) /\ v \in Seq(Range(v)) /\ Len(u) = n /\ Len(v) = n
  BY <1>6, <1>7
<1> HIDE DEF t, part, n, u, v
<1>10. u = v
  BY <1>5, <1>8, <1>9
<1> QED
  BY <1>10 DEF u, v, t, part

\* The range of a text is its bytes.
LEMMA TextOfClass ==
  ASSUME NEW A, NEW s \in Seq(A)
  PROVE  IsText(s) <=> \A k \in 1 .. Len(s) : s[k] \in Printable
  BY DEF IsText, Range

LEMMA Counted ==
  ASSUME NEW A, NEW s \in Seq(A), NEW S
  PROVE  Count(s, S) \in Nat /\ Count(s, S) <= Len(s)
<1>1. IsFiniteSet(1 .. Len(s)) /\ Cardinality(1 .. Len(s)) = Len(s)
  <2>1. Len(s) \in Nat
    OBVIOUS
  <2> QED
    BY <2>1, FS_Interval
<1>2. {k \in DOMAIN s : s[k] \in S} \in SUBSET (1 .. Len(s))
  OBVIOUS
<1>3. /\ IsFiniteSet({k \in DOMAIN s : s[k] \in S})
      /\ Cardinality({k \in DOMAIN s : s[k] \in S}) <= Len(s)
  BY <1>1, <1>2, FS_Subset
<1> QED
  BY <1>3, FS_CardinalityType DEF Count

LEMMA CountedApart ==
  ASSUME NEW A, NEW s \in Seq(A), NEW S, NEW T, S \cap T = {}
  PROVE  Count(s, S) + Count(s, T) <= Len(s)
<1> DEFINE P == {k \in DOMAIN s : s[k] \in S}
           Q == {k \in DOMAIN s : s[k] \in T}
<1>1. IsFiniteSet(1 .. Len(s)) /\ Cardinality(1 .. Len(s)) = Len(s)
  <2>1. Len(s) \in Nat
    OBVIOUS
  <2> QED
    BY <2>1, FS_Interval
<1>2. P \in SUBSET (1 .. Len(s)) /\ Q \in SUBSET (1 .. Len(s)) /\ P \cup Q \in SUBSET (1 .. Len(s))
      /\ P \cap Q = {}
  OBVIOUS
<1>3. IsFiniteSet(P) /\ IsFiniteSet(Q) /\ IsFiniteSet(P \cup Q)
      /\ Cardinality(P \cup Q) <= Len(s)
  BY <1>1, <1>2, FS_Subset
<1>4. Cardinality(P \cup Q) = Cardinality(P) + Cardinality(Q) - Cardinality(P \cap Q)
  BY <1>3, FS_Union
<1>5. Cardinality({}) = 0 /\ Cardinality(P) \in Nat /\ Cardinality(Q) \in Nat
  BY <1>3, FS_EmptySet, FS_CardinalityType
<1> HIDE DEF P, Q
<1>6. Cardinality(P) + Cardinality(Q) <= Len(s)
  <2>1. P \cap Q = {}
    BY <1>2
  <2>2. Cardinality(P \cap Q) = 0
    BY <1>5, <2>1
  <2>3. Len(s) \in Nat
    OBVIOUS
  <2> QED
    BY <1>3, <1>4, <1>5, <2>2, <2>3
<1> QED
  BY <1>6 DEF P, Q, Count

\* Letters, separators and vowels alone score at most 77 hundredths.
LEMMA ScoreNeedsWord ==
  ASSUME NEW A, NEW s \in Seq(A)
  PROVE  /\ TextScore(s) \in Nat
         /\ (\A w \in Words : ~Occurs(w, Folded(s))) => TextScore(s) <= 77 * Len(s)
<1> DEFINE letters == Count(s, Letters)
           gaps == Count(s, Separators)
           W == {w \in Words : Occurs(w, Folded(s))}
           words == Cardinality(W)
           bonus == IF NaturalVowels(s) THEN 12 ELSE 0
           sum == 65 * letters + 60 * gaps + Len(s) * (bonus + 12 * Min({2, words}))
<1>1. Len(s) \in Nat /\ letters \in Nat /\ gaps \in Nat
  BY Counted
<1>2. letters + gaps <= Len(s)
  <2>1. Letters \cap Separators = {}
    BY DEF Letters, Separators
  <2> QED
    BY <2>1, CountedApart
<1>3. words \in Nat /\ (W = {} => words = 0)
  <2>1. W \in SUBSET Words /\ IsFiniteSet(Words)
    BY StringRecoveryAssumption
  <2>2. IsFiniteSet(W)
    BY <2>1, FS_Subset
  <2> QED
    BY <2>2, FS_CardinalityType, FS_EmptySet
<1>4. Min({2, words}) \in Nat /\ Min({2, words}) <= words /\ bonus \in 0 .. 12
  <2>1. Min({2, words}) \in {2, words} /\ Min({2, words}) <= words
    <3> HIDE DEF words
    <3> QED
      BY <1>3, LeastOfTwo
  <2> QED
    BY <1>3, <2>1
<1>5. TextScore(s) \in {0, Min({100 * Len(s), sum})}
  BY DEF TextScore
<1> DEFINE extra == bonus + 12 * Min({2, words})
<1>6. extra \in Nat /\ (words = 0 => extra <= 12)
  <2> HIDE DEF bonus, words
  <2> QED
    BY <1>3, <1>4
<1>7. sum = 65 * letters + 60 * gaps + Len(s) * extra
  OBVIOUS
<1> HIDE DEF letters, gaps, words, bonus, sum, extra, W
<1>8. sum \in Nat /\ 100 * Len(s) \in Nat
  BY <1>1, <1>6, <1>7
<1>9. Min({100 * Len(s), sum}) \in Nat /\ Min({100 * Len(s), sum}) <= sum
  BY <1>8, LeastOfTwo
<1>10. ASSUME W = {} PROVE sum <= 77 * Len(s)
  <2>1. extra <= 12 /\ extra \in Nat
    BY <1>3, <1>6, <1>10
  <2>2. Len(s) * extra <= Len(s) * 12
    BY <1>1, <2>1
  <2> QED
    BY <1>1, <1>2, <1>7, <2>1, <2>2
<1>11. (\A w \in Words : ~Occurs(w, Folded(s))) => W = {}
  BY DEF W
<1> QED
  BY <1>1, <1>5, <1>8, <1>9, <1>10, <1>11

LEMMA GoodTextHoldsWord ==
  ASSUME NEW A, NEW s \in Seq(A), Len(s) > 0, NEW percent \in {82, 86}, GoodEnough(s, percent)
  PROVE  \E w \in Words : Occurs(w, Folded(s))
<1>1. TextScore(s) \in Nat /\ Len(s) \in Nat /\ TextScore(s) >= percent * Len(s)
  BY ScoreNeedsWord DEF GoodEnough
<1>2. percent * Len(s) > 77 * Len(s)
  <2>1. CASE percent = 82
    BY <1>1, <2>1
  <2>2. CASE percent = 86
    BY <1>1, <2>2
  <2> QED
    BY <2>1, <2>2
<1>3. ~(TextScore(s) <= 77 * Len(s))
  BY <1>1, <1>2
<1> QED
  BY <1>3, ScoreNeedsWord

(***************************************************************************)
(* What the marker loop recovers.                                          *)
(***************************************************************************)
\* What the marker loop finds: a marker, its key, its length and its encoded bytes.
IsTag(d, r) ==
  LET body == r.offset + RecordLength(0)
  IN  /\ Solid(r) /\ IsText(r.value) /\ r.kind = "byte"
      /\ SubSeq(d, r.offset, r.offset + Len(Marker) - 1) = Marker
      /\ d[r.offset + Len(Marker) + 1] = Len(r.value)
      /\ body + Len(r.value) - 1 <= Len(d)
      /\ Decoded(SubSeq(d, body, body + Len(r.value) - 1), r.key) = r.value

\* Records from c on, in the order of their places.
TagsFrom(d, c, t) ==
  /\ \A k \in DOMAIN t : IsTag(d, t[k]) /\ t[k].offset >= c
  /\ \A j, k \in DOMAIN t : j < k => LastOf(t[j]) < t[k].offset

LEMMA ByteType == Bytes \subseteq Nat
  BY DEF Bytes

LEMMA Prepended ==
  ASSUME NEW R, NEW r \in R, NEW t \in Seq(R)
  PROVE  /\ <<r>> \o t \in Seq(R) /\ Len(<<r>> \o t) = Len(t) + 1 /\ Len(t) \in Nat
         /\ DOMAIN t = 1 .. Len(t) /\ DOMAIN (<<r>> \o t) = 1 .. Len(t) + 1
         /\ (<<r>> \o t)[1] = r
         /\ \A k \in 1 .. Len(t) : (<<r>> \o t)[k + 1] = t[k]
  OBVIOUS

LEMMA TagsGrow ==
  ASSUME NEW d, NEW c \in Nat, NEW e \in Nat, NEW R, NEW t \in Seq(R), TagsFrom(d, e, t),
         NEW r \in R, IsTag(d, r), r.offset >= c, LastOf(r) < e, e >= c
  PROVE  TagsFrom(d, c, <<r>> \o t)
<1> DEFINE u == <<r>> \o t
<1>1. /\ DOMAIN t = 1 .. Len(t) /\ Len(t) \in Nat /\ DOMAIN u = 1 .. Len(t) + 1
      /\ u[1] = r /\ \A k \in 1 .. Len(t) : u[k + 1] = t[k]
  BY Prepended
<1> HIDE DEF u
<1>2. \A k \in DOMAIN u : k = 1 \/ (k - 1 \in 1 .. Len(t) /\ u[k] = t[k - 1])
  <2> SUFFICES ASSUME NEW k \in DOMAIN u, k # 1 PROVE k - 1 \in 1 .. Len(t) /\ u[k] = t[k - 1]
    OBVIOUS
  <2>1. k - 1 \in 1 .. Len(t) /\ (k - 1) + 1 = k
    BY <1>1
  <2> QED
    BY <1>1, <2>1
<1>3. \A k \in DOMAIN t : IsTag(d, t[k]) /\ t[k].offset >= e /\ t[k].offset \in Nat
  BY DEF TagsFrom, IsTag, Solid
<1>4. LastOf(r) \in Int
  BY DEF IsTag, Solid, LastOf
<1>5. ASSUME NEW k \in DOMAIN u PROVE IsTag(d, u[k]) /\ u[k].offset >= c
  BY <1>1, <1>2, <1>3
<1>6. ASSUME NEW j \in DOMAIN u, NEW k \in DOMAIN u, j < k PROVE LastOf(u[j]) < u[k].offset
  <2>1. k - 1 \in DOMAIN t /\ u[k] = t[k - 1]
    BY <1>1, <1>2, <1>6
  <2>2. CASE j = 1
    BY <1>1, <1>3, <1>4, <2>1, <2>2
  <2>3. CASE j # 1
    <3>1. j - 1 \in DOMAIN t /\ u[j] = t[j - 1] /\ j - 1 < k - 1
      BY <1>1, <1>2, <1>6, <2>3
    <3> QED
      BY <2>1, <3>1 DEF TagsFrom
  <2> QED
    BY <2>2, <2>3
<1>7. TagsFrom(d, c, u)
  BY <1>5, <1>6 DEF TagsFrom
<1> QED
  BY <1>7 DEF u

LEMMA TagsWiden ==
  ASSUME NEW d, NEW c \in Nat, NEW e \in Nat, NEW t, TagsFrom(d, e, t), e >= c
  PROVE  TagsFrom(d, c, t)
<1>1. \A k \in DOMAIN t : t[k].offset \in Nat /\ t[k].offset >= e
  BY DEF TagsFrom, IsTag, Solid
<1>2. \A k \in DOMAIN t : t[k].offset >= c
  BY <1>1
<1> QED
  BY <1>2 DEF TagsFrom

LEMMA MarkerLength == Len(Marker) \in Nat \ {0} /\ RecordLength(0) = Len(Marker) + 2
  BY StringRecoveryAssumption DEF RecordLength

LEMMA DecodedLength ==
  ASSUME NEW A, NEW s \in Seq(A), NEW key
  PROVE  Len(Decoded(s, key)) = Len(s)
  BY DecodedKeepsLength

\* The record at p holds r: m encoded bytes from b on.
RecordAt(d, p, b, m, key, r) ==
  /\ SubSeq(d, p, p + Len(Marker) - 1) = Marker
  /\ b = p + Len(Marker) + 2 /\ d[p + Len(Marker) + 1] = m /\ b + m - 1 <= Len(d)
  /\ r = Result(p, "byte", key, Decoded(SubSeq(d, b, b + m - 1), key)) /\ IsText(r.value)

LEMMA RecordIsTag ==
  ASSUME NEW d \in Seq(Bytes), NEW p \in Nat \ {0}, NEW m \in Nat \ {0}, NEW b, NEW key, NEW r,
         RecordAt(d, p, b, m, key, r)
  PROVE  IsTag(d, r) /\ r.offset = p /\ LastOf(r) = p + m - 1
<1> DEFINE part == SubSeq(d, b, b + m - 1)
           L == Len(Marker)
<1> USE DEF RecordAt
<1>1. L \in Nat \ {0} /\ RecordLength(0) = L + 2 /\ Len(d) \in Nat
  BY MarkerLength
<1>2. /\ r.value = Decoded(part, key) /\ r.offset = p /\ r.kind = "byte" /\ r.key = key
      /\ IsText(r.value)
  BY DEF Result
<1>3. b \in 1 .. Len(d) /\ b + m - 1 \in b .. Len(d)
  BY <1>1
<1>4. part \in Seq(Bytes) /\ Len(part) = (b + m - 1) - b + 1
  BY <1>3, PartOf
<1>5. Len(part) = m
  BY <1>3, <1>4
<1> HIDE DEF part
<1>6. Len(r.value) = m
  BY <1>2, <1>4, <1>5, DecodedLength
<1>7. Solid(r)
  BY <1>2, <1>6 DEF Solid
<1>8. r.offset + RecordLength(0) = b
  BY <1>1, <1>2
<1>9. IsTag(d, r)
  BY <1>2, <1>6, <1>7, <1>8 DEF IsTag, part
<1>10. LastOf(r) = p + m - 1
  BY <1>1, <1>2, <1>6 DEF LastOf
<1> QED
  BY <1>2, <1>9, <1>10

LEMMA TaggedAreTags ==
  ASSUME NEW d \in Seq(Bytes)
  PROVE  Tagged(d) \in Seq(Range(Tagged(d))) /\ TagsFrom(d, 1, Tagged(d))
<1> DEFINE n == Len(d)
           L == Len(Marker)
           D == 1 .. n + 1
           starts(c) == {p \in c .. n - RecordLength(0) + 1 : SubSeq(d, p, p + L - 1) = Marker}
           p(c) == Min(starts(c))
           body(c) == p(c) + RecordLength(0)
           length(c) == d[body(c) - 1]
           value(c) == Decoded(SubSeq(d, body(c), body(c) + length(c) - 1), <<d[body(c) - 2]>>)
           stops(c) == starts(c) = {} \/ body(c) + length(c) - 1 > n
           kept(c) == length(c) >= Limit.tagged /\ IsText(value(c))
           here(c) == Result(p(c), "byte", <<d[body(c) - 2]>>, value(c))
           after(c) == body(c) + length(c)
           R == {here(c) : c \in D}
           V == Seq(R)
           Solves(f) == f = [c \in D |->
             IF stops(c) THEN <<>>
             ELSE (IF kept(c) THEN <<here(c)>> ELSE <<>>) \o f[after(c)]]
           from == CHOOSE f : Solves(f)
<1>1. /\ n \in Nat /\ L \in Nat \ {0} /\ Limit.tagged \in Nat \ {0}
      /\ RecordLength(0) = L + 2
  BY StringRecoveryAssumption DEF RecordLength
<1>2. Tagged(d) = from[1]
  BY DEF Tagged
<1>3. ASSUME NEW c \in D, ~stops(c)
      PROVE  /\ p(c) \in Nat /\ c <= p(c) /\ p(c) + L + 1 <= n
             /\ SubSeq(d, p(c), p(c) + L - 1) = Marker
             /\ body(c) = p(c) + L + 2 /\ length(c) = d[p(c) + L + 1] /\ length(c) \in Nat
             /\ body(c) + length(c) - 1 <= n /\ after(c) \in c + 1 .. n + 1
  <2> DEFINE Here == starts(c)
             q == Min(Here)
  <2>0. c \in Nat \ {0} /\ c <= n + 1
    BY <1>1
  <2>1. Here \in SUBSET Nat /\ Here # {}
    <3>1. starts(c) # {}
      BY <1>3
    <3> QED
      BY <2>0, <3>1
  <2>2. q \in Here
    <3> HIDE DEF Here
    <3> QED
      BY <2>1, MinIsLeast
  <2> HIDE DEF q
  <2>3. q \in c .. n - (L + 2) + 1 /\ SubSeq(d, q, q + L - 1) = Marker
    BY <1>1, <2>2
  <2>4. q \in Nat /\ c <= q /\ q + L + 1 <= n
    BY <1>1, <2>3
  <2>5. q = p(c)
    BY DEF q
  <2> HIDE DEF Here, p
  <2>6. body(c) = q + L + 2 /\ body(c) - 1 = q + L + 1
    <3>1. body(c) = q + (L + 2)
      BY <1>1, <2>5
    <3>2. q \in Nat /\ L \in Nat
      BY <1>1, <2>4
    <3> HIDE DEF body, L, n
    <3> QED
      BY <3>1, <3>2
  <2>7. length(c) = d[q + L + 1]
    <3>1. length(c) = d[body(c) - 1]
      OBVIOUS
    <3> HIDE DEF length, body
    <3> QED
      BY <2>6, <3>1
  <2>8. length(c) \in Nat
    <3>1. q + L + 1 \in 1 .. n
      BY <1>1, <2>4
    <3>2. d[q + L + 1] \in Bytes
      BY <3>1
    <3> HIDE DEF length
    <3> QED
      BY <2>7, <3>2, ByteType
  <2> HIDE DEF length
  <2>9. ~(body(c) + length(c) - 1 > n)
    BY <1>3
  <2> HIDE DEF body
  <2> DEFINE b == body(c)
             m == length(c)
  <2>10. b \in Nat /\ m \in Nat /\ b >= c + 1 /\ ~(b + m - 1 > n)
    BY <1>1, <2>0, <2>4, <2>6, <2>8, <2>9
  <2> HIDE DEF b, m
  <2>11. b + m - 1 <= n /\ b + m \in c + 1 .. n + 1
    BY <1>1, <2>0, <2>10
  <2>12. body(c) + length(c) - 1 <= n /\ after(c) \in c + 1 .. n + 1
    BY <2>11 DEF b, m
  <2> HIDE DEF after
  <2> QED
    BY <2>3, <2>4, <2>5, <2>6, <2>7, <2>8, <2>12
<1> HIDE DEF p, body, length, stops
<1>4. ASSUME NEW c \in D, ~stops(c), kept(c)
      PROVE  IsTag(d, here(c)) /\ here(c).offset = p(c) /\ LastOf(here(c)) < after(c)
  <2> DEFINE q == p(c)
             b == body(c)
             m == length(c)
             r == here(c)
             key == <<d[b - 2]>>
  <2>1. /\ q \in Nat /\ c <= q /\ SubSeq(d, q, q + L - 1) = Marker
        /\ b = q + L + 2 /\ d[q + L + 1] = m /\ m \in Nat /\ b + m - 1 <= n
    BY <1>3, <1>4
  <2>2. m >= Limit.tagged /\ IsText(Decoded(SubSeq(d, b, b + m - 1), key))
    BY <1>4
  <2>3. r = Result(q, "byte", key, Decoded(SubSeq(d, b, b + m - 1), key)) /\ after(c) = b + m
    OBVIOUS
  <2>4. c \in Nat \ {0}
    BY <1>1
  <2> HIDE DEF q, b, m, r, key, after, here, kept
  <2>5. q \in Nat \ {0} /\ m \in Nat \ {0}
    BY <1>1, <2>1, <2>2, <2>4
  <2>9. r.value = Decoded(SubSeq(d, b, b + m - 1), key)
    BY <2>3 DEF Result
  <2>6. RecordAt(d, q, b, m, key, r)
    BY <2>1, <2>2, <2>3, <2>9 DEF RecordAt
  <2> HIDE DEF n, L
  <2>7. IsTag(d, r) /\ r.offset = q /\ LastOf(r) = q + m - 1
    BY <2>5, <2>6, RecordIsTag
  <2>8. LastOf(r) < after(c)
    BY <1>1, <2>1, <2>3, <2>5, <2>7
  <2> QED
    BY <2>7, <2>8 DEF q, r
<1> HIDE DEF after, here, kept
<1>5. \E f : Solves(f)
  <2> DEFINE rank == [c \in D |-> n + 1 - c]
             ends == {c \in D : stops(c)}
             next == [c \in D |-> IF stops(c) THEN c ELSE after(c)]
             start == [c \in D |-> <<>>]
             step == [x \in D \X V |->
               IF stops(x[1]) THEN x[2]
               ELSE (IF kept(x[1]) THEN <<here(x[1])>> ELSE <<>>) \o x[2]]
  <2>1. rank \in [D -> 0 .. n + 1] /\ n + 1 \in Nat
    BY <1>1
  <2>2. Descends(next, rank, D, ends)
    <3> SUFFICES ASSUME NEW c \in D, c \notin ends
                 PROVE  next[c] \in D /\ rank[next[c]] < rank[c]
      BY DEF Descends
    <3>1. next[c] = after(c) /\ after(c) \in c + 1 .. n + 1
      BY <1>3
    <3>2. next[c] \in D /\ c \in Nat /\ next[c] > c
      BY <1>1, <3>1
    <3> HIDE DEF next
    <3> QED
      BY <1>1, <3>2
  <2>3. start \in [D -> V]
    OBVIOUS
  <2>4. step \in [D \X V -> V]
    <3> SUFFICES ASSUME NEW c \in D, NEW v \in V
                 PROVE  (IF kept(c) THEN <<here(c)>> ELSE <<>>) \o v \in V
      OBVIOUS
    <3>1. here(c) \in R
      OBVIOUS
    <3> HIDE DEF R
    <3>2. <<here(c)>> \o v \in V /\ <<>> \o v \in V
      BY <3>1
    <3> QED
      BY <3>2
  <2>5. PICK f \in [D -> V] : Recursion(f, D, ends, start, next, step)
    <3> HIDE DEF D, V, rank, ends, next, start, step
    <3> QED
      BY <2>1, <2>2, <2>3, <2>4, RecursionDefined
  <2>6. ASSUME NEW c \in D
        PROVE  f[c] = IF stops(c) THEN <<>>
                      ELSE (IF kept(c) THEN <<here(c)>> ELSE <<>>) \o f[after(c)]
    <3>1. CASE stops(c)
      <4>1. c \in ends /\ start[c] = <<>>
        BY <3>1
      <4> QED
        BY <2>5, <3>1, <4>1 DEF Recursion
    <3>2. CASE ~stops(c)
      <4>1. c \notin ends /\ next[c] = after(c) /\ next[c] \in D
        BY <2>2, <3>2 DEF Descends
      <4>2. f[c] = step[<<c, f[after(c)]>>]
        BY <2>5, <4>1 DEF Recursion
      <4>3. f[after(c)] \in V
        BY <2>5, <4>1
      <4> HIDE DEF V
      <4> QED
        BY <3>2, <4>2, <4>3
    <3> QED
      BY <3>1, <3>2
  <2>7. Solves(f)
    <3> HIDE DEF V
    <3> QED
      BY <2>5, <2>6
  <2> HIDE DEF Solves
  <2> QED
    BY <2>7
<1>6. Solves(from)
  <2> HIDE DEF Solves
  <2> QED
    BY <1>5
<1> HIDE DEF from
<1> DEFINE Q == {c \in D : from[c] \in V /\ TagsFrom(d, c, from[c])}
           rank == [c \in D |-> n + 1 - c]
<1>7. ASSUME NEW c \in D, \A e \in D : rank[e] < rank[c] => e \in Q PROVE c \in Q
  <2>1. from[c] = IF stops(c) THEN <<>>
                  ELSE (IF kept(c) THEN <<here(c)>> ELSE <<>>) \o from[after(c)]
    BY <1>6
  <2>2. CASE stops(c)
    <3>1. from[c] = <<>> /\ <<>> \in V /\ TagsFrom(d, c, <<>>)
      BY <2>1, <2>2 DEF TagsFrom
    <3> HIDE DEF V
    <3> QED
      BY <3>1
  <2>3. CASE ~stops(c)
    <3> DEFINE e == after(c)
               t == from[e]
    <3>0. e \in c + 1 .. n + 1 /\ c \in Nat \ {0}
      BY <1>1, <1>3, <2>3
    <3>1. e \in D /\ e \in Nat /\ c \in Nat /\ e >= c /\ rank[e] < rank[c]
      <4> HIDE DEF e
      <4> QED
        BY <1>1, <3>0
    <3>2. t \in V /\ TagsFrom(d, e, t)
      BY <1>7, <3>1
    <3>3. CASE kept(c)
      <4>1. from[c] = <<here(c)>> \o t
        BY <2>1, <2>3, <3>3
      <4>2. here(c) \in R /\ IsTag(d, here(c)) /\ here(c).offset >= c /\ LastOf(here(c)) < e
        BY <1>3, <1>4, <2>3, <3>3
      <4> HIDE DEF e, t, R
      <4>3. TagsFrom(d, c, <<here(c)>> \o t)
        BY <3>1, <3>2, <4>2, TagsGrow
      <4>4. <<here(c)>> \o t \in V
        BY <3>2, <4>2
      <4> HIDE DEF V
      <4> QED
        BY <4>1, <4>3, <4>4
    <3>4. CASE ~kept(c)
      <4>1. from[c] = <<>> \o t
        BY <2>1, <2>3, <3>4
      <4> HIDE DEF e, t, R
      <4>2. <<>> \o t = t
        BY <3>2
      <4>3. TagsFrom(d, c, t)
        BY <3>1, <3>2, TagsWiden
      <4> HIDE DEF V
      <4> QED
        BY <3>2, <4>1, <4>2, <4>3
    <3> QED
      BY <3>3, <3>4
  <2> QED
    BY <2>2, <2>3
<1>8. D \subseteq Q
  <2>1. rank \in [D -> Nat]
    BY <1>1
  <2> HIDE DEF D, Q, rank
  <2> QED
    BY <1>7, <2>1, RankInduction
<1>9. 1 \in D
  BY <1>1
<1>10. from[1] \in V /\ TagsFrom(d, 1, from[1])
  BY <1>8, <1>9
<1>11. from[1] \in Seq(Range(from[1]))
  <2> HIDE DEF R
  <2> QED
    BY <1>10 DEF Range
<1> QED
  BY <1>2, <1>10, <1>11

(***************************************************************************)
(* What the single-byte pass has to choose from.                           *)
(***************************************************************************)
\* A text read off the bytes: printable where they are not, with a known word.
IsReading(d, r) ==
  /\ Solid(r) /\ IsText(r.value) /\ LastOf(r) <= Len(d)
  /\ Decoded(SubSeq(d, r.offset, LastOf(r)), r.key) = r.value
  /\ ~IsText(SubSeq(d, r.offset, LastOf(r)))
  /\ \E w \in Words : Occurs(w, Folded(r.value))

Pieces(s) == {m \in [first : 1 .. Len(s), last : 1 .. Len(s)] : m.first <= m.last}

\* The candidate is told by its result.
IsCandidate(d, kind, c) ==
  /\ c = Scored(c.tie, c.result) /\ c.tie \in Nat /\ c.result.kind = kind
  /\ IsReading(d, c.result)

LEMMA SamplePart ==
  ASSUME NEW d \in Seq(Bytes)
  PROVE  /\ Sample(d) \in Seq(Bytes) /\ Len(Sample(d)) <= Len(d) /\ Len(Sample(d)) \in Nat
         /\ \A a \in 1 .. Len(Sample(d)) : \A b \in a .. Len(Sample(d)) :
              SubSeq(Sample(d), a, b) = SubSeq(d, a, b)
<1> DEFINE n == Min({Len(d), Limit.sample})
<1>1. Len(d) \in Nat /\ Limit.sample \in Nat
  BY StringRecoveryAssumption
<1>2. n \in {Len(d), Limit.sample} /\ n <= Len(d)
  BY <1>1, LeastOfTwo
<1> HIDE DEF n
<1>3. n \in 0 .. Len(d)
  BY <1>1, <1>2
<1>4. Sample(d) = SubSeq(d, 1, n)
  BY DEF Sample, n
<1>5. /\ SubSeq(d, 1, n) \in Seq(Bytes) /\ Len(SubSeq(d, 1, n)) = n
      /\ \A a \in 1 .. n : \A b \in a .. n : SubSeq(SubSeq(d, 1, n), a, b) = SubSeq(d, a, b)
  BY <1>3, PrefixPart
<1> QED
  BY <1>1, <1>2, <1>3, <1>4, <1>5

LEMMA FirstOfTyped ==
  ASSUME NEW V, NEW s \in Seq(V), NEW n \in Nat
  PROVE  FirstOf(s, n) \in Seq(V)
<1>1. Len(s) \in Nat
  OBVIOUS
<1>2. Min({n, Len(s)}) \in {n, Len(s)} /\ Min({n, Len(s)}) <= Len(s)
  BY <1>1, LeastOfTwo
<1>3. Min({n, Len(s)}) \in 0 .. Len(s)
  BY <1>1, <1>2
<1> QED
  BY <1>3, PrefixPart DEF FirstOf

\* A reading of m under one byte.
LEMMA SpanIsReading ==
  ASSUME NEW d \in Seq(Bytes), NEW key, NEW m \in Pieces(Sample(d)),
         NEW r, r.offset = m.first, r.key = <<key>>,
         r.value = SubSeq(Decoded(Sample(d), <<key>>), m.first, m.last),
         \A p \in m.first .. m.last : Decoded(Sample(d), <<key>>)[p] \in Printable,
         ~IsText(SubSeq(Sample(d), m.first, m.last)),
         GoodEnough(r.value, 82)
  PROVE  IsReading(d, r) /\ LastOf(r) = m.last /\ Len(r.value) = m.last - m.first + 1
<1> DEFINE s == Sample(d)
           a == m.first
           b == m.last
           byteKey == <<key>>
           plain == Decoded(s, byteKey)
           l == b - a + 1
<1>1. /\ s \in Seq(Bytes) /\ Len(s) <= Len(d) /\ Len(s) \in Nat /\ Len(d) \in Nat
      /\ SubSeq(s, a, b) = SubSeq(d, a, b)
  BY SamplePart DEF Pieces
<1>2. a \in 1 .. Len(s) /\ b \in a .. Len(s)
  BY DEF Pieces
<1>3. a \in Nat \ {0} /\ b \in Nat /\ a <= b /\ b <= Len(d) /\ l \in Nat \ {0}
  BY <1>1, <1>2
<1>4. SubSeq(plain, a, b) = Decoded(SubSeq(s, a, b), byteKey)
  <2>1. SubSeq(Decoded(s, <<key>>), a, b) = Decoded(SubSeq(s, a, b), <<key>>)
    <3> HIDE DEF s, a, b
    <3> QED
      BY <1>1, <1>2, DecodedPart
  <2> QED
    BY <2>1
<1>5. plain \in Seq(Range(plain)) /\ Len(plain) = Len(s)
  <2> HIDE DEF s, byteKey
  <2> QED
    BY <1>1, DecodedKeepsLength
<1>6. r.value = SubSeq(plain, a, b)
  OBVIOUS
<1>7. \A p \in a .. b : plain[p] \in Printable
  OBVIOUS
<1>8. ~IsText(SubSeq(d, a, b)) /\ r.key = byteKey /\ r.offset = a
  BY <1>1
<1> HIDE DEF s, a, b, byteKey, plain
<1>9. /\ r.value \in Seq(Range(plain)) /\ Len(r.value) = l
      /\ \A k \in 1 .. l : r.value[k] = plain[a + k - 1]
  <2>1. a \in 1 .. Len(plain) /\ b \in a .. Len(plain)
    BY <1>2, <1>5
  <2> DEFINE A == Range(plain)
             u == SubSeq(plain, a, b)
  <2>2. plain \in Seq(A)
    BY <1>5
  <2> HIDE DEF A
  <2>3. u \in Seq(A) /\ Len(u) = l /\ \A k \in 1 .. l : u[k] = plain[a + k - 1]
    BY <2>1, <2>2, PartOf
  <2> HIDE DEF l
  <2> QED
    BY <1>6, <2>3 DEF A
<1>10. \A k \in 1 .. l : a + k - 1 \in a .. b
  BY <1>3
<1>11. IsText(r.value)
  <2>1. \A k \in 1 .. l : r.value[k] \in Printable
    BY <1>7, <1>9, <1>10
  <2> QED
    BY <1>9, <2>1, TextOfClass
<1>12. LastOf(r) = b
  BY <1>3, <1>8, <1>9 DEF LastOf
<1>13. \E w \in Words : Occurs(w, Folded(r.value))
  <2>1. Len(r.value) > 0
    BY <1>3, <1>9
  <2> QED
    BY <1>9, <2>1, GoodTextHoldsWord
<1>14. Solid(r)
  BY <1>3, <1>8, <1>9 DEF Solid
<1>15. Decoded(SubSeq(d, r.offset, LastOf(r)), r.key) = r.value
  BY <1>1, <1>4, <1>6, <1>8, <1>12
<1>16. IsReading(d, r)
  BY <1>3, <1>8, <1>11, <1>12, <1>13, <1>14, <1>15 DEF IsReading
<1> QED
  BY <1>9, <1>12, <1>16 DEF a, b

\* The record's place, header and all, is free of the result.
ClearOfRecords(r, records) ==
  \A k \in DOMAIN records :
    Clear(r.offset, LastOf(r), records[k].offset,
          records[k].offset + RecordLength(Len(records[k].value)) - 1)

SingleCandidate(d, records, c) ==
  IsCandidate(d, "byte", c) /\ ClearOfRecords(c.result, records)

LEMMA ScoredIsCandidate ==
  ASSUME NEW d, NEW r, r.offset \in Nat, IsReading(d, r), NEW tie \in Nat
  PROVE  IsCandidate(d, r.kind, Scored(tie, r)) /\ Scored(tie, r).result = r
<1>1. Scored(tie, r).tie = tie /\ Scored(tie, r).result = r
  BY DEF Scored
<1> QED
  BY <1>1 DEF IsCandidate

SinglesOf(d, records, s) ==
  \E C : s \in Seq(C) /\ \A c \in C : SingleCandidate(d, records, c)

LEMMA SinglesAreCandidates ==
  ASSUME NEW d \in Seq(Bytes), NEW records
  PROVE  SinglesOf(d, records, SingleCandidates(d, records))
<1> DEFINE s == Sample(d)
           N == 2^Bits - 1
           plain(key) == Decoded(s, <<key>>)
           runs(key) == Matches(plain(key), Printable, Limit.run, Limit.longest)
           value(key, m) == SubSeq(plain(key), m.first, m.last)
           kept(key, m) ==
              /\ \A k \in DOMAIN records :
                   Clear(m.first, m.last, records[k].offset,
                         records[k].offset + RecordLength(Len(records[k].value)) - 1)
              /\ ~IsText(SubSeq(s, m.first, m.last))
              /\ GoodEnough(value(key, m), 82)
           result(key, m) == Result(m.first, "byte", <<key>>, value(key, m))
           of(key, m) == Scored(m.first, result(key, m))
           each(key) == [k \in DOMAIN runs(key) |->
                           IF kept(key, runs(key)[k]) THEN <<of(key, runs(key)[k])>> ELSE <<>>]
           parts == [key \in 1 .. N |-> FlattenSeq(each(key))]
           C == {c \in {of(p[1], p[2]) : p \in (1 .. N) \X Pieces(s)} :
                   SingleCandidate(d, records, c)}
<1>1. SingleCandidates(d, records) = FirstOf(FlattenSeq(parts), Limit.candidates)
  BY DEF SingleCandidates
<1>2. /\ N \in Int /\ Limit.run \in Nat \ {0} /\ Limit.longest \in Nat
      /\ Limit.candidates \in Nat
  BY StringRecoveryAssumption
<1>3. s \in Seq(Bytes) /\ Len(s) \in Nat
  BY SamplePart
<1>4. ASSUME NEW key \in 1 .. N PROVE FlattenSeq(each(key)) \in Seq(C)
  <2> DEFINE t == plain(key)
             W == Spans(t, Printable)
  <2>1. t \in Seq(Range(t)) /\ Len(t) = Len(s)
    <3> DEFINE byteKey == <<key>>
    <3>1. t = Decoded(s, byteKey)
      OBVIOUS
    <3> HIDE DEF s, byteKey, t
    <3> QED
      BY <1>3, <3>1, DecodedKeepsLength
  <2>2. runs(key) \in Seq(W)
    <3> DEFINE A == Range(t)
    <3>1. t \in Seq(A)
      BY <2>1
    <3> HIDE DEF A, t
    <3>2. Matches(t, Printable, Limit.run, Limit.longest) \in Seq(W)
      BY <1>2, <3>1, MatchesAreSpans
    <3> QED
      BY <3>2 DEF t
  <2>3. ASSUME NEW m \in W
        PROVE  m \in Pieces(s) /\ \A p \in m.first .. m.last : t[p] \in Printable
    <3> HIDE DEF t, s
    <3> QED
      BY <2>1 DEF Spans, Pieces
  <2>4. ASSUME NEW m \in W, kept(key, m) PROVE of(key, m) \in C
    <3> DEFINE r == result(key, m)
    <3>1. /\ r.offset = m.first /\ r.key = <<key>> /\ r.kind = "byte"
          /\ r.value = SubSeq(Decoded(s, <<key>>), m.first, m.last)
      BY DEF Result
    <3>2. GoodEnough(r.value, 82) /\ ~IsText(SubSeq(s, m.first, m.last))
      BY <2>4, <3>1
    <3>3. \A p \in m.first .. m.last : Decoded(s, <<key>>)[p] \in Printable
      BY <2>3
    <3>4. m \in Pieces(s)
      BY <2>3
    <3> HIDE DEF r
    <3>5. IsReading(d, r) /\ LastOf(r) = m.last
      BY <3>1, <3>2, <3>3, <3>4, SpanIsReading
    <3>6. ClearOfRecords(r, records)
      BY <2>4, <3>1, <3>5 DEF ClearOfRecords
    <3>7. m.first \in Nat
      BY <3>4, <1>3 DEF Pieces
    <3>8. IsCandidate(d, "byte", Scored(m.first, r)) /\ Scored(m.first, r).result = r
      BY <3>1, <3>5, <3>7, ScoredIsCandidate
    <3>9. SingleCandidate(d, records, of(key, m))
      BY <3>6, <3>8 DEF r, SingleCandidate
    <3>10. of(key, m) \in {of(p[1], p[2]) : p \in (1 .. N) \X Pieces(s)}
      <4>1. <<key, m>> \in (1 .. N) \X Pieces(s)
        BY <3>4
      <4> HIDE DEF of, N, s
      <4> QED
        BY <4>1
    <3> QED
      BY <3>9, <3>10
  <2> DEFINE n == Len(runs(key))
  <2>5. n \in Int /\ DOMAIN runs(key) = 1 .. n /\ \A k \in 1 .. n : runs(key)[k] \in W
    <3> HIDE DEF W, runs
    <3> QED
      BY <2>2
  <2>6. each(key) \in [1 .. n -> Seq(C)]
    <3> HIDE DEF W, runs, C, kept, of
    <3>1. \A k \in 1 .. n : (IF kept(key, runs(key)[k]) THEN <<of(key, runs(key)[k])>> ELSE <<>>)
                              \in Seq(C)
      BY <2>4, <2>5
    <3> QED
      BY <2>5, <3>1
  <2> HIDE DEF n, each, C
  <2> QED
    BY <2>5, <2>6, FlattenedIn
<1>5. parts \in [1 .. N -> Seq(C)]
  BY <1>4
<1> HIDE DEF parts, C, N
<1>6. FlattenSeq(parts) \in Seq(C)
  BY <1>2, <1>5, FlattenedIn
<1>7. SingleCandidates(d, records) \in Seq(C)
  BY <1>1, <1>2, <1>6, FirstOfTyped
<1> QED
  BY <1>7 DEF C, SinglesOf

(***************************************************************************)
(* What the repeating-key pass has to choose from.                         *)
(***************************************************************************)
LEMMA LongestKey ==
  ASSUME NEW l \in Nat
  PROVE  Max((2 .. Min({Limit.key, l \div Limit.share})) \union {1}) \in Nat
<1> DEFINE x == Min({Limit.key, l \div Limit.share})
           S == (2 .. x) \union {1}
<1>1. Limit.key \in Nat /\ Limit.share \in Nat \ {0}
  BY StringRecoveryAssumption
<1>2. l \div Limit.share \in Nat
  BY <1>1
<1>3. x \in Nat
  <2> DEFINE y == l \div Limit.share
  <2>1. y \in Nat
    BY <1>2
  <2> HIDE DEF y
  <2> QED
    BY <1>1, <2>1, LeastOfTwo
<1> HIDE DEF x
<1>4. S \in SUBSET (0 .. x + 1) /\ S # {} /\ x + 1 \in Nat
  BY <1>3
<1>7. S \subseteq Nat
  BY <1>3
<1> HIDE DEF S
<1>5. Max(S) \in S
  BY <1>4, MaxIsGreatest
<1>6. Max(S) \in Nat
  BY <1>5, <1>7
<1> QED
  BY <1>6 DEF S, x

\* A reading of m under a key of several bytes.
LEMMA RegionIsReading ==
  ASSUME NEW d \in Seq(Bytes), NEW m \in Pieces(Sample(d)), NEW key,
         NEW r, r.offset = m.first, r.key = key,
         r.value = Decoded(SubSeq(Sample(d), m.first, m.last), key),
         IsText(r.value), ~IsText(SubSeq(Sample(d), m.first, m.last)),
         GoodEnough(r.value, 86)
  PROVE  IsReading(d, r) /\ Len(r.value) \in Nat
<1> DEFINE s == Sample(d)
           a == m.first
           b == m.last
           part == SubSeq(d, a, b)
           l == b - a + 1
<1>1. /\ s \in Seq(Bytes) /\ Len(s) <= Len(d) /\ Len(s) \in Nat /\ Len(d) \in Nat
      /\ SubSeq(s, a, b) = part
  <2>1. a \in 1 .. Len(s) /\ b \in a .. Len(s)
    BY DEF Pieces
  <2> HIDE DEF a, b
  <2> QED
    BY <2>1, SamplePart
<1>2. a \in 1 .. Len(s) /\ b \in a .. Len(s)
  BY DEF Pieces
<1>3. /\ a \in Nat \ {0} /\ b \in Nat /\ a <= b /\ b <= Len(d) /\ l \in Nat \ {0}
      /\ a \in 1 .. Len(d) /\ b \in a .. Len(d)
  BY <1>1, <1>2
<1>4. r.offset = a /\ r.value = Decoded(part, key) /\ ~IsText(part)
  BY <1>1
<1> HIDE DEF s, a, b
<1>5. part \in Seq(Bytes) /\ Len(part) = l
  BY <1>3, PartOf
<1>6. part = SubSeq(d, a, b)
  OBVIOUS
<1> HIDE DEF part
<1>7. r.value \in Seq(Range(r.value)) /\ Len(r.value) = l
  <2>1. /\ Decoded(part, key) \in Seq(Range(Decoded(part, key)))
        /\ Len(Decoded(part, key)) = Len(part)
    BY <1>5, DecodedKeepsLength
  <2> QED
    BY <1>4, <1>5, <2>1
<1>8. LastOf(r) = b
  BY <1>3, <1>4, <1>7 DEF LastOf
<1>9. \E w \in Words : Occurs(w, Folded(r.value))
  <2>1. Len(r.value) > 0
    BY <1>3, <1>7
  <2> DEFINE A == Range(r.value)
  <2>2. r.value \in Seq(A)
    BY <1>7
  <2> HIDE DEF A
  <2> QED
    BY <2>1, <2>2, GoodTextHoldsWord
<1>10. Solid(r)
  BY <1>3, <1>4, <1>7 DEF Solid
<1>11. IsReading(d, r)
  BY <1>3, <1>4, <1>6, <1>8, <1>9, <1>10 DEF IsReading
<1> QED
  BY <1>3, <1>7, <1>11

RepeatingOf(d, s) == \E C : s \in Seq(C) /\ \A c \in C : IsCandidate(d, "bytes", c)

LEMMA RepeatingAreCandidates ==
  ASSUME NEW d \in Seq(Bytes)
  PROVE  RepeatingOf(d, RepeatingCandidates(d))
<1> DEFINE s == Sample(d)
           regions == FirstOf(Matches(s, Bytes \ {0}, Limit.run, Limit.region), Limit.regions)
           encoded(m) == SubSeq(s, m.first, m.last)
           key(m, n) == InferredKey(encoded(m), n)
           value(m, n) == Decoded(encoded(m), key(m, n))
           result(m, n) == Result(m.first, "bytes", key(m, n), value(m, n))
           scored(m, n) == Scored(Len(value(m, n)), result(m, n))
           under(m, n) ==
             IF /\ Cardinality(Range(key(m, n))) > 1 /\ IsText(value(m, n))
                /\ GoodEnough(value(m, n), 86)
             THEN <<scored(m, n)>> ELSE <<>>
           longest(m) == Max(KeyLengths(encoded(m)) \union {1})
           each(m) == [n \in 1 .. longest(m) |-> IF n = 1 THEN <<>> ELSE under(m, n)]
           of(m) == IF IsText(encoded(m)) THEN <<>> ELSE FlattenSeq(each(m))
           parts == [k \in DOMAIN regions |-> of(regions[k])]
           W == Spans(s, Bytes \ {0})
           C == {c \in {scored(p[1], p[2]) : p \in W \X Int} : IsCandidate(d, "bytes", c)}
<1>1. RepeatingCandidates(d) = FlattenSeq(parts)
  BY DEF RepeatingCandidates
<1>2. /\ Limit.run \in Nat \ {0} /\ Limit.region \in Nat /\ Limit.regions \in Nat
  BY StringRecoveryAssumption
<1>3. s \in Seq(Bytes) /\ Len(s) \in Nat
  BY SamplePart
<1>4. regions \in Seq(W)
  <2>1. s = Sample(d)
    OBVIOUS
  <2> HIDE DEF s
  <2>2. Matches(s, Bytes \ {0}, Limit.run, Limit.region) \in Seq(W)
    BY <1>2, <1>3, MatchesAreSpans
  <2> HIDE DEF W
  <2> QED
    BY <1>2, <2>2, FirstOfTyped
<1>5. \A m \in W : /\ m \in Pieces(s) /\ m.first \in Nat
                   /\ m.first \in 1 .. Len(s) /\ m.last \in m.first .. Len(s)
  <2> SUFFICES ASSUME NEW m \in W
               PROVE  /\ m \in Pieces(s) /\ m.first \in Nat
                      /\ m.first \in 1 .. Len(s) /\ m.last \in m.first .. Len(s)
    OBVIOUS
  <2> HIDE DEF s
  <2>1. m \in Pieces(s)
    BY DEF Spans, Pieces
  <2>2. m.first \in 1 .. Len(s) /\ m.last \in 1 .. Len(s) /\ m.first <= m.last
    BY <2>1 DEF Pieces
  <2> QED
    BY <1>3, <2>1, <2>2
<1>6. ASSUME NEW m \in W, NEW n \in Int, ~IsText(encoded(m)) PROVE under(m, n) \in Seq(C)
  <2> DEFINE r == result(m, n)
             kept == IsText(value(m, n)) /\ GoodEnough(value(m, n), 86)
  <2>1. /\ r.offset = m.first /\ r.key = key(m, n) /\ r.kind = "bytes"
        /\ r.value = value(m, n)
    BY DEF Result
  <2>2. ASSUME kept PROVE scored(m, n) \in C
    <3>1. IsReading(d, r) /\ Len(r.value) \in Nat
      <4> DEFINE k == key(m, n)
      <4>1. /\ r.offset = m.first /\ r.key = k
            /\ r.value = Decoded(SubSeq(Sample(d), m.first, m.last), k)
            /\ IsText(r.value) /\ ~IsText(SubSeq(Sample(d), m.first, m.last))
            /\ GoodEnough(r.value, 86) /\ m \in Pieces(Sample(d))
        BY <1>5, <1>6, <2>1, <2>2
      <4> HIDE DEF k, r, s, W
      <4> QED
        BY <4>1, RegionIsReading
    <3>2. r.offset \in Nat
      <4> HIDE DEF r, s, W
      <4> QED
        BY <1>5, <2>1
    <3>3. scored(m, n) = Scored(Len(r.value), r)
      BY <2>1
    <3>4. r.kind = "bytes"
      BY <2>1
    <3> HIDE DEF r, scored, W
    <3>7. IsCandidate(d, r.kind, Scored(Len(r.value), r))
      BY <3>1, <3>2, ScoredIsCandidate
    <3>5. IsCandidate(d, "bytes", scored(m, n))
      BY <3>3, <3>4, <3>7
    <3>6. scored(m, n) \in {scored(p[1], p[2]) : p \in W \X Int}
      <4>1. <<m, n>> \in W \X Int
        OBVIOUS
      <4> QED
        BY <4>1
    <3> QED
      BY <3>5, <3>6
  <2> HIDE DEF C, scored
  <2>3. CASE kept
    <3>1. <<scored(m, n)>> \in Seq(C) /\ <<>> \in Seq(C)
      BY <2>2, <2>3
    <3> HIDE DEF value
    <3> QED
      BY <3>1
  <2>4. CASE ~kept
    <3>1. under(m, n) = <<>>
      BY <2>4
    <3> HIDE DEF under
    <3> QED
      BY <3>1
  <2> QED
    BY <2>3, <2>4
<1>7. ASSUME NEW m \in W PROVE of(m) \in Seq(C)
  <2> DEFINE l == Len(encoded(m))
             N == longest(m)
  <2>1. N \in Nat
    <3>1. l \in Nat
      <4>1. m.first \in 1 .. Len(s) /\ m.last \in m.first .. Len(s)
        <5> HIDE DEF s, W
        <5> QED
          BY <1>5
      <4>2. encoded(m) \in Seq(Bytes)
        <5> DEFINE a == m.first
                   b == m.last
        <5>1. a \in 1 .. Len(s) /\ b \in a .. Len(s) /\ encoded(m) = SubSeq(s, a, b)
          BY <4>1
        <5> HIDE DEF s, a, b, encoded
        <5> QED
          BY <1>3, <5>1, PartOf
      <4> HIDE DEF encoded
      <4> QED
        BY <4>2
    <3>2. N = Max((2 .. Min({Limit.key, l \div Limit.share})) \union {1})
      BY DEF KeyLengths
    <3> HIDE DEF l, N
    <3> QED
      BY <3>1, <3>2, LongestKey
  <2>2. each(m) = [n \in 1 .. N |-> IF n = 1 THEN <<>> ELSE under(m, n)]
    OBVIOUS
  <2>3. \A n \in 1 .. N : n \in Int
    OBVIOUS
  <2> HIDE DEF N, under, W, C, each, encoded
  <2>4. CASE IsText(encoded(m))
    BY <2>4
  <2>5. CASE ~IsText(encoded(m))
    <3>1. \A n \in 1 .. N : (IF n = 1 THEN <<>> ELSE under(m, n)) \in Seq(C)
      BY <1>6, <2>3, <2>5
    <3>2. each(m) \in [1 .. N -> Seq(C)]
      BY <2>2, <3>1
    <3>3. FlattenSeq(each(m)) \in Seq(C)
      BY <2>1, <3>2, FlattenedIn
    <3> QED
      BY <2>5, <3>3
  <2> QED
    BY <2>4, <2>5
<1> DEFINE N == Len(regions)
<1>8. N \in Nat /\ DOMAIN regions = 1 .. N /\ \A k \in 1 .. N : regions[k] \in W
  <2> HIDE DEF regions, W
  <2> QED
    BY <1>4
<1>9. parts \in [1 .. N -> Seq(C)]
  <2> HIDE DEF regions, W, of, C, N
  <2> QED
    BY <1>7, <1>8
<1> HIDE DEF N, parts, C
<1>10. FlattenSeq(parts) \in Seq(C)
  BY <1>8, <1>9, FlattenedIn
<1> QED
  BY <1>1, <1>10 DEF RepeatingOf, C

(***************************************************************************)
(* What a pass accepts.                                                    *)
(***************************************************************************)
LEMMA CandidateWeighed ==
  ASSUME NEW d \in Seq(Bytes), NEW kind, NEW c, IsCandidate(d, kind, c)
  PROVE  Weighed(c)
<1> DEFINE r == c.result
           a == r.offset
           b == LastOf(r)
           part == SubSeq(d, a, b)
           key == r.key
<1>1. Solid(r) /\ b <= Len(d) /\ Decoded(part, key) = r.value /\ c.tie \in Nat
  BY DEF IsCandidate, IsReading
<1>2. c.score = TextScore(r.value)
  <2>1. Scored(c.tie, r).score = TextScore(r.value)
    BY DEF Scored
  <2>2. c = Scored(c.tie, r)
    BY DEF IsCandidate
  <2> HIDE DEF r
  <2> QED
    BY <2>1, <2>2
<1>3. a \in Nat \ {0} /\ b \in Nat /\ a <= b /\ Len(d) \in Nat
  BY <1>1 DEF Solid, LastOf
<1>4. part = SubSeq(d, a, b)
  OBVIOUS
<1> HIDE DEF a, b, key, part
<1>5. a \in 1 .. Len(d) /\ b \in a .. Len(d)
  BY <1>1, <1>3
<1>6. part \in Seq(Bytes)
  BY <1>4, <1>5, PartOf
<1> HIDE DEF r
<1>7. Decoded(part, key) \in Seq(Range(Decoded(part, key)))
  BY <1>6, DecodedKeepsLength
<1>8. r.value \in Seq(Range(r.value))
  BY <1>1, <1>7
<1>9. TextScore(r.value) \in Nat
  <2> DEFINE A == Range(r.value)
  <2>1. r.value \in Seq(A)
    BY <1>8
  <2> HIDE DEF A
  <2> QED
    BY <2>1, ScoreNeedsWord
<1> QED
  BY <1>1, <1>2, <1>9 DEF Weighed, r

\* Candidate i is no better than an accepted one it overlaps, or meets what is occupied.
Beaten(i, acc, candidates, occupied) ==
  \/ \E j \in DOMAIN acc : \E h \in DOMAIN candidates :
       /\ acc[j] = candidates[h].result
       /\ ~Apart(candidates[i].result, candidates[h].result)
       /\ ~Better(candidates[i], candidates[h])
  \/ \E o \in DOMAIN occupied : ~Apart(candidates[i].result, occupied[o])

\* What a pass accepts of its candidates.
PassOf(acc, candidates, occupied, cap) ==
  /\ AllApart(acc)
  /\ \A j \in DOMAIN acc : /\ \E i \in DOMAIN candidates : acc[j] = candidates[i].result
                           /\ \A o \in DOMAIN occupied : Apart(acc[j], occupied[o])
  /\ Len(acc) < cap => \A i \in DOMAIN candidates : Beaten(i, acc, candidates, occupied)

LEMMA PassAccepts ==
  ASSUME NEW C, \A c \in C : Weighed(c), NEW candidates \in Seq(C), NEW occupied,
         NEW cap \in Nat
  PROVE  LET acc == Accepted(Ranked(candidates), occupied, cap)
         IN  acc \in Seq({c.result : c \in C}) /\ PassOf(acc, candidates, occupied, cap)
<1> DEFINE R == {c.result : c \in C}
           n == Len(candidates)
           ranked == Ranked(candidates)
           acc == Accepted(ranked, occupied, cap)
<1>1. n \in Nat /\ DOMAIN candidates = 1 .. n /\ \A i \in 1 .. n : candidates[i] \in C
  OBVIOUS
<1>2. PICK order : /\ Ranks(order, candidates)
                   /\ ranked = [k \in DOMAIN candidates |-> candidates[order[k]].result]
  BY RankedByScore
<1> HIDE DEF ranked, n
<1>3. /\ \A k \in 1 .. n : order[k] \in 1 .. n
      /\ \A i \in 1 .. n : \E k \in 1 .. n : order[k] = i
      /\ \A j, k \in 1 .. n :
           j < k => ~Better(candidates[order[k]], candidates[order[j]])
  BY <1>1, <1>2 DEF Ranks
<1>4. \A k \in 1 .. n : ranked[k] = candidates[order[k]].result
  BY <1>1, <1>2
<1>5. \A r \in R : Solid(r)
  BY DEF Weighed
<1>6. ranked \in [1 .. n -> R]
  <2>1. \A k \in 1 .. n : candidates[order[k]].result \in R
    BY <1>1, <1>3
  <2> HIDE DEF R
  <2> QED
    BY <1>1, <1>2, <2>1
<1> HIDE DEF R
<1>7. /\ acc \in Seq(R) /\ Chosen(acc, n, ranked, occupied)
      /\ Len(acc) < cap => \A i \in 1 .. n : Loses(i, acc, ranked, occupied)
  BY <1>1, <1>5, <1>6, AcceptedChosen
<1> HIDE DEF acc
<1>8. ASSUME NEW c \in C PROVE ~Better(c, c)
  BY BetterIsOrder
<1>9. ASSUME NEW i \in 1 .. n, Len(acc) < cap PROVE Beaten(i, acc, candidates, occupied)
  <2>1. PICK k \in 1 .. n : order[k] = i
    BY <1>3
  <2>2. Loses(k, acc, ranked, occupied) /\ ranked[k] = candidates[i].result
    BY <1>4, <1>7, <1>9, <2>1
  <2>3. CASE \E o \in DOMAIN occupied : ~Apart(ranked[k], occupied[o])
    BY <2>2, <2>3 DEF Beaten
  <2>4. CASE \E j \in DOMAIN acc : \E h \in 1 .. k :
               acc[j] = ranked[h] /\ ~Apart(ranked[k], ranked[h])
    <3>1. PICK j \in DOMAIN acc, h \in 1 .. k : acc[j] = ranked[h] /\ ~Apart(ranked[k], ranked[h])
      BY <2>4
    <3>2. h \in 1 .. n /\ (h < k \/ h = k)
      BY <1>1, <3>1
    <3>3. order[h] \in 1 .. n /\ ranked[h] = candidates[order[h]].result
      BY <1>3, <1>4, <3>2
    <3>4. ~Better(candidates[i], candidates[order[h]])
      BY <1>1, <1>3, <1>8, <2>1, <3>2
    <3>5. acc[j] = candidates[order[h]].result
          /\ ~Apart(candidates[i].result, candidates[order[h]].result)
      BY <2>2, <3>1, <3>3
    <3> QED
      BY <1>1, <3>3, <3>4, <3>5 DEF Beaten
  <2> QED
    BY <2>2, <2>3, <2>4 DEF Loses
<1>10. ASSUME NEW j \in DOMAIN acc
       PROVE  /\ \E i \in DOMAIN candidates : acc[j] = candidates[i].result
              /\ \A o \in DOMAIN occupied : Apart(acc[j], occupied[o])
  <2>1. (\E h \in 1 .. n : acc[j] = ranked[h])
        /\ \A o \in DOMAIN occupied : Apart(acc[j], occupied[o])
    BY <1>7 DEF Chosen
  <2>2. PICK h \in 1 .. n : acc[j] = ranked[h]
    BY <2>1
  <2>3. order[h] \in DOMAIN candidates /\ acc[j] = candidates[order[h]].result
    BY <1>1, <1>3, <1>4, <2>2
  <2> QED
    BY <2>1, <2>3
<1>11. PassOf(acc, candidates, occupied, cap)
  BY <1>1, <1>7, <1>9, <1>10 DEF PassOf, Chosen
<1>12. acc \in Seq({c.result : c \in C})
  BY <1>7 DEF R
<1> QED
  BY <1>11, <1>12 DEF acc, ranked

(***************************************************************************)
(* What has been recovered so far never overlaps.                          *)
(***************************************************************************)
Evidence(d, r) == IsTag(d, r) \/ IsReading(d, r)

\* What has been recovered of d: evidence, no two pieces of it overlapping.
Held(d, s) ==
  s \in Seq(Range(s)) /\ AllApart(s) /\ \A k \in DOMAIN s : Evidence(d, s[k])

LEMMA ApartJoined ==
  ASSUME NEW R, NEW s \in Seq(R), NEW t \in Seq(R), AllApart(s), AllApart(t),
         \A j \in DOMAIN t : \A k \in DOMAIN s : Apart(t[j], s[k])
  PROVE  AllApart(s \o t)
<1> DEFINE u == s \o t
           m == Len(s)
           n == Len(t)
<1>1. /\ m \in Nat /\ n \in Nat /\ DOMAIN s = 1 .. m /\ DOMAIN t = 1 .. n
      /\ DOMAIN u = 1 .. m + n
      /\ \A k \in 1 .. m : u[k] = s[k]
      /\ \A k \in m + 1 .. m + n : u[k] = t[k - m]
  OBVIOUS
<1> HIDE DEF u, m, n
<1>2. \A k \in DOMAIN u : \/ k \in DOMAIN s /\ u[k] = s[k]
                          \/ k \notin DOMAIN s /\ k - m \in DOMAIN t /\ u[k] = t[k - m]
  <2> SUFFICES ASSUME NEW k \in DOMAIN u
               PROVE  \/ k \in DOMAIN s /\ u[k] = s[k]
                      \/ k \notin DOMAIN s /\ k - m \in DOMAIN t /\ u[k] = t[k - m]
    OBVIOUS
  <2>1. CASE k <= m
    BY <1>1, <2>1
  <2>2. CASE ~(k <= m)
    <3>1. k \in m + 1 .. m + n /\ k - m \in 1 .. n /\ k \notin 1 .. m
      BY <1>1, <2>2
    <3> QED
      BY <1>1, <3>1
  <2> QED
    BY <2>1, <2>2
<1>3. ASSUME NEW j \in DOMAIN u, NEW k \in DOMAIN u, j # k PROVE Apart(u[j], u[k])
  <2>1. CASE j \in DOMAIN s /\ k \in DOMAIN s
    BY <1>1, <1>3, <2>1 DEF AllApart
  <2>2. CASE j \notin DOMAIN s /\ k \notin DOMAIN s
    <3>1. j - m \in DOMAIN t /\ k - m \in DOMAIN t /\ u[j] = t[j - m] /\ u[k] = t[k - m]
      BY <1>2, <2>2
    <3>2. j - m # k - m
      BY <1>1, <1>3
    <3> QED
      BY <3>1, <3>2 DEF AllApart
  <2>3. CASE j \in DOMAIN s /\ k \notin DOMAIN s
    <3>1. u[j] = s[j] /\ k - m \in DOMAIN t /\ u[k] = t[k - m]
      BY <1>2, <2>3
    <3> QED
      BY <2>3, <3>1, ApartSymmetric
  <2>4. CASE j \notin DOMAIN s /\ k \in DOMAIN s
    <3>1. u[k] = s[k] /\ j - m \in DOMAIN t /\ u[j] = t[j - m]
      BY <1>2, <2>4
    <3> QED
      BY <2>4, <3>1
  <2> QED
    BY <2>1, <2>2, <2>3, <2>4
<1>4. AllApart(u)
  BY <1>3 DEF AllApart
<1> QED
  BY <1>4 DEF u

LEMMA HeldJoined ==
  ASSUME NEW d, NEW s, Held(d, s), NEW R, NEW t \in Seq(R), AllApart(t),
         \A k \in DOMAIN t : Evidence(d, t[k]),
         \A j \in DOMAIN t : \A k \in DOMAIN s : Apart(t[j], s[k])
  PROVE  Held(d, s \o t)
<1> DEFINE Q == Range(s) \union R
           u == s \o t
<1>1. s \in Seq(Q) /\ t \in Seq(Q)
  <2>1. s \in Seq(Range(s))
    BY DEF Held
  <2> DEFINE P == Range(s)
  <2>2. s \in Seq(P)
    BY <2>1
  <2> HIDE DEF P
  <2>3. s \in Seq(P \union R) /\ t \in Seq(P \union R)
    BY <2>2
  <2> QED
    BY <2>3 DEF P
<1> HIDE DEF Q
<1>2. u \in Seq(Q)
  BY <1>1
<1>3. AllApart(u)
  <2>1. AllApart(s)
    BY DEF Held
  <2> QED
    BY <1>1, <2>1, ApartJoined
<1>4. \A k \in DOMAIN u : \/ k \in DOMAIN s /\ u[k] = s[k]
                          \/ k - Len(s) \in DOMAIN t /\ u[k] = t[k - Len(s)]
  BY <1>1
<1>5. \A k \in DOMAIN u : Evidence(d, u[k])
  BY <1>4 DEF Held
<1> HIDE DEF u
<1>6. Held(d, u)
  BY <1>2, <1>3, <1>5, SequenceOfRange DEF Held
<1> QED
  BY <1>6 DEF u

LEMMA TaggedHeld ==
  ASSUME NEW d \in Seq(Bytes)
  PROVE  Held(d, Tagged(d))
<1> DEFINE t == Tagged(d)
<1>1. t \in Seq(Range(t)) /\ TagsFrom(d, 1, t)
  BY TaggedAreTags
<1> HIDE DEF t
<1>2. \A k \in DOMAIN t : IsTag(d, t[k])
  BY <1>1 DEF TagsFrom
<1>3. \A k \in DOMAIN t : LastOf(t[k]) \in Int /\ t[k].offset \in Int
  BY <1>2 DEF IsTag, Solid, LastOf
<1>4. DOMAIN t \subseteq Nat
  <2> DEFINE P == Range(t)
  <2>1. t \in Seq(P)
    BY <1>1
  <2> HIDE DEF P
  <2> QED
    BY <2>1
<1>5. AllApart(t)
  <2> SUFFICES ASSUME NEW j \in DOMAIN t, NEW k \in DOMAIN t, j # k PROVE Apart(t[j], t[k])
    BY DEF AllApart
  <2>1. j < k \/ k < j
    BY <1>4
  <2>2. LastOf(t[j]) < t[k].offset \/ LastOf(t[k]) < t[j].offset
    BY <1>1, <2>1 DEF TagsFrom
  <2> QED
    BY <2>2 DEF Apart, Clear
<1>6. Held(d, t)
  BY <1>1, <1>2, <1>5 DEF Held, Evidence
<1> QED
  BY <1>6 DEF t

\* A result of a pass is a reading of the pass's kind that keeps off what is held.
SingleFound(d, records, acc) ==
  /\ PassOf(acc, SingleCandidates(d, records), <<>>, Limit.single)
  /\ \A j \in DOMAIN acc : IsReading(d, acc[j]) /\ ClearOfRecords(acc[j], records)

LEMMA SinglePass ==
  ASSUME NEW d \in Seq(Bytes), NEW records
  PROVE  /\ SingleFound(d, records, SingleByte(d, records))
         /\ \E R : SingleByte(d, records) \in Seq(R)
<1> DEFINE cs == SingleCandidates(d, records)
           acc == Accepted(Ranked(cs), <<>>, Limit.single)
<1>1. PICK C : cs \in Seq(C) /\ \A c \in C : SingleCandidate(d, records, c)
  BY SinglesAreCandidates DEF SinglesOf
<1>2. Limit.single \in Nat
  BY StringRecoveryAssumption
<1>3. \A c \in C : Weighed(c)
  BY <1>1, CandidateWeighed DEF SingleCandidate
<1> HIDE DEF cs
<1> DEFINE none == <<>>
<1>4. none = <<>> /\ acc = Accepted(Ranked(cs), none, Limit.single)
  OBVIOUS
<1> HIDE DEF none, acc
<1>5. acc \in Seq({c.result : c \in C}) /\ PassOf(acc, cs, none, Limit.single)
  BY <1>1, <1>2, <1>3, <1>4, PassAccepts
<1>6. ASSUME NEW j \in DOMAIN acc
      PROVE  IsReading(d, acc[j]) /\ ClearOfRecords(acc[j], records)
  <2>1. PICK i \in DOMAIN cs : acc[j] = cs[i].result
    BY <1>5 DEF PassOf
  <2>2. cs[i] \in C
    BY <1>1
  <2> QED
    BY <1>1, <2>1, <2>2 DEF SingleCandidate, IsCandidate
<1>7. SingleFound(d, records, acc)
  BY <1>4, <1>5, <1>6 DEF SingleFound, cs
<1>8. SingleByte(d, records) = acc
  BY DEF SingleByte, acc, cs
<1> QED
  BY <1>5, <1>7, <1>8

LEMMA RepeatingPass ==
  ASSUME NEW d \in Seq(Bytes), NEW occupied
  PROVE  LET acc == RepeatingKey(d, occupied)
         IN  /\ \E R : acc \in Seq(R)
             /\ AllApart(acc)
             /\ \A j \in DOMAIN acc : /\ IsReading(d, acc[j])
                                      /\ \A o \in DOMAIN occupied : Apart(acc[j], occupied[o])
<1> DEFINE cs == RepeatingCandidates(d)
           acc == RepeatingKey(d, occupied)
<1>1. PICK C : cs \in Seq(C) /\ \A c \in C : IsCandidate(d, "bytes", c)
  BY RepeatingAreCandidates DEF RepeatingOf
<1>2. Limit.repeated \in Nat
  BY StringRecoveryAssumption
<1>3. \A c \in C : Weighed(c)
  BY <1>1, CandidateWeighed
<1> HIDE DEF cs
<1>4. acc = Accepted(Ranked(cs), occupied, Limit.repeated)
  BY DEF RepeatingKey, cs
<1> HIDE DEF acc
<1>5. acc \in Seq({c.result : c \in C}) /\ PassOf(acc, cs, occupied, Limit.repeated)
  BY <1>1, <1>2, <1>3, <1>4, PassAccepts
<1>6. ASSUME NEW j \in DOMAIN acc
      PROVE  IsReading(d, acc[j]) /\ \A o \in DOMAIN occupied : Apart(acc[j], occupied[o])
  <2>1. PICK i \in DOMAIN cs : acc[j] = cs[i].result
    BY <1>5 DEF PassOf
  <2>2. cs[i] \in C
    BY <1>1
  <2>3. IsReading(d, acc[j])
    BY <1>1, <2>1, <2>2 DEF IsCandidate
  <2> QED
    BY <1>5, <2>3 DEF PassOf
<1>7. AllApart(acc)
  BY <1>5 DEF PassOf
<1>8. (\E R : acc \in Seq(R)) /\ AllApart(acc)
      /\ \A j \in DOMAIN acc : /\ IsReading(d, acc[j])
                               /\ \A o \in DOMAIN occupied : Apart(acc[j], occupied[o])
  BY <1>5, <1>6, <1>7
<1> QED
  BY <1>8 DEF acc

\* The header lies before the text of a record, so that what clears both clears the text.
LEMMA ClearKeepsApart ==
  ASSUME NEW d, NEW r, Solid(r), NEW t, IsTag(d, t),
         Clear(r.offset, LastOf(r), t.offset, t.offset + RecordLength(Len(t.value)) - 1)
  PROVE  Apart(r, t)
<1> DEFINE L == Len(Marker)
           l == Len(t.value)
           o == t.offset
<1>1. L \in Nat
  BY MarkerLength
<1>2. l \in Nat /\ o \in Nat /\ LastOf(t) = o + l - 1
  BY DEF IsTag, Solid, LastOf
<1>3. RecordLength(l) = L + 2 + l
  BY DEF RecordLength
<1>4. r.offset \in Nat /\ LastOf(r) \in Int
  BY DEF Solid, LastOf
<1>5. LastOf(r) < o \/ o + RecordLength(l) - 1 < r.offset
  BY DEF Clear
<1>6. t.offset = o
  OBVIOUS
<1> HIDE DEF L, l, o
<1>7. LastOf(r) < o \/ LastOf(t) < r.offset
  BY <1>1, <1>2, <1>3, <1>4, <1>5
<1> QED
  BY <1>6, <1>7 DEF Apart, Clear

LEMMA SingleHeld ==
  ASSUME NEW d \in Seq(Bytes)
  PROVE  Held(d, Tagged(d) \o SingleByte(d, Tagged(d)))
<1> DEFINE t == Tagged(d)
           acc == SingleByte(d, t)
<1>1. Held(d, t)
  BY TaggedHeld
<1>2. \A k \in DOMAIN t : IsTag(d, t[k])
  BY TaggedAreTags DEF TagsFrom
<1> HIDE DEF t
<1>3. SingleFound(d, t, acc)
  BY SinglePass
<1>4. PICK R : acc \in Seq(R)
  BY SinglePass
<1> HIDE DEF acc
<1>5. AllApart(acc) /\ \A j \in DOMAIN acc : IsReading(d, acc[j]) /\ ClearOfRecords(acc[j], t)
  BY <1>3 DEF SingleFound, PassOf
<1>6. ASSUME NEW j \in DOMAIN acc, NEW k \in DOMAIN t PROVE Apart(acc[j], t[k])
  <2>1. Solid(acc[j]) /\ IsTag(d, t[k])
    BY <1>2, <1>5 DEF IsReading
  <2>2. Clear(acc[j].offset, LastOf(acc[j]), t[k].offset,
              t[k].offset + RecordLength(Len(t[k].value)) - 1)
    BY <1>5 DEF ClearOfRecords
  <2> DEFINE r == acc[j]
             u == t[k]
  <2>3. /\ Solid(r) /\ IsTag(d, u)
        /\ Clear(r.offset, LastOf(r), u.offset, u.offset + RecordLength(Len(u.value)) - 1)
    BY <2>1, <2>2
  <2> HIDE DEF r, u
  <2>4. Apart(r, u)
    BY <2>3, ClearKeepsApart
  <2> QED
    BY <2>4 DEF r, u
<1>7. \A k \in DOMAIN acc : Evidence(d, acc[k])
  BY <1>5 DEF Evidence
<1>8. Held(d, t \o acc)
  BY <1>1, <1>4, <1>5, <1>6, <1>7, HeldJoined
<1> QED
  BY <1>8 DEF t, acc

LEMMA RepeatingHeld ==
  ASSUME NEW d \in Seq(Bytes), NEW s, Held(d, s)
  PROVE  Held(d, s \o RepeatingKey(d, s))
<1> DEFINE acc == RepeatingKey(d, s)
<1>1. /\ \E R : acc \in Seq(R)
      /\ AllApart(acc)
      /\ \A j \in DOMAIN acc : /\ IsReading(d, acc[j])
                               /\ \A o \in DOMAIN s : Apart(acc[j], s[o])
  BY RepeatingPass
<1> HIDE DEF acc
<1>2. PICK R : acc \in Seq(R)
  BY <1>1
<1>3. \A k \in DOMAIN acc : Evidence(d, acc[k])
  BY <1>1 DEF Evidence
<1>4. Held(d, s \o acc)
  BY <1>1, <1>2, <1>3, HeldJoined
<1> QED
  BY <1>4 DEF acc

(***************************************************************************)
(* The final sort, and the theorems of the recovery.                       *)
(***************************************************************************)
LEMMA EvidenceIsSolid ==
  ASSUME NEW d, NEW r, Evidence(d, r)
  PROVE  Solid(r) /\ IsText(r.value)
  BY DEF Evidence, IsTag, IsReading

\* Two pieces of evidence that do not overlap begin at different offsets.
LEMMA HeldOffsetsDiffer ==
  ASSUME NEW d, NEW s, Held(d, s), NEW r \in Range(s), NEW t \in Range(s), r # t
  PROVE  Apart(r, t) /\ r.offset # t.offset /\ r.offset \in Nat /\ t.offset \in Nat
<1>1. PICK j \in DOMAIN s, k \in DOMAIN s : r = s[j] /\ t = s[k]
  BY DEF Range
<1>2. Apart(r, t)
  BY <1>1 DEF Held, AllApart
<1>3. Solid(r) /\ Solid(t)
  BY <1>1, EvidenceIsSolid DEF Held
<1> QED
  BY <1>2, <1>3 DEF Apart, Clear, Solid, LastOf

LEMMA HeldIsComparable ==
  ASSUME NEW d, NEW s, Held(d, s)
  PROVE  ~Uncomparable(s)
  BY HeldOffsetsDiffer DEF Uncomparable

\* The sorted results are those held, in the order of their offsets.
LEMMA HeldInOrder ==
  ASSUME NEW d, NEW s, Held(d, s)
  PROVE  LET u == InOrder(s)
         IN  /\ Range(u) = Range(s) /\ u \in Seq(Range(s))
             /\ \A j, k \in DOMAIN u :
                  j < k => u[j].offset < u[k].offset /\ Apart(u[j], u[k])
<1> DEFINE S == Range(s)
           R == {p \in S \X S : \/ p[1].offset < p[2].offset
                                \/ p[1].offset = p[2].offset /\ Smaller(p[1].key, p[2].key)}
           u == Sorted(S, R)
           N == Cardinality(S)
<1>1. IsFiniteSet(S)
  <2>1. s \in Seq(S)
    BY DEF Held
  <2> HIDE DEF S
  <2>2. IsFiniteSet(Range(s))
    BY <2>1, RangeFinite
  <2> QED
    BY <2>2 DEF S
<1>2. \A x, y \in S : x # y => /\ Apart(x, y) /\ x.offset # y.offset
                               /\ x.offset \in Nat /\ y.offset \in Nat
  BY HeldOffsetsDiffer
<1>3. \A x, y \in S : x # y => (<<x, y>> \in R <=> x.offset < y.offset)
  BY <1>2
<1> HIDE DEF R
<1>4. StrictlyOrders(R, S)
  <2>1. \A x, y \in S : x # y => (<<x, y>> \in R <=> <<y, x>> \notin R)
    BY <1>2, <1>3
  <2>2. ASSUME NEW x \in S, NEW y \in S, NEW z \in S, x # y, y # z,
               <<x, y>> \in R, <<y, z>> \in R
        PROVE  <<x, z>> \in R
    <3>1. x.offset < y.offset /\ y.offset < z.offset
      BY <1>3, <2>2
    <3>2. x.offset \in Nat /\ y.offset \in Nat /\ z.offset \in Nat
      BY <1>2, <2>2
    <3>3. x.offset < z.offset /\ x # z
      BY <3>1, <3>2
    <3> QED
      BY <1>3, <3>3
  <2> HIDE DEF S
  <2> QED
    BY <2>1, <2>2 DEF StrictlyOrders
<1>5. /\ u \in [1 .. N -> S] /\ \A x \in S : \E n \in 1 .. N : u[n] = x
      /\ \A m, n \in 1 .. N : m < n => <<u[m], u[n]>> \in R /\ u[m] # u[n]
  <2> HIDE DEF S
  <2> QED
    BY <1>1, <1>4, SortedOrders
<1>6. InOrder(s) = u
  BY DEF InOrder, R
<1> HIDE DEF u, N
<1>7. Range(u) = S
  <2> HIDE DEF S
  <2>1. Range(u) = {u[n] : n \in 1 .. N}
    BY <1>5 DEF Range
  <2> QED
    BY <1>5, <2>1
<1>9. u \in Seq(S)
  <2>1. N \in Nat
    BY <1>1, FS_CardinalityType DEF N
  <2> HIDE DEF S
  <2> QED
    BY <1>5, <2>1
<1>8. ASSUME NEW j \in DOMAIN u, NEW k \in DOMAIN u, j < k
      PROVE  u[j].offset < u[k].offset /\ Apart(u[j], u[k])
  <2>1. j \in 1 .. N /\ k \in 1 .. N /\ u[j] \in S /\ u[k] \in S
    <3> HIDE DEF S
    <3> QED
      BY <1>5
  <2>2. <<u[j], u[k]>> \in R /\ u[j] # u[k]
    BY <1>5, <1>8, <2>1
  <2> HIDE DEF S
  <2> QED
    BY <1>2, <1>3, <2>1, <2>2
<1> QED
  BY <1>6, <1>7, <1>8, <1>9

Recovered(d) ==
  LET s == Tagged(d) \o SingleByte(d, Tagged(d)) IN s \o RepeatingKey(d, s)

\* What each stage holds.
RecoveredSoFar ==
  /\ data \in Seq(Bytes)
  /\ stage \in {"tagged", "single", "repeating", "sort", "done", "raised"}
  /\ stage = "single" => found = Tagged(data)
  /\ stage = "repeating" => found = Tagged(data) \o SingleByte(data, Tagged(data))
  /\ stage = "sort" => found = Recovered(data)
  /\ stage = "done" => found = InOrder(Recovered(data))
  /\ stage = "raised" => Uncomparable(Recovered(data))

LEMMA RecoveredHeld ==
  ASSUME NEW d \in Seq(Bytes)
  PROVE  Held(d, Recovered(d))
  BY SingleHeld, RepeatingHeld DEF Recovered

LEMMA RecoveryStarts == RecoveryInit => RecoveredSoFar
  BY StringRecoveryAssumption DEF RecoveryInit, RecoveredSoFar

LEMMA RecoveryGoesOn == RecoveredSoFar /\ [RecoveryNext]_recovery => RecoveredSoFar'
<1> SUFFICES ASSUME RecoveredSoFar, [RecoveryNext]_recovery PROVE RecoveredSoFar'
  OBVIOUS
<1>1. CASE RecoverTagged
  BY <1>1 DEF RecoverTagged, RecoveredSoFar
<1>2. CASE BruteForce
  BY <1>2 DEF BruteForce, RecoveredSoFar
<1>3. CASE InferKeys
  BY <1>3 DEF InferKeys, RecoveredSoFar, Recovered
<1>4. CASE SortResults
  BY <1>4 DEF SortResults, RecoveredSoFar
<1>5. CASE UNCHANGED recovery
  BY <1>5 DEF recovery, RecoveredSoFar
<1> QED
  BY <1>1, <1>2, <1>3, <1>4, <1>5 DEF RecoveryNext

LEMMA RecoveryAlways == RecoverySpec => []RecoveredSoFar
  BY RecoveryStarts, RecoveryGoesOn, PTL DEF RecoverySpec

\* Sorting never fails: no two results share an offset, whatever the kinds of their keys.
THEOREM ResultsAlwaysSort == RecoverySpec => []ResultsSortable
<1>1. RecoveredSoFar => ResultsSortable
  BY RecoveredHeld, HeldIsComparable DEF RecoveredSoFar, ResultsSortable
<1> QED
  BY <1>1, RecoveryAlways, PTL

LEMMA EvidenceHasItsPlace ==
  ASSUME data \in Seq(Bytes), NEW r, Evidence(data, r)
  PROVE  \E p \in EncodedPlace(r) :
           /\ p + Len(r.value) - 1 <= Len(data)
           /\ Decoded(SubSeq(data, p, p + Len(r.value) - 1), r.key) = r.value
           /\ p = r.offset =>
                /\ ~IsText(SubSeq(data, p, LastOf(r)))
                /\ \E w \in Words : Occurs(w, Folded(r.value))
<1>1. CASE IsTag(data, r)
  <2> DEFINE p == r.offset + RecordLength(0)
  <2>1. p \in EncodedPlace(r)
    BY <1>1 DEF IsTag, EncodedPlace
  <2>2. /\ p + Len(r.value) - 1 <= Len(data)
        /\ Decoded(SubSeq(data, p, p + Len(r.value) - 1), r.key) = r.value
    BY <1>1 DEF IsTag
  <2>3. p # r.offset
    BY <1>1, MarkerLength DEF IsTag, Solid
  <2> QED
    BY <2>1, <2>2, <2>3
<1>2. CASE IsReading(data, r)
  <2>1. r.offset \in EncodedPlace(r)
    BY DEF EncodedPlace
  <2> QED
    BY <1>2, <2>1 DEF IsReading, LastOf
<1> QED
  BY <1>1, <1>2 DEF Evidence

\* Whatever the file holds, the results are evidence, disjoint and in order.
THEOREM ResultsAreAlwaysEvidence == RecoverySpec => []ResultsAreEvidence
<1>1. ASSUME RecoveredSoFar, stage = "done"
      PROVE  /\ \A r \in Range(found) :
                  /\ IsText(r.value)
                  /\ \E p \in EncodedPlace(r) :
                       /\ p + Len(r.value) - 1 <= Len(data)
                       /\ Decoded(SubSeq(data, p, p + Len(r.value) - 1), r.key) = r.value
                       /\ p = r.offset =>
                            /\ ~IsText(SubSeq(data, p, LastOf(r)))
                            /\ \E w \in Words : Occurs(w, Folded(r.value))
             /\ \A j, k \in DOMAIN found :
                  j < k => found[j].offset < found[k].offset /\ Apart(found[j], found[k])
  <2> DEFINE s == Recovered(data)
  <2>1. data \in Seq(Bytes) /\ found = InOrder(s) /\ Held(data, s)
    BY <1>1, RecoveredHeld DEF RecoveredSoFar
  <2> HIDE DEF s
  <2>2. /\ Range(found) = Range(s)
        /\ \A j, k \in DOMAIN found :
             j < k => found[j].offset < found[k].offset /\ Apart(found[j], found[k])
    BY <2>1, HeldInOrder
  <2>3. ASSUME NEW r \in Range(found) PROVE Evidence(data, r)
    BY <2>1, <2>2 DEF Held, Range
  <2>4. \A r \in Range(found) : IsText(r.value)
    BY <2>3, EvidenceIsSolid
  <2> QED
    BY <2>1, <2>2, <2>3, <2>4, EvidenceHasItsPlace
<1>2. RecoveredSoFar => ResultsAreEvidence
  BY <1>1 DEF ResultsAreEvidence
<1> QED
  BY <1>2, RecoveryAlways, PTL

\* Each result accepted stands for a candidate of its own.
LEMMA TakenCounted ==
  ASSUME NEW C, IsFiniteSet(C), NEW R, NEW acc \in Seq(R),
         \A j \in DOMAIN acc : Solid(acc[j]) /\ \E c \in C : c.result = acc[j],
         AllApart(acc)
  PROVE  Cardinality(C) \in Nat /\ Len(acc) <= Cardinality(C)
<1> DEFINE n == Len(acc)
           f == [j \in 1 .. n |-> CHOOSE c \in C : c.result = acc[j]]
<1>1. n \in Nat /\ DOMAIN acc = 1 .. n
  OBVIOUS
<1> HIDE DEF n
<1>2. ASSUME NEW j \in 1 .. n PROVE f[j] \in C /\ f[j].result = acc[j]
  BY <1>1
<1>3. f \in [1 .. n -> C]
  BY <1>2
<1> HIDE DEF f
<1>4. ASSUME NEW j \in 1 .. n, NEW k \in 1 .. n, f[j] = f[k] PROVE j = k
  <2>1. acc[j] = acc[k]
    BY <1>2, <1>4
  <2> QED
    BY <1>1, <2>1, SolidMeetsItself DEF AllApart
<1>5. f \in Injection(1 .. n, C)
  BY <1>3, <1>4 DEF Injection, IsInjective
<1>6. Cardinality(1 .. n) <= Cardinality(C)
  BY <1>5, FS_Injection
<1> QED
  BY <1>1, <1>6, FS_Interval, FS_CardinalityType DEF n

LEMMA BetterTextTaken ==
  ASSUME data \in Seq(Bytes),
         found = Tagged(data) \o SingleByte(data, Tagged(data)), stage = "repeating"
  PROVE  BetterTextWins
<1> DEFINE t == Tagged(data)
           cs == SingleCandidates(data, t)
           acc == SingleByte(data, t)
           S == Range(cs)
           taken == {c \in S : c.result \in Range(found)}
<1>1. SingleFound(data, t, acc)
  BY SinglePass
<1>2. PICK R : acc \in Seq(R)
  BY SinglePass
<1>3. PICK C : cs \in Seq(C)
  BY SinglesAreCandidates DEF SinglesOf
<1>4. t \in Seq(Range(t))
  BY TaggedAreTags
<1>5. BetterTextWins <=> (Cardinality(taken) < Limit.single =>
        \A c \in S : \E e \in taken : ~Apart(c.result, e.result) /\ ~Better(c, e))
  BY DEF BetterTextWins
<1> HIDE DEF t, cs, acc
<1>6. IsFiniteSet(S)
  BY <1>3, RangeFinite
<1>7. /\ AllApart(acc)
      /\ \A j \in DOMAIN acc : \E i \in DOMAIN cs : acc[j] = cs[i].result
      /\ \A j \in DOMAIN acc : Solid(acc[j])
      /\ Len(acc) < Limit.single => \A i \in DOMAIN cs : Beaten(i, acc, cs, <<>>)
  BY <1>1 DEF SingleFound, PassOf, IsReading, cs
<1>8. \A j \in DOMAIN acc : acc[j] \in Range(found)
  <2> DEFINE Q == Range(t) \union R
             P == Range(t)
  <2>1. t \in Seq(P)
    BY <1>4
  <2> HIDE DEF P
  <2>2. t \in Seq(P \union R) /\ acc \in Seq(P \union R)
    BY <1>2, <2>1
  <2>3. found = t \o acc
    BY DEF t, acc
  <2>4. \A j \in 1 .. Len(acc) : /\ Len(t) + j \in 1 .. Len(t \o acc)
                                 /\ (t \o acc)[Len(t) + j] = acc[j]
    BY <2>2, ConcatElements
  <2>5. DOMAIN (t \o acc) = 1 .. Len(t \o acc) /\ DOMAIN acc = 1 .. Len(acc)
    BY <2>2
  <2> QED
    BY <2>3, <2>4, <2>5 DEF Range
<1>9. \A i \in DOMAIN cs : cs[i] \in S
  BY DEF Range
<1>10. \A c \in S : \E i \in DOMAIN cs : cs[i] = c
  BY DEF Range
<1> HIDE DEF S
<1>11. ASSUME NEW j \in DOMAIN acc, NEW i \in DOMAIN cs, acc[j] = cs[i].result
       PROVE  cs[i] \in taken
  BY <1>8, <1>9, <1>11
<1>12. IsFiniteSet(taken)
  BY <1>6, FS_Subset
<1>13. \A j \in DOMAIN acc : Solid(acc[j]) /\ \E c \in taken : c.result = acc[j]
  BY <1>7, <1>11
<1> HIDE DEF taken
<1>14. Cardinality(taken) \in Nat /\ Len(acc) <= Cardinality(taken)
  BY <1>2, <1>7, <1>12, <1>13, TakenCounted
<1>15. ASSUME Cardinality(taken) < Limit.single, NEW c \in S
       PROVE  \E e \in taken : ~Apart(c.result, e.result) /\ ~Better(c, e)
  <2>1. Len(acc) < Limit.single
    BY <1>2, <1>14, <1>15, StringRecoveryAssumption
  <2>2. PICK i \in DOMAIN cs : cs[i] = c
    BY <1>10
  <2>3. Beaten(i, acc, cs, <<>>)
    BY <1>7, <2>1
  <2>4. PICK j \in DOMAIN acc, h \in DOMAIN cs :
          /\ acc[j] = cs[h].result /\ ~Apart(cs[i].result, cs[h].result)
          /\ ~Better(cs[i], cs[h])
    <3>1. DOMAIN <<>> = {}
      OBVIOUS
    <3> QED
      BY <2>3, <3>1 DEF Beaten
  <2> QED
    BY <1>11, <2>2, <2>4
<1> QED
  BY <1>5, <1>15

\* In whatever order the candidates come, a passed-over text lost to one at least as good.
THEOREM BetterTextAlwaysWins == RecoverySpec => []BetterTextWins
<1>1. RecoveredSoFar => BetterTextWins
  <2>1. RecoveredSoFar /\ stage = "repeating" => BetterTextWins
    BY BetterTextTaken DEF RecoveredSoFar
  <2>2. stage # "repeating" => BetterTextWins
    BY DEF BetterTextWins
  <2> QED
    BY <2>1, <2>2
<1> QED
  BY <1>1, RecoveryAlways, PTL

(***************************************************************************)
(* The order of strings, position by position: 0 where a string has ended. *)
(***************************************************************************)
At(s, p) == IF p \in DOMAIN s THEN s[p] + 1 ELSE 0

LowerAt(s, t, p) == At(s, p) < At(t, p) /\ \A q \in 1 .. p - 1 : At(s, q) = At(t, q)

LEMMA AtType ==
  ASSUME NEW s \in Seq(Nat), NEW p
  PROVE  At(s, p) \in Nat
  BY DEF At

LEMMA SameStrings ==
  ASSUME NEW s \in Seq(Nat), NEW t \in Seq(Nat), \A p \in Nat \ {0} : At(s, p) = At(t, p)
  PROVE  s = t
<1>1. /\ Len(s) \in Nat /\ Len(t) \in Nat /\ DOMAIN s = 1 .. Len(s) /\ DOMAIN t = 1 .. Len(t)
      /\ \A p \in 1 .. Len(s) : s[p] \in Nat
      /\ \A p \in 1 .. Len(t) : t[p] \in Nat
  OBVIOUS
<1>2. \A p \in Nat \ {0} : p \in DOMAIN s <=> p \in DOMAIN t
  BY <1>1 DEF At
<1>3. Len(s) = Len(t)
  <2> DEFINE m == Len(s)
             n == Len(t)
  <2>1. m \in Nat /\ n \in Nat /\ \A p \in Nat \ {0} : p <= m <=> p <= n
    BY <1>1, <1>2
  <2> HIDE DEF m, n
  <2>2. m = 0 \/ m <= n
    BY <2>1
  <2>3. n = 0 \/ n <= m
    BY <2>1
  <2>4. m = n
    BY <2>1, <2>2, <2>3
  <2> QED
    BY <2>4 DEF m, n
<1>4. \A p \in 1 .. Len(s) : s[p] = t[p]
  BY <1>1, <1>3 DEF At
<1> QED
  BY <1>1, <1>3, <1>4

LEMMA SmallerByPlace ==
  ASSUME NEW s \in Seq(Nat), NEW t \in Seq(Nat)
  PROVE  Smaller(s, t) <=> \E p \in Nat \ {0} : LowerAt(s, t, p)
<1>1. /\ Len(s) \in Nat /\ Len(t) \in Nat /\ DOMAIN s = 1 .. Len(s) /\ DOMAIN t = 1 .. Len(t)
      /\ \A p \in 1 .. Len(s) : s[p] \in Nat
      /\ \A p \in 1 .. Len(t) : t[p] \in Nat
  OBVIOUS
<1>2. ASSUME NEW p \in DOMAIN s \cap DOMAIN t, s[p] < t[p], \A q \in 1 .. p - 1 : s[q] = t[q]
      PROVE  \E h \in Nat \ {0} : LowerAt(s, t, h)
  <2>1. p \in Nat \ {0} /\ At(s, p) < At(t, p)
    BY <1>1, <1>2 DEF At
  <2>2. ASSUME NEW q \in 1 .. p - 1 PROVE At(s, q) = At(t, q)
    <3>1. q \in DOMAIN s /\ q \in DOMAIN t
      BY <1>1
    <3> QED
      BY <1>2, <3>1 DEF At
  <2> QED
    BY <2>1, <2>2 DEF LowerAt
<1>3. ASSUME IsStrictPrefix(s, t) PROVE \E h \in Nat \ {0} : LowerAt(s, t, h)
  <2> DEFINE n == Len(s)
  <2>1. n <= Len(t) /\ SubSeq(s, 1, n) = SubSeq(t, 1, n) /\ s # t
    BY <1>3 DEF IsStrictPrefix, IsPrefix
  <2>2. \A q \in 1 .. n : SubSeq(s, 1, n)[q] = s[q] /\ SubSeq(t, 1, n)[q] = t[q]
    BY <1>1, <2>1
  <2>3. \A q \in 1 .. n : s[q] = t[q]
    BY <2>1, <2>2
  <2>4. n < Len(t)
    BY <1>1, <2>1, <2>3
  <2> DEFINE h == n + 1
  <2>5. h \in Nat \ {0} /\ h \notin DOMAIN s /\ h \in DOMAIN t
    BY <1>1, <2>4
  <2>6. At(s, h) < At(t, h)
    <3> HIDE DEF h
    <3> QED
      BY <1>1, <2>5 DEF At
  <2>7. \A q \in 1 .. h - 1 : At(s, q) = At(t, q)
    BY <1>1, <2>3, <2>4 DEF At
  <2> HIDE DEF h
  <2> QED
    BY <2>5, <2>6, <2>7 DEF LowerAt
<1>4. ASSUME NEW p \in Nat \ {0}, LowerAt(s, t, p) PROVE Smaller(s, t)
  <2>1. At(s, p) < At(t, p) /\ \A q \in 1 .. p - 1 : At(s, q) = At(t, q)
    BY <1>4 DEF LowerAt
  <2>2. p \in DOMAIN t
    BY <1>1, <2>1 DEF At
  <2>3. CASE p \in DOMAIN s
    <3>1. s[p] < t[p]
      BY <1>1, <2>1, <2>2, <2>3 DEF At
    <3>2. ASSUME NEW q \in 1 .. p - 1 PROVE s[q] = t[q]
      <4>1. q \in DOMAIN s /\ q \in DOMAIN t
        BY <1>1, <2>2, <2>3
      <4>2. At(s, q) = At(t, q)
        BY <2>1
      <4> QED
        BY <1>1, <4>1, <4>2 DEF At
    <3> QED
      BY <2>2, <2>3, <3>1, <3>2 DEF Smaller
  <2>4. CASE p \notin DOMAIN s
    <3> DEFINE n == Len(s)
    <3>1. n < p /\ p <= Len(t) /\ n < Len(t)
      BY <1>1, <2>2, <2>4
    <3>2. ASSUME NEW q \in 1 .. n PROVE s[q] = t[q]
      <4>1. q \in DOMAIN s /\ q \in DOMAIN t /\ q \in 1 .. p - 1
        BY <1>1, <3>1
      <4>2. At(s, q) = At(t, q)
        BY <2>1, <4>1
      <4> QED
        BY <1>1, <4>1, <4>2 DEF At
    <3>3. /\ SubSeq(s, 1, n) \in Seq(Nat) /\ SubSeq(t, 1, n) \in Seq(Nat)
          /\ Len(SubSeq(s, 1, n)) = n /\ Len(SubSeq(t, 1, n)) = n
          /\ \A q \in 1 .. n : SubSeq(s, 1, n)[q] = s[q] /\ SubSeq(t, 1, n)[q] = t[q]
      <4>1. n \in 0 .. Len(s) /\ n \in 0 .. Len(t)
        BY <1>1, <3>1
      <4>2. \A q \in 1 .. n : SubSeq(s, 1, n)[q] = s[q] /\ SubSeq(t, 1, n)[q] = t[q]
        BY <1>1, <3>1
      <4> HIDE DEF n
      <4>3. SubSeq(s, 1, n) \in Seq(Nat) /\ Len(SubSeq(s, 1, n)) = n
        BY <4>1, PrefixPart
      <4>4. SubSeq(t, 1, n) \in Seq(Nat) /\ Len(SubSeq(t, 1, n)) = n
        BY <4>1, PrefixPart
      <4> QED
        BY <4>2, <4>3, <4>4
    <3> DEFINE u == SubSeq(s, 1, n)
               v == SubSeq(t, 1, n)
    <3>4. u = v
      <4>1. /\ u \in Seq(Nat) /\ v \in Seq(Nat) /\ Len(u) = Len(v)
            /\ \A q \in 1 .. Len(u) : u[q] = v[q]
        BY <3>2, <3>3
      <4> HIDE DEF u, v
      <4> QED
        BY <4>1, SameElements
    <3>5. s # t
      BY <3>1
    <3>6. IsStrictPrefix(s, t)
      BY <1>1, <3>1, <3>4, <3>5 DEF IsStrictPrefix, IsPrefix
    <3> QED
      BY <3>6 DEF Smaller
  <2> QED
    BY <2>3, <2>4
<1> QED
  BY <1>2, <1>3, <1>4 DEF Smaller

\* Strings are in one order, total and strict.
LEMMA StringsOrdered ==
  ASSUME NEW s \in Seq(Nat), NEW t \in Seq(Nat), NEW u \in Seq(Nat)
  PROVE  /\ s # t => Smaller(s, t) \/ Smaller(t, s)
         /\ ~(Smaller(s, t) /\ Smaller(t, s))
         /\ Smaller(s, t) /\ Smaller(t, u) => Smaller(s, u)
<1>0. \A p : At(s, p) \in Nat /\ At(t, p) \in Nat /\ At(u, p) \in Nat
  BY AtType
<1>1. ASSUME s # t PROVE Smaller(s, t) \/ Smaller(t, s)
  <2> DEFINE D == {p \in Nat \ {0} : At(s, p) # At(t, p)}
             p == Min(D)
  <2>1. D \in SUBSET Nat /\ D # {}
    BY <1>1, SameStrings
  <2>2. p \in D /\ \A q \in D : p <= q
    <3> HIDE DEF D
    <3> QED
      BY <2>1, MinIsLeast
  <2> HIDE DEF p
  <2>3. p \in Nat \ {0} /\ At(s, p) # At(t, p)
    BY <2>2
  <2>4. \A q \in 1 .. p - 1 : At(s, q) = At(t, q)
    <3> SUFFICES ASSUME NEW q \in 1 .. p - 1, At(s, q) # At(t, q) PROVE FALSE
      OBVIOUS
    <3>1. q \in D /\ q < p
      BY <2>3
    <3>2. p <= q
      BY <2>2, <3>1
    <3> QED
      BY <2>3, <3>1, <3>2
  <2>5. LowerAt(s, t, p) \/ LowerAt(t, s, p)
    BY <1>0, <2>3, <2>4 DEF LowerAt
  <2> QED
    BY <2>3, <2>5, SmallerByPlace
<1>2. ASSUME Smaller(s, t), Smaller(t, s) PROVE FALSE
  <2>1. PICK p \in Nat \ {0} : LowerAt(s, t, p)
    BY <1>2, SmallerByPlace
  <2>2. PICK q \in Nat \ {0} : LowerAt(t, s, q)
    BY <1>2, SmallerByPlace
  <2>3. p < q \/ p = q \/ q < p
    OBVIOUS
  <2> QED
    BY <1>0, <2>1, <2>2, <2>3 DEF LowerAt
<1>3. ASSUME Smaller(s, t), Smaller(t, u) PROVE Smaller(s, u)
  <2>1. PICK p \in Nat \ {0} : LowerAt(s, t, p)
    BY <1>3, SmallerByPlace
  <2>2. PICK q \in Nat \ {0} : LowerAt(t, u, q)
    BY <1>3, SmallerByPlace
  <2>3. CASE p <= q
    <3>1. At(s, p) < At(u, p)
      <4>1. At(t, p) <= At(u, p)
        <5>1. CASE p = q
          BY <1>0, <2>2, <5>1 DEF LowerAt
        <5>2. CASE p < q
          <6>1. p \in 1 .. q - 1
            BY <5>2
          <6> QED
            BY <1>0, <2>2, <6>1 DEF LowerAt
        <5> QED
          BY <2>3, <5>1, <5>2
      <4> QED
        BY <1>0, <2>1, <4>1 DEF LowerAt
    <3>2. \A h \in 1 .. p - 1 : At(s, h) = At(u, h)
      BY <2>1, <2>2, <2>3 DEF LowerAt
    <3>3. LowerAt(s, u, p)
      BY <3>1, <3>2 DEF LowerAt
    <3> QED
      BY <3>3, SmallerByPlace
  <2>4. CASE q < p
    <3>1. At(s, q) < At(u, q)
      <4>1. At(s, q) = At(t, q)
        BY <2>1, <2>4 DEF LowerAt
      <4> QED
        BY <1>0, <2>2, <4>1 DEF LowerAt
    <3>2. \A h \in 1 .. q - 1 : At(s, h) = At(u, h)
      BY <2>1, <2>2, <2>4 DEF LowerAt
    <3>3. LowerAt(s, u, q)
      BY <3>1, <3>2 DEF LowerAt
    <3> QED
      BY <3>3, SmallerByPlace
  <2> QED
    BY <2>3, <2>4
<1> QED
  BY <1>1, <1>2, <1>3

(***************************************************************************)
(* The candidates of a rule.                                               *)
(***************************************************************************)
\* What is taken from the text of the file occurs in it.
IsLiteral(d, c) ==
  /\ c.score \in Nat /\ c.offset \in Nat /\ c.value \in Seq(Bytes)
  /\ c.provenance = "ascii" => Occurs(c.value, d)

LEMMA FoldedType ==
  ASSUME NEW s \in Seq(Bytes)
  PROVE  Folded(s) \in Seq(Nat) /\ Folded(s) \in Seq(Bytes) /\ Len(Folded(s)) = Len(s)
<1>1. Len(s) \in Nat /\ DOMAIN s = 1 .. Len(s) /\ \A k \in 1 .. Len(s) : s[k] \in Bytes
  OBVIOUS
<1>2. Folded(s) = [k \in 1 .. Len(s) |-> Fold[s[k]]]
  BY <1>1 DEF Folded
<1>3. \A k \in 1 .. Len(s) : Fold[s[k]] \in Bytes /\ Fold[s[k]] \in Nat
  BY <1>1, ByteType, StringRecoveryAssumption
<1> QED
  BY <1>1, <1>2, <1>3

LEMMA RangeCounted ==
  ASSUME NEW R, NEW s \in Seq(R)
  PROVE  Cardinality(Range(s)) \in Nat
  BY RangeFinite, FS_CardinalityType

LEMMA StringScoreType ==
  ASSUME NEW s \in Seq(Bytes)
  PROVE  StringScore(s) \in Nat
<1> DEFINE a == Min({Len(s), 48})
           b == Min({Cardinality(Range(s)), 16})
           x == IF Count(s, Separators) > 0 THEN 12 ELSE 0
           y == IF Count(s, Digits) > 0 THEN 8 ELSE 0
           z == IF MixedCase(s) THEN 6 ELSE 0
<1>1. Len(s) \in Nat /\ Cardinality(Range(s)) \in Nat
  BY RangeCounted
<1>2. a \in Nat /\ b \in Nat
  <2> DEFINE m == Len(s)
             n == Cardinality(Range(s))
  <2>1. m \in Nat /\ n \in Nat
    BY <1>1
  <2> HIDE DEF m, n
  <2>2. Min({m, 48}) \in {m, 48} /\ Min({n, 16}) \in {n, 16}
    BY <2>1, LeastOfTwo
  <2>3. Min({m, 48}) \in Nat /\ Min({n, 16}) \in Nat
    BY <2>1, <2>2
  <2> QED
    BY <2>3 DEF m, n
<1>3. x \in Nat /\ y \in Nat /\ z \in Nat
  OBVIOUS
<1>4. StringScore(s) = 0 \/ StringScore(s) = a + b + x + y + z
  BY DEF StringScore
<1> HIDE DEF a, b, x, y, z
<1> QED
  BY <1>2, <1>3, <1>4

\* The candidate of place i comes before that of place j.
ComesBefore(cs, i, j) ==
  \/ cs[i].score > cs[j].score
  \/ cs[i].score = cs[j].score /\ cs[i].offset < cs[j].offset
  \/ /\ cs[i].score = cs[j].score /\ cs[i].offset = cs[j].offset
     /\ \/ Smaller(Folded(cs[i].value), Folded(cs[j].value))
        \/ Folded(cs[i].value) = Folded(cs[j].value) /\ i < j

LEMMA CandidatesOrdered ==
  ASSUME NEW d, NEW C, \A c \in C : IsLiteral(d, c), NEW cs \in Seq(C)
  PROVE  SortedCandidates(cs) \in [1 .. Len(cs) -> C]
<1> DEFINE S == DOMAIN cs
           R == {p \in S \X S : ComesBefore(cs, p[1], p[2])}
           order == Sorted(S, R)
<1>1. Len(cs) \in Nat /\ S = 1 .. Len(cs) /\ \A i \in S : cs[i] \in C
  OBVIOUS
<1>2. IsFiniteSet(S) /\ Cardinality(S) = Len(cs)
  BY <1>1, FS_Interval
<1>3. \A i \in S : /\ cs[i].score \in Nat /\ cs[i].offset \in Nat /\ i \in Nat
                   /\ Folded(cs[i].value) \in Seq(Nat)
  BY <1>1, FoldedType DEF IsLiteral
<1>4. \A i, j \in S : <<i, j>> \in R <=> ComesBefore(cs, i, j)
  OBVIOUS
<1>5. SortedCandidates(cs) = [k \in S |-> cs[order[k]]]
  BY DEF SortedCandidates, ComesBefore
<1> HIDE DEF R, S
<1>6. StrictlyOrders(R, S)
  <2> DEFINE score(i) == cs[i].score
             offset(i) == cs[i].offset
             text(i) == Folded(cs[i].value)
  <2>1. \A i \in S : score(i) \in Nat /\ offset(i) \in Nat /\ i \in Nat /\ text(i) \in Seq(Nat)
    BY <1>3
  <2>2. \A i, j \in S : <<i, j>> \in R <=>
          \/ score(i) > score(j)
          \/ score(i) = score(j) /\ offset(i) < offset(j)
          \/ /\ score(i) = score(j) /\ offset(i) = offset(j)
             /\ Smaller(text(i), text(j)) \/ (text(i) = text(j) /\ i < j)
    BY <1>4 DEF ComesBefore
  <2> HIDE DEF score, offset, text
  <2>3. ASSUME NEW i \in S, NEW j \in S, i # j
        PROVE  <<i, j>> \in R <=> <<j, i>> \notin R
    <3>1. /\ text(i) # text(j) => (Smaller(text(i), text(j)) <=> ~Smaller(text(j), text(i)))
          /\ text(i) = text(j) => ~Smaller(text(i), text(j)) /\ ~Smaller(text(j), text(i))
      BY <2>1, StringsOrdered
    <3> DEFINE ij == Smaller(text(i), text(j)) \/ (text(i) = text(j) /\ i < j)
               ji == Smaller(text(j), text(i)) \/ (text(j) = text(i) /\ j < i)
    <3>2. ij <=> ~ji
      BY <2>1, <2>3, <3>1
    <3>3. <<i, j>> \in R <=>
             score(i) > score(j) \/ (score(i) = score(j) /\ offset(i) < offset(j))
             \/ (score(i) = score(j) /\ offset(i) = offset(j) /\ ij)
      BY <2>2
    <3>4. <<j, i>> \in R <=>
             score(j) > score(i) \/ (score(j) = score(i) /\ offset(j) < offset(i))
             \/ (score(j) = score(i) /\ offset(j) = offset(i) /\ ji)
      BY <2>2
    <3>5. /\ score(i) \in Nat /\ score(j) \in Nat /\ offset(i) \in Nat /\ offset(j) \in Nat
      BY <2>1
    <3> HIDE DEF ij, ji
    <3>6. CASE score(i) = score(j) /\ offset(i) = offset(j)
      <4>1. (<<i, j>> \in R <=> ij) /\ (<<j, i>> \in R <=> ji)
        BY <3>3, <3>4, <3>5, <3>6
      <4> QED
        BY <3>2, <4>1
    <3>7. CASE ~(score(i) = score(j) /\ offset(i) = offset(j))
      BY <3>3, <3>4, <3>5, <3>7
    <3> QED
      BY <3>6, <3>7
  <2>4. ASSUME NEW i \in S, NEW j \in S, NEW k \in S, <<i, j>> \in R, <<j, k>> \in R
        PROVE  <<i, k>> \in R
    <3>1. Smaller(text(i), text(j)) /\ Smaller(text(j), text(k)) => Smaller(text(i), text(k))
      BY <2>1, StringsOrdered
    <3> DEFINE ij == Smaller(text(i), text(j)) \/ (text(i) = text(j) /\ i < j)
               jk == Smaller(text(j), text(k)) \/ (text(j) = text(k) /\ j < k)
               ik == Smaller(text(i), text(k)) \/ (text(i) = text(k) /\ i < k)
    <3>2. ij /\ jk => ik
      BY <2>1, <3>1
    <3>3. /\ score(i) > score(j) \/ (score(i) = score(j) /\ offset(i) < offset(j))
             \/ (score(i) = score(j) /\ offset(i) = offset(j) /\ ij)
          /\ score(j) > score(k) \/ (score(j) = score(k) /\ offset(j) < offset(k))
             \/ (score(j) = score(k) /\ offset(j) = offset(k) /\ jk)
      BY <2>2, <2>4
    <3>4. <<i, k>> \in R <=>
             score(i) > score(k) \/ (score(i) = score(k) /\ offset(i) < offset(k))
             \/ (score(i) = score(k) /\ offset(i) = offset(k) /\ ik)
      BY <2>2
    <3> HIDE DEF ij, jk, ik
    <3>5. /\ score(i) \in Nat /\ score(j) \in Nat /\ score(k) \in Nat
          /\ offset(i) \in Nat /\ offset(j) \in Nat /\ offset(k) \in Nat
      BY <2>1
    <3>6. CASE score(i) > score(j) \/ score(j) > score(k)
      BY <3>3, <3>4, <3>5, <3>6
    <3>7. CASE ~(score(i) > score(j) \/ score(j) > score(k))
      <4>1. score(i) = score(j) /\ score(j) = score(k)
        BY <3>3, <3>5, <3>7
      <4>2. CASE offset(i) < offset(j) \/ offset(j) < offset(k)
        BY <3>3, <3>4, <3>5, <4>1, <4>2
      <4>3. CASE ~(offset(i) < offset(j) \/ offset(j) < offset(k))
        <5>1. offset(i) = offset(j) /\ offset(j) = offset(k) /\ ij /\ jk
          BY <3>3, <3>5, <4>1, <4>3
        <5> QED
          BY <3>2, <3>4, <4>1, <5>1
      <4> QED
        BY <4>2, <4>3
    <3> QED
      BY <3>6, <3>7
  <2> QED
    BY <2>3, <2>4 DEF StrictlyOrders
<1>7. order \in [S -> S]
  <2>1. Sorted(S, R) \in [1 .. Cardinality(S) -> S]
    BY <1>2, <1>6, SortedOrders
  <2> QED
    BY <1>1, <1>2, <2>1
<1> HIDE DEF order
<1>8. \A k \in S : cs[order[k]] \in C
  BY <1>1, <1>7
<1> QED
  BY <1>1, <1>5, <1>8

\* The candidate is passed over: enough are selected, or one of its text is.
PassedOver(selected, c, max) ==
  Len(selected) = max
  \/ \E k \in DOMAIN selected : Folded(selected[k].value) = Folded(c.value)

LEMMA SelectedAreCandidates ==
  ASSUME NEW d, NEW C, \A c \in C : IsLiteral(d, c), NEW q, NEW cs \in Seq(C),
         cs = FromRecovered \o FromImports(q.imports) \o FromText(q.imports)
  PROVE  SelectStrings(q) \in Seq(C)
<1> DEFINE n == Len(cs)
           S == 1 .. n
           V == Seq(C)
           ranked == SortedCandidates(cs)
           step == [p \in S \X V |->
             IF PassedOver(p[2], ranked[p[1]], q.max) THEN p[2] ELSE Append(p[2], ranked[p[1]])]
           Solves(f) == f = [s \in SUBSET S |->
             IF s = {} THEN <<>>
             ELSE IF PassedOver(f[s \ {Max(s)}], ranked[Max(s)], q.max)
                  THEN f[s \ {Max(s)}] ELSE Append(f[s \ {Max(s)}], ranked[Max(s)])]
           selected == CHOOSE f : Solves(f)
<1>1. n \in Nat
  OBVIOUS
<1>2. ranked \in [S -> C]
  BY CandidatesOrdered
<1>3. SelectStrings(q) = selected[S]
  <2>1. DOMAIN ranked = S
    BY <1>2
  <2>2. SelectStrings(q) =
          FoldLeft(LAMBDA taken, c :
                     IF Len(taken) = q.max
                        \/ \E k \in DOMAIN taken : Folded(taken[k].value) = Folded(c.value)
                     THEN taken ELSE Append(taken, c), <<>>, ranked)
    BY DEF SelectStrings
  <2> HIDE DEF ranked
  <2> QED
    BY <2>1, <2>2 DEF FoldLeft, MapThenFoldSet, PassedOver
<1> HIDE DEF ranked, n
<1>4. step \in [S \X V -> V] /\ <<>> \in V
  BY <1>2
<1>5. ASSUME NEW s \in SUBSET S, s # {} PROVE Max(s) \in s /\ s \ {Max(s)} \in SUBSET S
  <2>1. s \in SUBSET (0 .. n)
    BY <1>1
  <2> QED
    BY <1>1, <1>5, <2>1, MaxIsGreatest
<1>6. \E f \in [SUBSET S -> V] : FoldsUp(f, n, <<>>, step)
  <2> HIDE DEF step, V
  <2> QED
    BY <1>1, <1>4, FoldUpDefined
<1>7. PICK f \in [SUBSET S -> V] : FoldsUp(f, n, <<>>, step)
  BY <1>6
<1>8. Solves(f)
  <2>1. ASSUME NEW s \in SUBSET S, s # {}
        PROVE  f[s] = IF PassedOver(f[s \ {Max(s)}], ranked[Max(s)], q.max)
                      THEN f[s \ {Max(s)}] ELSE Append(f[s \ {Max(s)}], ranked[Max(s)])
    <3>1. f[s] = step[<<Max(s), f[s \ {Max(s)}]>>]
      BY <1>7, <2>1 DEF FoldsUp
    <3>2. Max(s) \in S /\ f[s \ {Max(s)}] \in V
      BY <1>5, <1>7, <2>1
    <3> QED
      BY <3>1, <3>2
  <2>2. f[{}] = <<>>
    BY <1>7 DEF FoldsUp
  <2> QED
    BY <1>7, <2>1, <2>2
<1>9. Solves(selected)
  <2> HIDE DEF Solves
  <2> QED
    BY <1>8
<1> HIDE DEF selected
<1>10. \A s \in SUBSET S :
         selected[s] = IF s = {} THEN <<>>
                       ELSE IF PassedOver(selected[s \ {Max(s)}], ranked[Max(s)], q.max)
                       THEN selected[s \ {Max(s)}]
                       ELSE Append(selected[s \ {Max(s)}], ranked[Max(s)])
  BY <1>9
<1>11. \A s \in SUBSET S : selected[s] \in V
  <2>1. selected[{}] \in V
    BY <1>4, <1>10
  <2>2. ASSUME NEW s \in SUBSET S, s # {}, selected[s \ {Max(s)}] \in V
        PROVE  selected[s] \in V
    <3>1. ranked[Max(s)] \in C
      BY <1>2, <1>5, <2>2
    <3>2. Append(selected[s \ {Max(s)}], ranked[Max(s)]) \in V
      BY <2>2, <3>1
    <3> HIDE DEF V
    <3> QED
      BY <1>10, <2>2, <3>2
  <2> HIDE DEF V
  <2> QED
    BY <1>1, <2>1, <2>2, FoldUpTyped
<1> QED
  BY <1>3, <1>11

\* The candidates for literals of a file.
Literals(d) ==
  {c \in [score : Nat, offset : Nat, value : Seq(Bytes),
          provenance : {"decoded-xor", "import", "ascii"}] : IsLiteral(d, c)}

LEMMA CandidateIsLiteral ==
  ASSUME NEW d, NEW score \in Nat, NEW offset \in Nat, NEW value \in Seq(Bytes),
         NEW provenance \in {"decoded-xor", "import", "ascii"},
         provenance = "ascii" => Occurs(value, d)
  PROVE  Candidate(score, offset, value, provenance) \in Literals(d)
  BY DEF Candidate, Literals, IsLiteral

LEMMA EvidenceIsText ==
  ASSUME NEW d \in Seq(Bytes), NEW r, Evidence(d, r)
  PROVE  r.value \in Seq(Bytes) /\ r.offset \in Nat
<1>1. Solid(r) /\ IsText(r.value)
  BY EvidenceIsSolid
<1>2. ASSUME NEW a, NEW b, a \in 1 .. Len(d), b \in a .. Len(d),
             Decoded(SubSeq(d, a, b), r.key) = r.value
      PROVE  r.value \in Seq(Range(r.value))
  <2> DEFINE part == SubSeq(d, a, b)
             key == r.key
  <2>1. part \in Seq(Bytes)
    BY <1>2, PartOf
  <2>2. Decoded(part, key) = r.value
    BY <1>2
  <2> HIDE DEF part, key
  <2>3. Decoded(part, key) \in Seq(Range(Decoded(part, key)))
    BY <2>1, DecodedKeepsLength
  <2> QED
    BY <2>2, <2>3
<1>3. r.value \in Seq(Range(r.value))
  <2>1. CASE IsTag(d, r)
    <3> DEFINE a == r.offset + RecordLength(0)
               b == a + Len(r.value) - 1
               n == Len(d)
               l == Len(r.value)
    <3>1. Decoded(SubSeq(d, a, b), r.key) = r.value /\ b <= n
      BY <2>1 DEF IsTag
    <3>2. a \in Nat \ {0} /\ l \in Nat \ {0} /\ n \in Nat /\ b = a + l - 1
      BY <1>1, MarkerLength DEF Solid
    <3> HIDE DEF a, b, n, l
    <3>3. a \in 1 .. n /\ b \in a .. n
      BY <3>1, <3>2
    <3> QED
      BY <1>2, <3>1, <3>3 DEF n
  <2>2. CASE IsReading(d, r)
    <3> DEFINE a == r.offset
               b == LastOf(r)
               n == Len(d)
               l == Len(r.value)
    <3>1. Decoded(SubSeq(d, a, b), r.key) = r.value /\ b <= n
      BY <2>2 DEF IsReading
    <3>2. a \in Nat \ {0} /\ l \in Nat \ {0} /\ n \in Nat /\ b = a + l - 1
      BY <1>1 DEF Solid, LastOf
    <3> HIDE DEF a, b, n, l
    <3>3. a \in 1 .. n /\ b \in a .. n
      BY <3>1, <3>2
    <3> QED
      BY <1>2, <3>1, <3>3 DEF n
  <2> QED
    BY <2>1, <2>2 DEF Evidence
<1>4. Range(r.value) \subseteq Bytes
  BY <1>1 DEF IsText, Printable
<1>5. r.value \in Seq(Bytes)
  <2> DEFINE A == Range(r.value)
  <2>1. r.value \in Seq(A) /\ A \subseteq Bytes
    BY <1>3, <1>4
  <2> HIDE DEF A
  <2> QED
    BY <2>1
<1> QED
  BY <1>1, <1>5 DEF Solid

LEMMA RecoveredAreLiterals ==
  ASSUME data \in Seq(Bytes), NEW R, found \in Seq(R), \A r \in R : Evidence(data, r)
  PROVE  FromRecovered \in Seq(Literals(data))
<1> DEFINE n == Len(found)
           of(r) == Candidate(1000 + StringScore(r.value), r.offset, r.value, "decoded-xor")
<1>1. n \in Nat /\ DOMAIN found = 1 .. n /\ \A k \in 1 .. n : found[k] \in R
  OBVIOUS
<1>2. FromRecovered = [k \in 1 .. n |-> of(found[k])]
  BY <1>1 DEF FromRecovered
<1>3. ASSUME NEW r \in R PROVE of(r) \in Literals(data)
  <2>1. r.value \in Seq(Bytes) /\ r.offset \in Nat
    BY EvidenceIsText
  <2>2. 1000 + StringScore(r.value) \in Nat
    BY <2>1, StringScoreType
  <2> QED
    BY <2>1, <2>2, CandidateIsLiteral
<1> HIDE DEF of, n
<1>4. \A k \in 1 .. n : of(found[k]) \in Literals(data)
  BY <1>1, <1>3
<1> QED
  BY <1>1, <1>2, <1>4

LEMMA ImportsAreLiterals ==
  ASSUME data \in Seq(Bytes), NEW names \in Seq(Seq(Bytes))
  PROVE  FromImports(names) \in Seq(Literals(data))
<1> DEFINE n == Len(names)
           of(s) == Candidate(800 + StringScore(s),
                              IF Places(s) = {} THEN 1 ELSE Min(Places(s)), s, "import")
           each == [k \in DOMAIN names |->
                      IF StringScore(names[k]) > 0 THEN <<of(names[k])>> ELSE <<>>]
           L == Literals(data)
<1>1. n \in Nat /\ DOMAIN names = 1 .. n /\ \A k \in 1 .. n : names[k] \in Seq(Bytes)
  <2> DEFINE A == Seq(Bytes)
  <2> HIDE DEF A
  <2>1. names \in Seq(A)
    BY DEF A
  <2>2. n \in Nat /\ DOMAIN names = 1 .. n /\ \A k \in 1 .. n : names[k] \in A
    BY <2>1
  <2> QED
    BY <2>2 DEF A
<1>2. FromImports(names) = FlattenSeq(each)
  BY DEF FromImports
<1>3. ASSUME NEW s \in Seq(Bytes) PROVE of(s) \in L
  <2> DEFINE P == Places(s)
             offset == IF P = {} THEN 1 ELSE Min(P)
  <2>1. P \in SUBSET Nat
    BY DEF Places
  <2> HIDE DEF P
  <2>2. offset \in Nat
    <3>1. CASE P = {}
      BY <3>1
    <3>2. CASE P # {}
      <4>1. Min(P) \in P
        BY <2>1, <3>2, MinIsLeast
      <4> QED
        BY <2>1, <3>2, <4>1
    <3> QED
      BY <3>1, <3>2
  <2>3. 800 + StringScore(s) \in Nat
    BY StringScoreType
  <2>4. of(s) = Candidate(800 + StringScore(s), offset, s, "import")
    BY DEF P
  <2> HIDE DEF offset
  <2>5. Candidate(800 + StringScore(s), offset, s, "import") \in Literals(data)
    BY <2>2, <2>3, CandidateIsLiteral
  <2> QED
    BY <2>4, <2>5
<1> HIDE DEF n, of, L
<1>4. each \in [1 .. n -> Seq(L)]
  <2>1. \A k \in 1 .. n :
          (IF StringScore(names[k]) > 0 THEN <<of(names[k])>> ELSE <<>>) \in Seq(L)
    BY <1>1, <1>3
  <2> QED
    BY <1>1, <2>1
<1> HIDE DEF each
<1>5. FlattenSeq(each) \in Seq(L)
  BY <1>1, <1>4, FlattenedIn
<1> QED
  BY <1>2, <1>5 DEF L

LEMMA TextIsLiteral ==
  ASSUME data \in Seq(Bytes), NEW names
  PROVE  FromText(names) \in Seq(Literals(data))
<1> DEFINE runs == Matches(data, Printable, Literal.run, Len(data))
           W == Spans(data, Printable)
           text(m) == SubSeq(data, m.first, m.last)
           of(m) == Candidate(StringScore(text(m)), m.first, text(m), "ascii")
           clear(c) ==
             /\ c.score > 0
             /\ \A k \in DOMAIN names :
                  StringScore(names[k]) > 0 => ~IsStrictPrefix(Folded(names[k]), Folded(c.value))
             /\ \A w \in SectionNames : ~IsPrefix(w, Folded(c.value))
           each == [k \in DOMAIN runs |-> IF clear(of(runs[k])) THEN <<of(runs[k])>> ELSE <<>>]
           n == Len(runs)
           L == Literals(data)
<1>1. Len(data) \in Nat /\ Literal.run \in Nat \ {0}
  BY YaraAssumption
<1>2. runs \in Seq(W)
  <2> HIDE DEF W
  <2> QED
    BY <1>1, MatchesAreSpans DEF W
<1>3. FromText(names) = FlattenSeq(each)
  BY DEF FromText
<1>4. ASSUME NEW m \in W PROVE of(m) \in L
  <2> DEFINE a == m.first
             b == m.last
             s == SubSeq(data, a, b)
             l == b - a + 1
  <2>1. a \in 1 .. Len(data) /\ b \in a .. Len(data)
    BY <1>1 DEF Spans
  <2>2. a \in Nat \ {0} /\ b \in Nat /\ a <= b /\ b <= Len(data) /\ l \in Nat \ {0}
        /\ a + l - 1 = b
    BY <1>1, <2>1
  <2>3. of(m) = Candidate(StringScore(s), a, s, "ascii")
    OBVIOUS
  <2>4. s = SubSeq(data, a, b)
    OBVIOUS
  <2> HIDE DEF a, b, s, of
  <2>5. s \in Seq(Bytes) /\ Len(s) = l
    BY <2>1, <2>4, PartOf
  <2> HIDE DEF l
  <2>6. Occurs(s, data)
    <3>1. a \in 1 .. Len(data) - Len(s) + 1 /\ SubSeq(data, a, a + Len(s) - 1) = s
      BY <1>1, <2>2, <2>4, <2>5
    <3> QED
      BY <3>1 DEF Occurs
  <2>7. StringScore(s) \in Nat
    BY <2>5, StringScoreType
  <2>8. Candidate(StringScore(s), a, s, "ascii") \in Literals(data)
    BY <2>2, <2>5, <2>6, <2>7, CandidateIsLiteral
  <2> QED
    BY <2>3, <2>8
<1> HIDE DEF runs, of, clear, L, W
<1>5. n \in Nat /\ DOMAIN runs = 1 .. n /\ \A k \in 1 .. n : runs[k] \in W
  BY <1>2
<1> HIDE DEF n
<1>6. each \in [1 .. n -> Seq(L)]
  <2>1. \A k \in 1 .. n : (IF clear(of(runs[k])) THEN <<of(runs[k])>> ELSE <<>>) \in Seq(L)
    BY <1>4, <1>5
  <2> QED
    BY <1>5, <2>1
<1> HIDE DEF each
<1>7. FlattenSeq(each) \in Seq(L)
  BY <1>5, <1>6, FlattenedIn
<1> QED
  BY <1>3, <1>7 DEF L

LEMMA SelectedAreLiterals ==
  ASSUME data \in Seq(Bytes), NEW R, found \in Seq(R), \A r \in R : Evidence(data, r),
         NEW q, q.imports \in Seq(Seq(Bytes))
  PROVE  SelectStrings(q) \in Seq(Literals(data))
<1> DEFINE L == Literals(data)
           a == FromRecovered
           b == FromImports(q.imports)
           c == FromText(q.imports)
           cs == a \o b \o c
<1>1. a \in Seq(L) /\ b \in Seq(L) /\ c \in Seq(L)
  BY RecoveredAreLiterals, ImportsAreLiterals, TextIsLiteral
<1>2. \A x \in L : IsLiteral(data, x)
  BY DEF Literals
<1>3. cs = FromRecovered \o FromImports(q.imports) \o FromText(q.imports)
  OBVIOUS
<1> HIDE DEF L, a, b, c
<1>4. cs \in Seq(L)
  BY <1>1
<1> HIDE DEF cs
<1>5. SelectStrings(q) \in Seq(L)
  BY <1>2, <1>3, <1>4, SelectedAreCandidates
<1> QED
  BY <1>5 DEF L

(***************************************************************************)
(* The rule matches its file.                                              *)
(***************************************************************************)
\* The range of sizes, rounded twice, holds the size it was made from.
LEMMA SizesHold ==
  ASSUME NEW n \in Nat \ {0}, n <= Literal.size
  PROVE  n \in Sizes(n).lower .. Sizes(n).upper
<1> DEFINE x == (n * 3) \div 4
           y == (n * 5) \div 4
           lower == Max({1, x})
           most == Max({lower, y})
           upper == Min({Literal.size, most})
           size == Literal.size
<1>1. x \in Nat /\ x <= n /\ y \in Nat /\ n <= y
  OBVIOUS
<1>2. size \in Nat /\ n <= size
  BY YaraAssumption
<1>3. Sizes(n).lower = lower /\ Sizes(n).upper = upper
  BY DEF Sizes
<1>4. upper = Min({size, most})
  OBVIOUS
<1> HIDE DEF x, y, upper, size
<1>5. lower \in {1, x}
  BY <1>1, GreaterOfTwo
<1>6. lower \in Nat /\ lower <= n
  BY <1>1, <1>5
<1> HIDE DEF lower
<1>7. most \in {lower, y} /\ y <= most
  BY <1>1, <1>6, GreaterOfTwo
<1>8. most \in Nat /\ n <= most
  BY <1>1, <1>6, <1>7
<1> HIDE DEF most
<1>9. Min({size, most}) \in {size, most}
  BY <1>2, <1>8, LeastOfTwo
<1>10. upper \in Nat /\ n <= upper
  BY <1>2, <1>4, <1>8, <1>9
<1> QED
  BY <1>3, <1>6, <1>10

\* A rule is made of literals of the file, and its range of sizes holds the file's.
RuleOfFile(r) ==
  /\ r.strings \in Seq(Literals(data)) /\ r.condition.atLeast \in Nat
  /\ Len(data) \in r.condition.lower .. r.condition.upper

RuleInv ==
  /\ RecoveredSoFar
  /\ Len(data) <= Literal.size
  /\ rule.kind = "rule" => RuleOfFile(rule)

LEMMA GeneratedOfFile ==
  ASSUME data \in Seq(Bytes), Len(data) <= Literal.size,
         NEW R, found \in Seq(R), \A r \in R : Evidence(data, r),
         NEW q \in Request, Generated(q).kind = "rule"
  PROVE  RuleOfFile(Generated(q))
<1> DEFINE strings == SelectStrings(q)
           r == Generated(q)
           n == Len(data)
           size == Literal.size
<1>1. strings \in Seq(Literals(data))
  BY SelectedAreLiterals DEF Request
<1>2. n \in Nat /\ size \in Nat /\ n <= size
  BY YaraAssumption
<1>3. ASSUME data # <<>> PROVE n \in Sizes(n).lower .. Sizes(n).upper
  <2>1. n \in Nat \ {0}
    BY <1>3
  <2> HIDE DEF n
  <2> QED
    BY <1>2, <2>1, SizesHold
<1> HIDE DEF strings
<1>4. Refused.kind # "rule"
  BY DEF Refused, NoRule
<1>5. q.max \in 1 .. Literal.cap /\ data # <<>>
  BY <1>4 DEF Generated
<1>6. r.strings = strings
  <2>1. CASE q.container = "pe"
    BY <1>5, <2>1 DEF Generated, strings
  <2>2. CASE q.container # "pe"
    BY <1>4, <1>5, <2>2 DEF Generated, strings
  <2> QED
    BY <2>1, <2>2
<1>7. \/ r.condition.lower = 0 /\ r.condition.upper = size
      \/ r.condition.lower = Sizes(n).lower /\ r.condition.upper = Sizes(n).upper
  <2>1. CASE q.container = "pe"
    BY <1>5, <2>1 DEF Generated, AnyFile
  <2>2. CASE q.container # "pe"
    BY <1>4, <1>5, <2>2 DEF Generated, AnyFile
  <2> QED
    BY <2>1, <2>2
<1>9. r.condition.atLeast \in Nat
  <2>1. CASE q.container = "pe"
    BY <1>5, <2>1 DEF Generated, AnyFile
  <2>2. CASE q.container # "pe"
    BY <1>4, <1>5, <2>2 DEF Generated, AnyFile
  <2> QED
    BY <2>1, <2>2
<1> HIDE DEF r, size, n
<1>8. n \in r.condition.lower .. r.condition.upper
  BY <1>2, <1>3, <1>5, <1>7
<1> QED
  BY <1>1, <1>6, <1>8, <1>9 DEF RuleOfFile, r, n

LEMMA RuleStarts == YaraInit => RuleInv
<1> SUFFICES ASSUME YaraInit PROVE RuleInv
  OBVIOUS
<1>1. RecoveredSoFar /\ data \in Files
  BY RecoveryStarts DEF YaraInit, RecoveryInit
<1>2. rule.kind # "rule"
  BY DEF YaraInit, NoRule
<1> QED
  BY <1>1, <1>2, YaraAssumption DEF RuleInv

LEMMA RuleGoesOn == RuleInv /\ [YaraNext]_yaraVars => RuleInv'
<1> SUFFICES ASSUME RuleInv, [YaraNext]_yaraVars PROVE RuleInv'
  OBVIOUS
<1>1. CASE Recover
  <2>1. RecoveredSoFar'
    BY <1>1, RecoveryGoesOn DEF Recover, RuleInv
  <2>2. data' = data
    BY <1>1 DEF Recover, RecoveryNext, RecoverTagged, BruteForce, InferKeys, SortResults
  <2>3. rule'.kind # "rule"
    BY <1>1 DEF Recover, NoRule
  <2> QED
    BY <2>1, <2>2, <2>3 DEF RuleInv
<1>2. CASE Generate
  <2>1. UNCHANGED recovery
    BY <1>2 DEF Generate
  <2>2. RecoveredSoFar' /\ data' = data
    BY <2>1, RecoveryGoesOn DEF RuleInv, recovery
  <2>3. PICK q \in Requests : rule' = Generated(q)
    BY <1>2 DEF Generate
  <2> DEFINE s == Recovered(data)
  <2>4. data \in Seq(Bytes) /\ found = InOrder(s) /\ Held(data, s)
    BY <1>2, RecoveredHeld DEF Generate, RuleInv, RecoveredSoFar
  <2> HIDE DEF s
  <2>5. found \in Seq(Range(s))
    BY <2>4, HeldInOrder
  <2>6. \A r \in Range(s) : Evidence(data, r)
    BY <2>4 DEF Held, Range
  <2>7. q \in Request
    BY YaraAssumption
  <2>8. rule'.kind = "rule" => RuleOfFile(rule')
    <3> DEFINE R == Range(s)
    <3>1. found \in Seq(R) /\ \A r \in R : Evidence(data, r)
      BY <2>5, <2>6
    <3> HIDE DEF R
    <3>2. Generated(q).kind = "rule" => RuleOfFile(Generated(q))
      BY <2>4, <2>7, <3>1, GeneratedOfFile DEF RuleInv
    <3> QED
      BY <2>3, <3>2
  <2>9. rule'.kind = "rule" => RuleOfFile(rule)'
    BY <2>2, <2>8 DEF RuleOfFile
  <2> QED
    BY <2>2, <2>9 DEF RuleInv
<1>3. CASE UNCHANGED yaraVars
  <2>1. RecoveredSoFar'
    BY <1>3, RecoveryGoesOn DEF yaraVars, recovery, RuleInv
  <2> QED
    BY <1>3, <2>1 DEF yaraVars, RuleInv, RuleOfFile
<1> QED
  BY <1>1, <1>2, <1>3 DEF YaraNext

LEMMA RuleAlways == YaraSpec => []RuleInv
  BY RuleStarts, RuleGoesOn, PTL DEF YaraSpec

LEMMA RuleMatches == RuleInv => SampleMatched
<1> SUFFICES ASSUME RuleInv, rule.kind = "rule",
                    Cardinality({k \in DOMAIN rule.strings : rule.strings[k].provenance = "ascii"})
                      >= rule.condition.atLeast
             PROVE  MatchesSample(rule)
  BY DEF SampleMatched
<1> DEFINE strings == rule.strings
           P == {k \in DOMAIN strings : strings[k].provenance = "ascii"}
           L == Literals(data)
           most == rule.condition.atLeast
<1>1. RuleOfFile(rule)
  BY DEF RuleInv
<1>2. strings \in Seq(L) /\ most \in Nat
  BY <1>1 DEF RuleOfFile
<1>3. \A c \in L : c.provenance = "ascii" => Occurs(c.value, data)
  BY DEF Literals, IsLiteral
<1>4. Holding(rule) = {k \in DOMAIN strings : InFile(strings[k].value)}
  BY DEF Holding
<1>5. Cardinality(P) >= most
  OBVIOUS
<1> HIDE DEF strings, L, most
<1>6. P \in SUBSET Holding(rule) /\ Holding(rule) \in SUBSET DOMAIN strings
  BY <1>2, <1>3, <1>4 DEF InFile
<1>7. IsFiniteSet(DOMAIN strings)
  <2>1. Len(strings) \in Nat /\ DOMAIN strings = 1 .. Len(strings)
    BY <1>2
  <2> QED
    BY <2>1, FS_Interval
<1> HIDE DEF P
<1>8. IsFiniteSet(Holding(rule))
  BY <1>6, <1>7, FS_Subset
<1>9. IsFiniteSet(P) /\ Cardinality(P) <= Cardinality(Holding(rule))
  BY <1>6, <1>8, FS_Subset
<1>10. Cardinality(P) \in Nat /\ Cardinality(Holding(rule)) \in Nat
  BY <1>8, <1>9, FS_CardinalityType
<1>11. Cardinality(Holding(rule)) >= most
  BY <1>2, <1>5, <1>9, <1>10
<1> QED
  BY <1>1, <1>11 DEF RuleOfFile, MatchesSample, most

\* For every file and request, a rule that counts on no other literals than it was given
\* of the file's own text matches the file.
THEOREM SampleAlwaysMatched == YaraSpec => []SampleMatched
  BY RuleAlways, RuleMatches, PTL
=============================================================================
