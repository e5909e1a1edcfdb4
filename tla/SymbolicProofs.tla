--------------------------- MODULE SymbolicProofs ---------------------------
(***************************************************************************)
(* Symbolic for every set of symbols, domains and constraints of its form  *)
(* and for requests of every length.  What the mini backend concludes at   *)
(* the end of its loop follows from what holds after each turn: the        *)
(* assignments tried so far fail, and they come before all the others.     *)
(***************************************************************************)
EXTENDS Symbolic, FiniteSetTheorems, SequenceTheorems, TLAPS

\* Where the loop stands.
Searching ==
  /\ stage = "solve" => tried = {}
  /\ stage \in {"solve", "mini"} =>
       /\ \A v \in tried : ~Satisfies(Goal(path), v)
       /\ \A v \in tried : \A w \in Untried(Goal(path)) : Before(v, w)

\* Each path has been answered when the next one begins.
Paths ==
  /\ stage \in {"solve", "mini", "z3"} => Len(answers) = path - 1
  /\ stage = "answered" => Len(answers) = path
  /\ Len(answers) <= path

\* The rule asks the mini backend and compares its two answers.
Ruling ==
  request.caller = "rule" =>
    /\ stage # "z3"
    /\ \A p \in DOMAIN answers : answers[p].backend = "mini"
    /\ stage = "done" /\ Len(answers) = 2 => (matched <=> Differ)

IInv == TypeOK /\ IsFiniteSet(tried) /\ Searching /\ Paths /\ MiniDecides /\ Ruling

LEMMA NegateType ==
  ASSUME NEW c \in Constraint
  PROVE  /\ Negate(c) \in Constraint
         /\ Negate(c).left = c.left /\ Negate(c).right = c.right
         /\ Negate(c).op = Opposite[c.op]
BY DEF Negate, Constraint, Opposite, Comparisons

\* The two paths of a request range over the same symbols.
LEMMA GoalType ==
  ASSUME request \in RequestsOver(Seq(Constraint)), NEW p \in {1, 2},
         p = 2 => request.caller = "rule"
  PROVE  /\ Goal(p) \in Seq(Constraint) /\ Len(Goal(p)) = Len(request.constraints)
         /\ \A k \in DOMAIN request.constraints :
              /\ Goal(p)[k].left = request.constraints[k].left
              /\ Goal(p)[k].right = request.constraints[k].right
              /\ ~(p = 2 /\ k = Len(request.constraints)) => Goal(p)[k] = request.constraints[k]
         /\ p = 2 => /\ Len(request.constraints) \in DOMAIN request.constraints
                     /\ Goal(p)[Len(request.constraints)] =
                          Negate(request.constraints[Len(request.constraints)])
<1> DEFINE cs == request.constraints
<1>1. cs \in Seq(Constraint) /\ (request.caller = "rule" => cs # <<>>)
  BY DEF RequestsOver
<1>2. CASE p = 1
  BY <1>1, <1>2 DEF Goal
<1>3. CASE p = 2
  <2>1. Len(cs) \in DOMAIN cs /\ cs[Len(cs)] \in Constraint
    BY <1>1, <1>3
  <2>2. Goal(p) = [cs EXCEPT ![Len(cs)] = Negate(cs[Len(cs)])]
    BY <1>3 DEF Goal
  <2>3. Negate(cs[Len(cs)]) \in Constraint
    BY <2>1, NegateType
  <2> HIDE DEF cs
  <2>4. Goal(p) \in Seq(Constraint) /\ Len(Goal(p)) = Len(cs)
    BY <2>1, <2>2, <2>3, <1>1
  <2>5. \A k \in DOMAIN cs : Goal(p)[k] = IF k = Len(cs) THEN Negate(cs[Len(cs)]) ELSE cs[k]
    BY <2>1, <2>2, <1>1
  <2>6. \A k \in DOMAIN cs : Goal(p)[k].left = cs[k].left /\ Goal(p)[k].right = cs[k].right
    BY <2>1, <2>5, NegateType
  <2> QED  BY <1>3, <2>1, <2>4, <2>5, <2>6 DEF cs
<1> QED  BY <1>2, <1>3

LEMMA SameAssignments ==
  ASSUME request \in RequestsOver(Seq(Constraint)), NEW p \in {1, 2},
         p = 2 => request.caller = "rule"
  PROVE  Assignments(Goal(p)) = Assignments(Goal(1))
<1>1. /\ request.constraints \in Seq(Constraint) /\ Goal(1) = request.constraints
      /\ DOMAIN Goal(p) = DOMAIN Goal(1)
  <2>1. request.constraints \in Seq(Constraint)
    BY DEF RequestsOver
  <2> QED  BY <2>1, GoalType DEF Goal
<1>2. \A k \in DOMAIN Goal(1) : /\ Goal(p)[k].left = Goal(1)[k].left
                                /\ Goal(p)[k].right = Goal(1)[k].right
  BY <1>1, GoalType
<1>3. Symbols(Goal(p)) = Symbols(Goal(1))
  BY <1>1, <1>2 DEF Symbols
<1> QED  BY <1>3 DEF Assignments

LEMMA InitIInv == Init => IInv
<1> SUFFICES ASSUME Init PROVE IInv
  OBVIOUS
<1>1. request \in RequestsOver(Seq(Constraint))
  <2>1. PICK n \in 0 .. MaxLength : request.constraints \in [1 .. n -> Conditions]
    BY DEF Init, RequestsOver
  <2>2. request.constraints \in Seq(Constraint)
    BY <2>1, SymbolicAssumption
  <2> QED  BY <2>2 DEF Init, RequestsOver
<1>2. TypeOK
  <2>1. path \in {1, 2} /\ path # 2 /\ answers \in Seq(Solutions)
    BY EmptySeq DEF Init
  <2> QED  BY <1>1, <2>1 DEF Init, TypeOK
<1>3. IsFiniteSet(tried)
  BY FS_EmptySet DEF Init
<1>4. Searching /\ Paths /\ MiniDecides /\ Ruling
  BY DEF Init, Searching, Paths, MiniDecides, Ruling
<1> QED  BY <1>2, <1>3, <1>4 DEF IInv

\* The facts about one more answer, shared by the three ways to answer.
LEMMA AnswerStep ==
  ASSUME IInv, stage \in {"mini", "z3"}, NEW s, Answer(s),
         UNCHANGED <<request, path, matched>>, s \in Solutions,
         s.backend = stage,
         s.backend = "mini" => Decides(s, Goal(path)),
         tried' \subseteq Assignments(Goal(path)), IsFiniteSet(tried')
  PROVE  IInv'
<1>1. /\ answers' = Append(answers, s) /\ stage' = "answered" /\ answers \in Seq(Solutions)
      /\ Len(answers) = path - 1 /\ path \in {1, 2} /\ request' = request /\ path' = path
  BY DEF Answer, IInv, TypeOK, Paths
<1>2. /\ answers' \in Seq(Solutions) /\ Len(answers') = path
      /\ answers'[path] = s /\ DOMAIN answers' = 1 .. path
      /\ \A p \in DOMAIN answers' : p # path => p \in DOMAIN answers /\ answers'[p] = answers[p]
  BY <1>1
<1>3. (\A p : Goal(p)' = Goal(p)) /\ Solutions' = Solutions
  BY <1>1 DEF Goal, Solutions
<1>4. TypeOK'
  BY <1>1, <1>2, <1>3 DEF IInv, TypeOK
<1>5. Searching' /\ Paths'
  BY <1>1, <1>2 DEF Searching, Paths
<1>6. MiniDecides'
  <2> SUFFICES ASSUME NEW p \in DOMAIN answers', answers'[p].backend = "mini"
               PROVE  Decides(answers'[p], Goal(p))
    BY <1>3 DEF MiniDecides
  <2> QED  BY <1>2 DEF IInv, MiniDecides
<1>7. Ruling'
  BY <1>1, <1>2 DEF IInv, Ruling
<1> QED  BY <1>4, <1>5, <1>6, <1>7 DEF IInv

LEMMA SolveStep == IInv /\ Solve => IInv'
<1> SUFFICES ASSUME IInv, Solve PROVE IInv'
  OBVIOUS
<1>1. /\ stage = "solve" /\ stage' \in {"mini", "z3", "done", "raised"}
      /\ UNCHANGED <<request, path, tried, answers, matched>>
  BY DEF Solve, Selected
<1>2. (\A p : Goal(p)' = Goal(p)) /\ Solutions' = Solutions
  BY <1>1 DEF Goal, Solutions
<1>3. TypeOK'
  BY <1>1, <1>2 DEF IInv, TypeOK
<1>4. Searching' /\ Paths' /\ MiniDecides' /\ IsFiniteSet(tried')
  BY <1>1, <1>2 DEF IInv, Searching, Paths, MiniDecides, Untried
<1>5. Ruling'
  <2> SUFFICES ASSUME request.caller = "rule"
               PROVE  /\ stage' # "z3" /\ Len(answers) # 2
                      /\ \A p \in DOMAIN answers : answers[p].backend = "mini"
    BY <1>1 DEF Ruling
  <2>1. request.backend = "mini"
    BY DEF IInv, TypeOK, RequestsOver
  <2>2. Selected = "mini"
    BY <2>1 DEF Selected
  <2>3. Len(answers) = path - 1 /\ path \in {1, 2}
    BY <1>1 DEF IInv, TypeOK, Paths
  <2> QED  BY <2>2, <2>3 DEF Solve, IInv, Ruling
<1> QED  BY <1>3, <1>4, <1>5 DEF IInv

LEMMA CandidateStep == IInv /\ Candidate => IInv'
<1> SUFFICES ASSUME IInv, Candidate PROVE IInv'
  OBVIOUS
<1> DEFINE cs == Goal(path)
<1>1. PICK v \in Untried(cs) :
        /\ \A w \in Untried(cs) \ {v} : Before(v, w)
        /\ tried' = tried \cup {v}
        /\ IF Satisfies(cs, v)
           THEN Answer(Solution(TRUE, v, "mini", Cardinality(tried')))
           ELSE UNCHANGED <<answers, stage>>
  BY DEF Candidate
<1>2. /\ stage = "mini" /\ UNCHANGED <<request, path, matched>>
      /\ v \in Assignments(cs) /\ tried' \subseteq Assignments(cs)
      /\ \A w \in tried : ~Satisfies(cs, w)
      /\ \A u \in tried : \A w \in Untried(cs) : Before(u, w)
  BY <1>1 DEF Candidate, IInv, TypeOK, Searching, Untried
<1>3. IsFiniteSet(tried') /\ Cardinality(tried') \in Nat
  BY <1>1, FS_AddElement, FS_CardinalityType DEF IInv
<1>4. CASE Satisfies(cs, v)
  <2> DEFINE s == Solution(TRUE, v, "mini", Cardinality(tried'))
  <2>1. Assignments(cs) = Assignments(Goal(1))
    BY SameAssignments DEF IInv, TypeOK
  <2>2. s \in Solutions /\ s.backend = "mini"
    BY <2>1, <1>2, <1>3 DEF Solution, Solutions
  <2>3. Decides(s, cs)
    BY <1>1, <1>2, <1>4 DEF Decides, Solution, Untried
  <2>4. Answer(s)
    BY <1>1, <1>4
  <2> HIDE DEF s
  <2> QED  BY <2>2, <2>3, <2>4, <1>2, <1>3, AnswerStep
<1>5. CASE ~Satisfies(cs, v)
  <2>1. UNCHANGED <<answers, stage>>
    BY <1>1, <1>5
  <2>2. (\A p : Goal(p)' = Goal(p)) /\ Solutions' = Solutions
    BY <1>2 DEF Goal, Solutions
  <2>3. TypeOK'
    BY <1>2, <2>1, <2>2 DEF IInv, TypeOK
  <2>4. Paths' /\ MiniDecides' /\ Ruling'
    BY <1>2, <2>1, <2>2 DEF IInv, Paths, MiniDecides, Ruling, Differ
  <2>5. Searching'
    <3>1. \A u \in tried' : ~Satisfies(cs, u)
      BY <1>1, <1>2, <1>5
    <3>2. \A u \in tried' : \A w \in Assignments(cs) \ tried' : Before(u, w)
      BY <1>1, <1>2 DEF Untried
    <3> QED  BY <3>1, <3>2, <1>2, <2>1, <2>2 DEF Searching, Untried
  <2> QED  BY <2>3, <2>4, <2>5, <1>3 DEF IInv
<1> QED  BY <1>4, <1>5

LEMMA ExhaustStep == IInv /\ Exhaust => IInv'
<1> SUFFICES ASSUME IInv, Exhaust PROVE IInv'
  OBVIOUS
<1> DEFINE s == Solution(FALSE, NoInputs, "mini", Cardinality(tried))
<1>1. /\ stage = "mini" /\ UNCHANGED <<request, path, tried, matched>> /\ Answer(s)
      /\ Untried(Goal(path)) = {}
  BY DEF Exhaust
<1>2. s \in Solutions /\ s.backend = "mini"
  BY FS_CardinalityType DEF IInv, Solution, Solutions
<1>3. Decides(s, Goal(path))
  BY <1>1 DEF IInv, Searching, Decides, Solution, Untried
<1>4. tried' \subseteq Assignments(Goal(path)) /\ IsFiniteSet(tried')
  BY <1>1 DEF IInv, TypeOK
<1> HIDE DEF s
<1> QED  BY <1>1, <1>2, <1>3, <1>4, AnswerStep

LEMMA AskZ3Step == IInv /\ AskZ3 => IInv'
<1> SUFFICES ASSUME IInv, AskZ3 PROVE IInv'
  OBVIOUS
<1>1. stage = "z3" /\ UNCHANGED <<request, path, tried, matched>>
  BY DEF AskZ3
<1>2. tried' \subseteq Assignments(Goal(path)) /\ IsFiniteSet(tried')
  BY <1>1 DEF IInv, TypeOK
<1>5. CASE stage' = "raised" /\ UNCHANGED answers
  <2>1. (\A p : Goal(p)' = Goal(p)) /\ Solutions' = Solutions
    BY <1>1, <1>5 DEF Goal, Solutions
  <2>2. TypeOK' /\ IsFiniteSet(tried')
    BY <1>1, <1>2, <1>5, <2>1 DEF IInv, TypeOK
  <2>3. Searching' /\ Paths' /\ MiniDecides' /\ Ruling'
    BY <1>1, <1>5, <2>1 DEF IInv, Searching, Paths, MiniDecides, Ruling
  <2> QED  BY <2>2, <2>3 DEF IInv
<1> SUFFICES ASSUME ~(stage' = "raised" /\ UNCHANGED answers) PROVE IInv'
  BY <1>5
<1>3. PICK s : Answer(s) /\ s \in Solutions /\ s.backend = "z3"
  <2>1. Assignments(Goal(path)) = Assignments(Goal(1))
    BY SameAssignments DEF IInv, TypeOK
  <2>2. CASE \E v \in Assignments(Goal(path)) : Answer(Solution(TRUE, v, "z3", 0))
    <3>1. PICK v \in Assignments(Goal(path)) : Answer(Solution(TRUE, v, "z3", 0))
      BY <2>2
    <3>2. /\ Solution(TRUE, v, "z3", 0) \in Solutions
          /\ Solution(TRUE, v, "z3", 0).backend = "z3"
      BY <2>1 DEF Solution, Solutions
    <3> QED  BY <3>1, <3>2
  <2>3. CASE Answer(Solution(FALSE, NoInputs, "z3", 0))
    <3>1. /\ Solution(FALSE, NoInputs, "z3", 0) \in Solutions
          /\ Solution(FALSE, NoInputs, "z3", 0).backend = "z3"
      BY DEF Solution, Solutions
    <3> QED  BY <2>3, <3>1
  <2> QED  BY <2>2, <2>3 DEF AskZ3
<1> QED  BY <1>1, <1>2, <1>3, AnswerStep

LEMMA ReturnStep == IInv /\ Return => IInv'
<1> SUFFICES ASSUME IInv, Return PROVE IInv'
  OBVIOUS
<1>1. /\ stage = "answered" /\ UNCHANGED <<request, answers>> /\ Len(answers) = path
      /\ path \in {1, 2} /\ answers \in Seq(Solutions)
  BY DEF Return, IInv, TypeOK, Paths
<1>2. (\A p : Goal(p)' = Goal(p)) /\ Solutions' = Solutions /\ (Differ <=> Differ')
  BY <1>1 DEF Goal, Solutions, Differ
<1>3. MiniDecides'
  BY <1>1, <1>2 DEF IInv, MiniDecides
<1>4. CASE request.caller = "rule" /\ path = 1
  <2>1. path' = 2 /\ stage' = "solve" /\ tried' = {} /\ UNCHANGED matched
    BY <1>4 DEF Return
  <2>2. TypeOK' /\ IsFiniteSet(tried')
    BY <1>1, <1>2, <1>4, <2>1, FS_EmptySet DEF IInv, TypeOK
  <2>3. Searching' /\ Paths' /\ Ruling'
    BY <1>1, <1>4, <2>1 DEF IInv, Searching, Paths, Ruling
  <2> QED  BY <2>2, <2>3, <1>3 DEF IInv
<1>5. CASE ~(request.caller = "rule" /\ path = 1)
  <2>1. /\ stage' = "done" /\ matched' = (request.caller = "rule" /\ Differ)
        /\ UNCHANGED <<path, tried>>
    BY <1>5 DEF Return
  <2>2. TypeOK' /\ IsFiniteSet(tried')
    BY <1>1, <1>2, <2>1 DEF IInv, TypeOK
  <2>3. Searching' /\ Paths'
    BY <1>1, <2>1 DEF IInv, Searching, Paths
  <2>4. Ruling'
    BY <1>1, <1>2, <2>1 DEF IInv, Ruling
  <2> QED  BY <2>2, <2>3, <2>4, <1>3 DEF IInv
<1> QED  BY <1>4, <1>5

LEMMA NextIInv == IInv /\ [Next]_vars => IInv'
<1> SUFFICES ASSUME IInv, [Next]_vars PROVE IInv'
  OBVIOUS
<1>1. CASE Solve      BY <1>1, SolveStep
<1>2. CASE Candidate  BY <1>2, CandidateStep
<1>3. CASE Exhaust    BY <1>3, ExhaustStep
<1>4. CASE AskZ3      BY <1>4, AskZ3Step
<1>5. CASE Return     BY <1>5, ReturnStep
<1>6. CASE UNCHANGED vars
  <2>1. UNCHANGED <<request, path, stage, tried, answers, matched>>
    BY <1>6 DEF vars
  <2>2. (\A p : Goal(p)' = Goal(p)) /\ Solutions' = Solutions /\ (Differ <=> Differ')
    BY <2>1 DEF Goal, Solutions, Differ
  <2> QED
    BY <2>1, <2>2 DEF IInv, TypeOK, Searching, Paths, MiniDecides, Ruling, Untried
<1> QED  BY <1>1, <1>2, <1>3, <1>4, <1>5, <1>6 DEF Next

\* The inductive invariant holds throughout every run of the solver.
THEOREM Invariance == Spec => []IInv
BY InitIInv, NextIInv, PTL DEF Spec

\* Every variable of the solver and the rule stays in its domain.
THEOREM TypeCorrect == Spec => []TypeOK
<1>1. IInv => TypeOK
  BY DEF IInv
<1> QED  BY <1>1, Invariance, PTL

\* _solve_with_mini is right for every request: its witness is the first
\* assignment that satisfies every constraint, and when it finds none there is
\* none.
THEOREM SearchDecides == Spec => []MiniDecides
<1>1. IInv => MiniDecides
  BY DEF IInv
<1> QED  BY <1>1, Invariance, PTL
\* Arithmetic and comparisons of operands within their domains.
LEMMA ValueType ==
  ASSUME NEW cs \in Seq(Constraint), NEW k \in DOMAIN cs, NEW v \in Assignments(cs),
         NEW o \in {cs[k].left.left, cs[k].left.right, cs[k].right}
  PROVE  Value(o, v) \in Int
<1>1. cs[k] \in Constraint
  OBVIOUS
<1>2. o \in Operand
  <2>1. cs[k].left \in Expression /\ cs[k].right \in Operand
    BY <1>1, SymbolicAssumption DEF Constraint
  <2> QED  BY <2>1, SymbolicAssumption DEF Expression
<1>3. CASE o.name = 0
  BY <1>2, <1>3 DEF Value, Operand
<1>4. CASE o.name # 0
  <2>1. o \in Symbols(cs)
    BY <1>4 DEF Symbols
  <2>2. v[o.name] \in o.low .. o.high
    BY <2>1 DEF Assignments
  <2> QED  BY <1>2, <1>4, <2>2 DEF Value, Operand
<1> QED  BY <1>3, <1>4

LEMMA OppositeCompares ==
  ASSUME NEW o \in Comparisons, NEW a \in Int, NEW b \in Int
  PROVE  Compare(Opposite[o], a, b) <=> ~Compare(o, a, b)
<1>1. CASE o = "eq"  BY <1>1 DEF Compare, Opposite
<1>2. CASE o = "ne"  BY <1>2 DEF Compare, Opposite
<1>3. CASE o = "lt"  BY <1>3 DEF Compare, Opposite
<1>4. CASE o = "le"  BY <1>4 DEF Compare, Opposite
<1>5. CASE o = "gt"  BY <1>5 DEF Compare, Opposite
<1>6. CASE o = "ge"  BY <1>6 DEF Compare, Opposite
<1> QED  BY <1>1, <1>2, <1>3, <1>4, <1>5, <1>6 DEF Comparisons

\* Negating a constraint turns its value round wherever it has one.
LEMMA NegateHolds ==
  ASSUME NEW cs \in Seq(Constraint), NEW k \in DOMAIN cs, NEW v \in Assignments(cs)
  PROVE  Holds(Negate(cs[k]), v) <=> Defined(cs[k].left, v) /\ ~Holds(cs[k], v)
<1> DEFINE c == cs[k]
<1>1. c \in Constraint /\ c.op \in Comparisons /\ c.left.op \in Operators
  <2>1. c \in Constraint
    OBVIOUS
  <2> QED  BY <2>1, SymbolicAssumption DEF Constraint, Expression
<1>2. /\ Value(c.left.left, v) \in Int /\ Value(c.left.right, v) \in Int
      /\ Value(c.right, v) \in Int
  BY ValueType
<1>3. Negate(c).left = c.left /\ Negate(c).right = c.right /\ Negate(c).op = Opposite[c.op]
  BY <1>1, NegateType
<1>4. CASE ~Defined(c.left, v)
  BY <1>3, <1>4 DEF Holds
<1>5. CASE Defined(c.left, v)
  <2>1. Evaluate(c.left, v) \in Int
    <3> DEFINE a == Value(c.left.left, v)
               b == Value(c.left.right, v)
    <3>1. c.left.op \in {"floordiv", "mod"} => FloorDiv(a, b) \in Int
      <4> SUFFICES ASSUME c.left.op \in {"floordiv", "mod"} PROVE FloorDiv(a, b) \in Int
        OBVIOUS
      <4>1. b # 0
        BY <1>5 DEF Defined
      <4> HIDE DEF a, b
      <4>2. CASE b > 0
        BY <1>2, <4>2 DEF FloorDiv, a, b
      <4>3. CASE ~(b > 0)
        <5>1. -a \in Int /\ -b \in Int /\ -b > 0
          BY <1>2, <4>1, <4>3 DEF a, b
        <5>2. (-a) \div (-b) \in Int
          BY <5>1
        <5> QED  BY <5>2, <4>3 DEF FloorDiv
      <4> QED  BY <4>2, <4>3
    <3>2. Evaluate(c.left, v) =
            Arithmetic(c.left.op, a, b, FloorDiv(a, b), a - b * FloorDiv(a, b))
      BY DEF Evaluate
    <3> HIDE DEF a, b
    <3>3. a \in Int /\ b \in Int
      BY <1>2 DEF a, b
    <3>4. CASE c.left.op \in {"value", "add", "sub", "mul"}
      BY <3>2, <3>3, <3>4 DEF Arithmetic
    <3>5. CASE c.left.op \in {"floordiv", "mod"}
      BY <3>1, <3>2, <3>3, <3>5 DEF Arithmetic
    <3> QED  BY <1>1, <3>4, <3>5 DEF Operators
  <2> DEFINE l == Evaluate(c.left, v)
             r == Value(c.right, v)
  <2>2. Holds(c, v) <=> Compare(c.op, l, r)
    BY <1>5 DEF Holds
  <2>3. Holds(Negate(c), v) <=> Compare(Opposite[c.op], l, r)
    BY <1>3, <1>5 DEF Holds
  <2>4. l \in Int /\ r \in Int
    BY <2>1, <1>2
  <2> HIDE DEF l, r
  <2>5. Compare(Opposite[c.op], l, r) <=> ~Compare(c.op, l, r)
    BY <1>1, <2>4, OppositeCompares
  <2> QED  BY <1>5, <2>2, <2>3, <2>5
<1> QED  BY <1>4, <1>5

\* Once both paths are answered, what the two answers differ by is the branch.
LEMMA DifferIsForced ==
  ASSUME IInv, request.caller = "rule", stage = "done", Len(answers) = 2
  PROVE  matched <=> Forced
<1> DEFINE cs == request.constraints
           n  == Len(cs)
           there == {v \in Assignments(cs) : /\ \A k \in 1 .. n - 1 : Holds(cs[k], v)
                                             /\ Defined(cs[n].left, v)}
<1>1. /\ request \in RequestsOver(Seq(Constraint)) /\ cs \in Seq(Constraint)
      /\ DOMAIN answers = {1, 2} /\ (matched <=> Differ)
      /\ answers[1].backend = "mini" /\ answers[2].backend = "mini"
      /\ answers[1].satisfiable \in BOOLEAN /\ answers[2].satisfiable \in BOOLEAN
  <2>1. answers \in Seq(Solutions) /\ request \in RequestsOver(Seq(Constraint))
    BY DEF IInv, TypeOK
  <2>2. answers[1] \in Solutions /\ answers[2] \in Solutions /\ DOMAIN answers = {1, 2}
    <3>1. DOMAIN answers = 1 .. 2
      BY <2>1
    <3>2. DOMAIN answers = {1, 2}
      BY <3>1
    <3> QED  BY <2>1, <3>2, ElementOfSeq
  <2>3. /\ answers[1].satisfiable \in BOOLEAN /\ answers[2].satisfiable \in BOOLEAN
    BY <2>2 DEF Solutions
  <2>4. cs \in Seq(Constraint)
    BY <2>1 DEF RequestsOver
  <2> QED  BY <2>1, <2>2, <2>3, <2>4 DEF IInv, Ruling
<1>2. /\ Goal(1) = cs /\ n \in DOMAIN cs /\ DOMAIN Goal(2) = DOMAIN cs
      /\ Goal(2)[n] = Negate(cs[n])
      /\ \A k \in DOMAIN cs : k # n => Goal(2)[k] = cs[k]
  BY <1>1, GoalType DEF Goal
<1>3. Assignments(Goal(2)) = Assignments(cs)
  BY <1>1, <1>2, SameAssignments
<1>4. /\ answers[1].satisfiable <=> \E v \in Assignments(cs) : Satisfies(cs, v)
      /\ answers[2].satisfiable <=> \E v \in Assignments(cs) : Satisfies(Goal(2), v)
  BY <1>1, <1>2, <1>3 DEF IInv, MiniDecides, Decides
<1>5. \A v \in Assignments(cs) : Satisfies(cs, v) <=> v \in there /\ Holds(cs[n], v)
  <2>1. DOMAIN cs = 1 .. n /\ n \in Nat
    BY <1>1
  <2> HIDE DEF cs
  <2>2. \A k \in DOMAIN cs : k = n \/ k \in 1 .. n - 1
    BY <2>1
  <2>3. \A k \in 1 .. n - 1 : k \in DOMAIN cs
    BY <2>1
  <2> QED  BY <1>2, <2>2, <2>3 DEF Satisfies, Holds
<1>6. \A v \in Assignments(cs) : Satisfies(Goal(2), v) <=> v \in there /\ ~Holds(cs[n], v)
  <2> SUFFICES ASSUME NEW v \in Assignments(cs)
               PROVE  Satisfies(Goal(2), v) <=> v \in there /\ ~Holds(cs[n], v)
    OBVIOUS
  <2>1. Holds(Goal(2)[n], v) <=> Defined(cs[n].left, v) /\ ~Holds(cs[n], v)
    BY <1>1, <1>2, NegateHolds
  <2>2. DOMAIN cs = 1 .. n /\ n \in Nat
    BY <1>1
  <2> HIDE DEF cs, n
  <2>3. \A k \in DOMAIN cs : k = n \/ (k \in 1 .. n - 1 /\ k # n)
    BY <2>2
  <2>4. \A k \in 1 .. n - 1 : k \in DOMAIN cs /\ k # n
    BY <2>2
  <2> QED  BY <1>2, <2>1, <2>3, <2>4 DEF Satisfies
<1>7. Forced <=> there # {} /\ \A v, w \in there : Holds(cs[n], v) <=> Holds(cs[n], w)
  BY DEF Forced
<1>8. there \subseteq Assignments(cs)
  OBVIOUS
<1> HIDE DEF cs, n, there
<1>9. /\ answers[1].satisfiable <=> \E v \in there : Holds(cs[n], v)
      /\ answers[2].satisfiable <=> \E v \in there : ~Holds(cs[n], v)
  BY <1>4, <1>5, <1>6, <1>8
<1> QED  BY <1>1, <1>7, <1>9 DEF Differ

\* OpaquePredicateRule reports an unreachable branch exactly when the last
\* constraint has one value wherever the others hold and it has any, for
\* constraints over any symbols and of any number.
THEOREM RuleIsExact == Spec => []OpaqueIsForced
<1>1. IInv => OpaqueIsForced
  BY DifferIsForced DEF OpaqueIsForced
<1> QED  BY <1>1, Invariance, PTL

-----------------------------------------------------------------------------
(***************************************************************************)
(* The effort of the search.  The candidate space is finite, so refusing   *)
(* one that is larger than the limit bounds every search that begins.      *)
(***************************************************************************)

\* The functions between two finite sets: each is known by its graph.
LEMMA FiniteFunctions ==
  ASSUME NEW D, IsFiniteSet(D), NEW R, IsFiniteSet(R)
  PROVE  IsFiniteSet([D -> R])
<1> DEFINE G == SUBSET (D \X R)
           graph == [v \in [D -> R] |-> {<<d, v[d]>> : d \in D}]
<1>1. IsFiniteSet(G)
  BY FS_Product, FS_SUBSET
<1>2. graph \in [[D -> R] -> G]
  <2>1. ASSUME NEW v \in [D -> R] PROVE {<<d, v[d]>> : d \in D} \in G
    OBVIOUS
  <2> QED  BY <2>1
<1>3. ASSUME NEW v \in [D -> R], NEW w \in [D -> R], graph[v] = graph[w]
      PROVE  v = w
  <2>1. {<<d, v[d]>> : d \in D} = {<<d, w[d]>> : d \in D}
    BY <1>3
  <2>2. ASSUME NEW d \in D PROVE v[d] = w[d]
    <3>1. <<d, v[d]>> \in {<<e, w[e]>> : e \in D}
      BY <2>1
    <3> QED  BY <3>1
  <2> QED  BY <2>2
<1> HIDE DEF G, graph
<1>4. graph \in Injection([D -> R], G)
  BY <1>2, <1>3 DEF Injection, IsInjective
<1> QED  BY <1>1, <1>4, FS_Injection

\* The image of a finite set under a function.
LEMMA FiniteImage ==
  ASSUME NEW S, IsFiniteSet(S), NEW f, DOMAIN f = S
  PROVE  IsFiniteSet({f[x] : x \in S})
<1> DEFINE T == {f[x] : x \in S}
           g == [x \in S |-> f[x]]
<1>1. g \in [S -> T] /\ \A t \in T : \E x \in S : g[x] = t
  OBVIOUS
<1>2. g \in Surjection(S, T)
  BY <1>1 DEF Surjection
<1> HIDE DEF T, g
<1>3. IsFiniteSet(T)
  BY <1>2, FS_Surjection
<1> QED  BY <1>3 DEF T

\* A list of constraints has finitely many symbols.
LEMMA FiniteSymbols ==
  ASSUME NEW cs \in Seq(Constraint)
  PROVE  IsFiniteSet(Symbols(cs)) /\ Symbols(cs) \subseteq Operand
<1> DEFINE Triple(c) == {c.left.left, c.left.right, c.right}
           triples == [k \in DOMAIN cs |-> Triple(cs[k])]
           All == {triples[k] : k \in DOMAIN cs}
<1>1. IsFiniteSet(DOMAIN cs)
  <2>1. DOMAIN cs = 1 .. Len(cs) /\ Len(cs) \in Int /\ 1 \in Int
    OBVIOUS
  <2> QED  BY <2>1, FS_Interval
<1>2. \A c : IsFiniteSet(Triple(c))
  <2> TAKE c
  <2>1. IsFiniteSet({c.left.left})
    BY FS_Singleton
  <2>2. IsFiniteSet({c.left.left} \cup {c.left.right})
    BY <2>1, FS_AddElement
  <2>3. IsFiniteSet(({c.left.left} \cup {c.left.right}) \cup {c.right})
    BY <2>2, FS_AddElement
  <2>4. Triple(c) = ({c.left.left} \cup {c.left.right}) \cup {c.right}
    OBVIOUS
  <2> QED  BY <2>3, <2>4
<1>3. \A c \in Constraint : Triple(c) \subseteq Operand
  BY SymbolicAssumption DEF Constraint, Expression
<1> HIDE DEF Triple
<1>4. IsFiniteSet(All)
  BY <1>1, FiniteImage
<1>5. \A T \in All : IsFiniteSet(T) /\ T \subseteq Operand
  BY <1>2, <1>3
<1>6. IsFiniteSet(UNION All)
  BY <1>4, <1>5, FS_UNION
<1>7. Symbols(cs) \subseteq UNION All
  BY DEF Symbols, Triple
<1> HIDE DEF All
<1> QED  BY <1>5, <1>6, <1>7, FS_Subset

\* So it has finitely many assignments.
LEMMA FiniteAssignments ==
  ASSUME NEW cs \in Seq(Constraint)
  PROVE  IsFiniteSet(Assignments(cs))
<1> DEFINE S == Symbols(cs)
           names == [s \in S |-> s.name]
           domains == [s \in S |-> s.low .. s.high]
           D == {names[s] : s \in S}
           All == {domains[s] : s \in S}
<1>1. IsFiniteSet(S) /\ S \subseteq Operand
  BY FiniteSymbols
<1>2. Assignments(cs) \subseteq [D -> UNION All]
  BY DEF Assignments
<1> HIDE DEF S
<1>3. IsFiniteSet(D) /\ IsFiniteSet(All)
  BY <1>1, FiniteImage
<1>4. \A T \in All : IsFiniteSet(T)
  <2> SUFFICES ASSUME NEW s \in S PROVE IsFiniteSet(s.low .. s.high)
    OBVIOUS
  <2>1. s.low \in Int /\ s.high \in Int
    BY <1>1 DEF Operand
  <2> QED  BY <2>1, FS_Interval
<1> HIDE DEF D, All
<1>5. IsFiniteSet(UNION All)
  BY <1>3, <1>4, FS_UNION
<1>6. IsFiniteSet([D -> UNION All])
  BY <1>3, <1>5, FiniteFunctions
<1> QED  BY <1>2, <1>6, FS_Subset

\* A search that began has a space within the limit, and what it tried is part
\* of that space.
EffortInv ==
  /\ stage \in {"mini", "z3"} => request.limit >= 1
  /\ stage = "mini" \/ tried # {} => Cardinality(Assignments(Goal(path))) <= request.limit
  /\ \A p \in DOMAIN answers : answers[p].evaluated <= request.limit

LEMMA LimitType ==
  ASSUME NEW lists, NEW q \in RequestsOver(lists)
  PROVE  q.limit \in Int
<1>1. q.limit \in Limits \/ q.limit \in {RuleLimit}
  BY DEF RequestsOver
<1>2. Limits \subseteq Int /\ RuleLimit \in Int
  BY SymbolicAssumption
<1> QED  BY <1>1, <1>2

LEMMA TriedWithinSpace ==
  ASSUME TypeOK, NEW S \in SUBSET Assignments(Goal(path)),
         Cardinality(Assignments(Goal(path))) <= request.limit
  PROVE  Cardinality(S) \in Nat /\ Cardinality(S) <= request.limit
<1>1. Goal(path) \in Seq(Constraint)
  BY GoalType DEF TypeOK
<1>2. IsFiniteSet(Assignments(Goal(path)))
  BY <1>1, FiniteAssignments
<1>3. /\ Cardinality(S) <= Cardinality(Assignments(Goal(path))) /\ IsFiniteSet(S)
  BY <1>2, FS_Subset
<1>4. Cardinality(S) \in Nat /\ Cardinality(Assignments(Goal(path))) \in Nat
  BY <1>2, <1>3, FS_CardinalityType
<1>5. request.limit \in Int
  BY LimitType DEF TypeOK
<1> QED  BY <1>3, <1>4, <1>5

\* A returned answer is the next one.
LEMMA AnsweredWithin ==
  ASSUME IInv, EffortInv, NEW s, Answer(s), s.evaluated <= request.limit,
         UNCHANGED <<request, path>>,
         tried' # {} => Cardinality(Assignments(Goal(path))) <= request.limit
  PROVE  EffortInv'
<1>1. answers \in Seq(Solutions) /\ stage' = "answered" /\ answers' = Append(answers, s)
  <2>1. TypeOK
    BY DEF IInv
  <2>2. answers \in Seq(Solutions)
    BY <2>1 DEF TypeOK
  <2>3. stage' = "answered" /\ answers' = Append(answers, s)
    BY DEF Answer
  <2> QED  BY <2>2, <2>3
<1>2. Assignments(Goal(path))' = Assignments(Goal(path))
  <2>1. Goal(path)' = Goal(path)
    BY DEF Goal
  <2> QED  BY <2>1
<1>3. \A p \in DOMAIN answers' : p \in DOMAIN answers \/ p = Len(answers) + 1
  BY <1>1
<1>4. /\ \A p \in DOMAIN answers : answers'[p] = answers[p]
      /\ answers'[Len(answers) + 1] = s
  BY <1>1
<1>5. \A p \in DOMAIN answers' : answers'[p].evaluated <= request.limit
  BY <1>3, <1>4 DEF EffortInv
<1> QED  BY <1>1, <1>2, <1>5 DEF EffortInv

LEMMA EffortStep == IInv /\ EffortInv /\ [Next]_vars => EffortInv'
<1> SUFFICES ASSUME IInv, EffortInv, [Next]_vars PROVE EffortInv'
  OBVIOUS
<1>0. TypeOK /\ request.limit \in Int
  BY LimitType DEF IInv, TypeOK
<1>1. ASSUME UNCHANGED <<request, path>>
      PROVE  Assignments(Goal(path))' = Assignments(Goal(path))
  <2>1. Goal(path)' = Goal(path)
    BY <1>1 DEF Goal
  <2> QED  BY <2>1
<1>2. CASE Solve
  <2>1. UNCHANGED <<request, path, tried, answers>> /\ tried = {}
    BY <1>2 DEF Solve, IInv, Searching
  <2>2. CASE stage' \in {"mini", "z3"}
    <3>1. ~Refused(Goal(path)) /\ stage' = Selected
      BY <1>2, <2>2 DEF Solve
    <3>2. /\ ~(request.limit < 1)
          /\ Selected = "mini" => ~(Cardinality(Assignments(Goal(path))) > request.limit)
      BY <3>1 DEF Refused, TooLarge
    <3>3. Cardinality(Assignments(Goal(path))) \in Nat
      <4>1. Goal(path) \in Seq(Constraint)
        BY <1>0, GoalType DEF TypeOK
      <4> QED  BY <4>1, FiniteAssignments, FS_CardinalityType
    <3> QED  BY <1>0, <1>1, <2>1, <2>2, <3>1, <3>2, <3>3 DEF EffortInv
  <2>3. CASE stage' \notin {"mini", "z3"}
    BY <1>1, <2>1, <2>3 DEF EffortInv
  <2> QED  BY <2>2, <2>3
<1>3. CASE Candidate
  <2>1. /\ stage = "mini" /\ UNCHANGED <<request, path>>
        /\ tried' \in SUBSET Assignments(Goal(path))
    BY <1>0, <1>3 DEF Candidate, TypeOK, Untried
  <2>2. /\ Cardinality(Assignments(Goal(path))) <= request.limit
        /\ Cardinality(tried') <= request.limit
    BY <1>0, <2>1, TriedWithinSpace DEF EffortInv
  <2>3. CASE UNCHANGED <<answers, stage>>
    BY <1>1, <2>1, <2>2, <2>3 DEF EffortInv
  <2>4. CASE \E v : Answer(Solution(TRUE, v, "mini", Cardinality(tried')))
    BY <2>1, <2>2, <2>4, AnsweredWithin DEF Solution
  <2> QED  BY <1>3, <2>3, <2>4 DEF Candidate
<1>4. CASE Exhaust
  <2>1. /\ stage = "mini" /\ UNCHANGED <<request, path, tried>>
        /\ tried \in SUBSET Assignments(Goal(path))
        /\ Answer(Solution(FALSE, NoInputs, "mini", Cardinality(tried)))
    BY <1>0, <1>4 DEF Exhaust, TypeOK
  <2>2. /\ Cardinality(Assignments(Goal(path))) <= request.limit
        /\ Cardinality(tried) <= request.limit
    BY <1>0, <2>1, TriedWithinSpace DEF EffortInv
  <2> QED  BY <2>1, <2>2, AnsweredWithin DEF Solution
<1>5. CASE AskZ3
  <2>1. /\ UNCHANGED <<request, path, tried>> /\ stage = "z3"
        /\ \/ stage' = "raised" /\ UNCHANGED answers
           \/ \E v : Answer(Solution(TRUE, v, "z3", 0))
           \/ Answer(Solution(FALSE, NoInputs, "z3", 0))
    BY <1>5 DEF AskZ3
  <2>2. 0 <= request.limit
    BY <1>0, <2>1 DEF EffortInv
  <2>3. CASE stage' = "raised" /\ UNCHANGED answers
    BY <1>1, <2>1, <2>3 DEF EffortInv
  <2> QED  BY <2>1, <2>2, <2>3, AnsweredWithin DEF Solution, EffortInv
<1>6. CASE Return
  <2>1. UNCHANGED <<request, answers>> /\ stage' \in {"solve", "done"}
    BY <1>6 DEF Return
  <2>2. tried' = {} \/ UNCHANGED <<path, tried>>
    BY <1>6 DEF Return
  <2> QED  BY <1>1, <2>1, <2>2 DEF EffortInv
<1>7. CASE UNCHANGED vars
  BY <1>1, <1>7 DEF vars, EffortInv
<1> QED  BY <1>2, <1>3, <1>4, <1>5, <1>6, <1>7 DEF Next

\* Whatever the constraints and the limit, solve_branch evaluates no more than
\* max_candidates assignments, and says how many it did.
THEOREM EffortIsBounded == Spec => []EffortBounded
<1>1. Init => EffortInv
  BY DEF Init, EffortInv
<1>2. Spec => []EffortInv
  BY <1>1, EffortStep, Invariance, PTL DEF Spec
<1>3. IInv /\ EffortInv => EffortBounded
  <2> SUFFICES ASSUME IInv, EffortInv PROVE EffortBounded
    OBVIOUS
  <2>1. TypeOK /\ tried \in SUBSET Assignments(Goal(path))
    BY DEF IInv, TypeOK
  <2>2. tried # {} => Cardinality(tried) <= request.limit
    BY <2>1, TriedWithinSpace DEF EffortInv
  <2> QED  BY <2>2 DEF EffortBounded, EffortInv
<1> QED  BY <1>2, <1>3, Invariance, PTL

-----------------------------------------------------------------------------
(* The z3 backend.                                                           *)

\* No expression divides by anything but a positive number, and a constant
\* divides another without a remainder.
DivisionsAgree ==
  \A e \in Expressions :
    /\ e.op \in {"floordiv", "mod"} => e.right.low > 0
    /\ e.op = "floordiv" /\ Folded(e) => e.right.low * (e.left.low \div e.right.low) = e.left.low

\* A positive factor on both sides changes no comparison.
LEMMA FactorCompares ==
  ASSUME NEW op \in Comparisons, NEW p \in Int, NEW r \in Int, NEW b \in Int, b > 0
  PROVE  Compare(op, b * p, r * b) <=> Compare(op, p, r)
<1>1. ASSUME NEW s \in Int, NEW t \in Int, s < t PROVE b * s < b * t
  <2>1. t - s \in Nat /\ t - s >= 1
    BY <1>1
  <2>2. b * (t - s) >= b
    BY <2>1
  <2>3. b * (t - s) = b * t - b * s
    OBVIOUS
  <2> QED  BY <2>2, <2>3
<1>2. r * b = b * r
  OBVIOUS
<1>3. p < r => b * p < b * r
  BY <1>1
<1>4. r < p => b * r < b * p
  BY <1>1
<1>5. b * p \in Int /\ b * r \in Int
  OBVIOUS
<1> DEFINE m == b * p
           n == b * r
<1>6. Compare(op, b * p, r * b) <=> Compare(op, m, n)
  BY <1>2
<1>7. (p < r => m < n) /\ (r < p => n < m) /\ (p = r => m = n) /\ m \in Int /\ n \in Int
  BY <1>3, <1>4, <1>5
<1> HIDE DEF m, n
<1>8. Compare(op, m, n) <=> Compare(op, p, r)
  BY <1>7 DEF Compare, Comparisons
<1> QED  BY <1>6, <1>8

\* Where divisions agree the two backends read a constraint alike, whatever z3
\* makes of a division by zero.
LEMMA BackendsAgree ==
  ASSUME DivisionsAgree, NEW cs \in Seq(Constraint), NEW k \in DOMAIN cs,
         NEW v \in Assignments(cs), NEW zero
  PROVE  HoldsInZ3(cs[k], v, zero) <=> Holds(cs[k], v)
<1> DEFINE e == cs[k].left
           a == Value(e.left, v)
           b == Value(e.right, v)
<1>1. e \in Expressions /\ e.op \in Operators /\ e.right \in Operand /\ cs[k].op \in Comparisons
  <2>1. cs[k] \in Constraint
    OBVIOUS
  <2> QED  BY <2>1, SymbolicAssumption DEF Constraint, Expression
<1>2. CASE e.op \in {"floordiv", "mod"}
  <2>1. e.right.low > 0 /\ e.right.low \in Int /\ e.right.high \in Int
    BY <1>1, <1>2 DEF DivisionsAgree, Operand
  <2>2. b \in Int /\ b > 0
    <3>1. CASE e.right.name = 0
      BY <2>1, <3>1 DEF Value
    <3>2. CASE e.right.name # 0
      <4>1. e.right \in Symbols(cs)
        BY <3>2 DEF Symbols
      <4>2. v[e.right.name] \in e.right.low .. e.right.high
        BY <4>1 DEF Assignments
      <4> QED  BY <2>1, <3>2, <4>2 DEF Value
    <3> QED  BY <3>1, <3>2
  <2>3. b # 0 /\ EuclidDiv(a, b) = FloorDiv(a, b)
    <3> HIDE DEF a, b
    <3> QED  BY <2>2 DEF EuclidDiv, FloorDiv
  <2>4. CASE ~Folded(e)
    BY <2>3, <2>4 DEF HoldsInZ3, Holds, Defined, Evaluate
  <2>5. CASE Folded(e) /\ e.op = "mod"
    BY <2>5 DEF HoldsInZ3
  <2>6. CASE Folded(e) /\ e.op = "floordiv"
    <3> DEFINE r == Value(cs[k].right, v)
               p == a \div b
    <3>1. a \in Int /\ r \in Int
      BY ValueType
    <3>2. a = e.left.low /\ b = e.right.low
      BY <2>6 DEF Folded, Value
    <3>3. b * (a \div b) = a
      BY <1>1, <2>6, <3>2 DEF DivisionsAgree
    <3>4. p \in Int
      BY <2>2, <3>1
    <3>5. HoldsInZ3(cs[k], v, zero) <=> Compare(cs[k].op, a, r * b)
      BY <2>2, <2>6 DEF HoldsInZ3, CompareTrueQuotient
    <3>6. Holds(cs[k], v) <=> Compare(cs[k].op, p, r)
      BY <2>2, <2>6 DEF Holds, Defined, Evaluate, Arithmetic, FloorDiv
    <3>7. Compare(cs[k].op, b * p, r * b) <=> Compare(cs[k].op, p, r)
      <4> HIDE DEF b, p, r
      <4> QED  BY <1>1, <2>2, <3>1, <3>4, FactorCompares
    <3> QED  BY <3>3, <3>5, <3>6, <3>7
  <2> QED  BY <1>2, <2>4, <2>5, <2>6
<1>3. CASE e.op \in {"value", "add", "sub", "mul"}
  <2>1. Defined(e, v)
    BY <1>3 DEF Defined
  <2>2. \A q, r, s, t : Arithmetic(e.op, a, b, q, r) = Arithmetic(e.op, a, b, s, t)
    BY <1>3 DEF Arithmetic
  <2>3. CASE Folded(e)
    BY <1>3, <2>3 DEF HoldsInZ3
  <2>4. CASE ~Folded(e)
    BY <2>1, <2>2, <2>4 DEF HoldsInZ3, Holds, Evaluate
  <2> QED  BY <2>3, <2>4
<1> QED  BY <1>1, <1>2, <1>3 DEF Operators

\* What the z3 backend answers is so; it may leave only products and quotients
\* of symbols undecided.
Z3Decides ==
  \A p \in DOMAIN answers : answers[p].backend = "z3" =>
    IF answers[p].satisfiable THEN Satisfies(Goal(p), answers[p].inputs)
    ELSE Nonlinear(Goal(p)) \/ \A w \in Assignments(Goal(p)) : ~Satisfies(Goal(p), w)

LEMMA Z3Step == DivisionsAgree /\ IInv /\ Z3Decides /\ [Next]_vars => Z3Decides'
<1> SUFFICES ASSUME DivisionsAgree, IInv, Z3Decides, [Next]_vars PROVE Z3Decides'
  OBVIOUS
<1>1. request' = request /\ answers \in Seq(Solutions) /\ path \in {1, 2}
  BY DEF Next, Solve, Candidate, Exhaust, AskZ3, Return, vars, IInv, TypeOK
<1>2. \A p : Goal(p)' = Goal(p)
  BY <1>1 DEF Goal
<1>3. ASSUME UNCHANGED answers PROVE Z3Decides'
  BY <1>2, <1>3 DEF Z3Decides
<1>4. ASSUME NEW s, Answer(s), Len(answers) = path - 1,
             s.backend = "z3" =>
               IF s.satisfiable THEN Satisfies(Goal(path), s.inputs)
               ELSE \/ Nonlinear(Goal(path))
                    \/ \A w \in Assignments(Goal(path)) : ~Satisfies(Goal(path), w)
      PROVE  Z3Decides'
  <2>1. /\ answers' = Append(answers, s) /\ DOMAIN answers' = 1 .. path /\ answers'[path] = s
        /\ \A p \in DOMAIN answers' : p # path => p \in DOMAIN answers /\ answers'[p] = answers[p]
    BY <1>1, <1>4 DEF Answer
  <2> SUFFICES ASSUME NEW p \in DOMAIN answers', answers'[p].backend = "z3"
               PROVE  IF answers'[p].satisfiable THEN Satisfies(Goal(p), answers'[p].inputs)
                      ELSE \/ Nonlinear(Goal(p))
                           \/ \A w \in Assignments(Goal(p)) : ~Satisfies(Goal(p), w)
    BY <1>2 DEF Z3Decides
  <2>2. CASE p = path
    BY <1>4, <2>1, <2>2
  <2>3. CASE p # path
    BY <2>1, <2>3 DEF Z3Decides
  <2> QED  BY <2>2, <2>3
<1>5. CASE Candidate
  <2>1. PICK v : \/ Answer(Solution(TRUE, v, "mini", Cardinality(tried')))
                 \/ UNCHANGED answers
    BY <1>5 DEF Candidate
  <2>2. Len(answers) = path - 1
    BY <1>5 DEF Candidate, IInv, Paths
  <2> QED  BY <2>1, <2>2, <1>3, <1>4 DEF Solution
<1>6. CASE Exhaust
  <2>1. Len(answers) = path - 1
    BY <1>6 DEF Exhaust, IInv, Paths
  <2> QED  BY <1>4, <1>6, <2>1 DEF Exhaust, Solution
<1>7. CASE AskZ3
  <2> DEFINE cs     == Goal(path)
             models == {v \in Assignments(cs) : HoldTogetherInZ3(cs, v)}
  <2>1. cs \in Seq(Constraint) /\ Len(answers) = path - 1
    BY <1>7, GoalType DEF AskZ3, IInv, TypeOK, Paths
  <2>2. \A v \in Assignments(cs) : v \in models <=> Satisfies(cs, v)
    <3> SUFFICES ASSUME NEW v \in Assignments(cs) PROVE v \in models <=> Satisfies(cs, v)
      OBVIOUS
    <3>1. \A zero : \A k \in DOMAIN cs : HoldsInZ3(cs[k], v, zero) <=> Holds(cs[k], v)
      <4> HIDE DEF cs
      <4> QED  BY <2>1, BackendsAgree
    <3> HIDE DEF cs
    <3>2. PICK u \in Unspecified : TRUE
      BY SymbolicAssumption
    <3>3. [k \in DOMAIN cs |-> u] \in [DOMAIN cs -> Unspecified]
      OBVIOUS
    <3>4. HoldTogetherInZ3(cs, v) <=> Satisfies(cs, v)
      BY <3>1, <3>3 DEF HoldTogetherInZ3, Satisfies
    <3> QED  BY <3>4
  <2>3. CASE \E v \in models : Answer(Solution(TRUE, v, "z3", 0))
    <3>1. PICK v \in models : Answer(Solution(TRUE, v, "z3", 0))
      BY <2>3
    <3>2. Satisfies(cs, v)
      BY <2>2, <3>1
    <3> QED  BY <2>1, <3>1, <3>2, <1>4 DEF Solution
  <2>4. CASE (models = {} \/ Nonlinear(cs)) /\ Answer(Solution(FALSE, NoInputs, "z3", 0))
    <3>1. Nonlinear(cs) \/ \A w \in Assignments(cs) : ~Satisfies(cs, w)
      BY <2>2, <2>4
    <3> QED  BY <2>1, <2>4, <3>1, <1>4 DEF Solution
  <2>5. CASE UNCHANGED answers
    BY <1>3, <2>5
  <2> QED  BY <1>7, <2>3, <2>4, <2>5 DEF AskZ3
<1>8. CASE Solve \/ Return \/ UNCHANGED vars
  BY <1>3, <1>8 DEF Solve, Return, vars
<1> QED  BY <1>5, <1>6, <1>7, <1>8 DEF Next

\* solve_branch returns what it promises, from either backend, as long as every
\* divisor is positive and no constant leaves a remainder in another: a witness
\* satisfies each constraint, and z3 says that there is none only when it is so or
\* a product of symbols is beyond it.  The run symbolic_z3 refutes it for a
\* divisor that may be zero.
THEOREM WitnessesSatisfy ==
  ASSUME DivisionsAgree
  PROVE  Spec => [](WitnessSatisfies /\ Z3Decides)
<1>1. Init => Z3Decides
  BY DEF Init, Z3Decides
<1>2. IInv /\ Z3Decides /\ [Next]_vars => Z3Decides'
  BY Z3Step
<1>3. IInv /\ Z3Decides => WitnessSatisfies
  <2> SUFFICES ASSUME IInv, Z3Decides, NEW p \in DOMAIN answers, answers[p].satisfiable
               PROVE  Satisfies(Goal(p), answers[p].inputs)
    BY DEF WitnessSatisfies
  <2>1. answers[p].backend \in {"mini", "z3"}
    <3>1. answers \in Seq(Solutions)
      BY DEF IInv, TypeOK
    <3>2. answers[p] \in Solutions
      BY <3>1, ElementOfSeq
    <3> QED  BY <3>2 DEF Solutions
  <2>2. CASE answers[p].backend = "mini"
    BY <2>2 DEF IInv, MiniDecides, Decides
  <2>3. CASE answers[p].backend = "z3"
    BY <2>3 DEF Z3Decides
  <2> QED  BY <2>1, <2>2, <2>3
<1> QED  BY <1>1, <1>2, <1>3, Invariance, PTL DEF Spec
=============================================================================
