------------------------------ MODULE Symbolic ------------------------------
(***************************************************************************)
(* The branch solver (symbolic.py) and the rule that asks it twice         *)
(* (deobfuscation/opaque_pred.py).                                         *)
(*                                                                         *)
(* A request is one call of solve_branch by a client, or one evaluation of *)
(* OpaquePredicateRule, which solves the constraints and then the same     *)
(* constraints with the last one negated.  The mini backend tries every    *)
(* assignment in turn, one step each; z3 answers in one step.              *)
(*                                                                         *)
(* A symbol's name is its place in the sorted names.  A constant is an     *)
(* operand without a name (0) and with one value.  Expressions are one     *)
(* operator deep and a comparison's right side is an operand: the depth of *)
(* an expression is the bound of this module.                              *)
(***************************************************************************)
EXTENDS Integers, Sequences, FiniteSets

CONSTANTS Operands,     \* the symbols and constants that occur
          Expressions,  \* the left sides of comparisons
          Conditions,   \* the constraints that occur
          MaxLength,    \* bound: constraints of a request
          Limits,       \* the max_candidates a client passes
          RuleLimit,    \* the max_candidates the rule passes (65_536)
          Unspecified   \* the values z3 may give a division by zero

Operand == [name : Nat, low : Int, high : Int]

Constant(c) == [name |-> 0, low |-> c, high |-> c]

Operators == {"value", "add", "sub", "mul", "floordiv", "mod"}

Comparisons == {"eq", "ne", "lt", "le", "gt", "ge"}

Expression == [op : Operators, left : Operands, right : Operands]

Constraint == [op : Comparisons, left : Expressions, right : Operands]

ASSUME SymbolicAssumption ==
  /\ Operands \subseteq Operand /\ \A o \in Operands : o.low <= o.high
  /\ Expressions \subseteq Expression /\ Conditions \subseteq Constraint
  /\ MaxLength \in Nat /\ Limits \subseteq Int /\ RuleLimit \in Nat
  /\ Unspecified \subseteq Int /\ Unspecified # {}

VARIABLES request,  \* who asks for what
          path,     \* 1: the constraints as given, 2: the last one negated
          stage,    \* where the call stands
          tried,    \* the assignments tried so far for this path
          answers,  \* the solutions returned, one for each path
          matched   \* the rule reports an unreachable branch

vars == <<request, path, stage, tried, answers, matched>>

Backends == {"auto", "mini", "z3"}

\* The calls whose constraints are among these lists.
RequestsOver(lists) ==
  [caller : {"client"}, constraints : lists, backend : Backends \cup {"other"},
   limit : Limits, installed : BOOLEAN]
    \cup [caller : {"rule"}, constraints : lists \ {<<>>}, backend : {"mini"},
          limit : {RuleLimit}, installed : BOOLEAN]

(***************************************************************************)
(* Constraints over an assignment v of integers to names.                  *)
(***************************************************************************)
Symbols(cs) ==
  {o \in UNION {{cs[k].left.left, cs[k].left.right, cs[k].right} : k \in DOMAIN cs} :
     o.name # 0}

\* _merge_symbols: two domains for one name.
Conflicting(cs) == \E s, t \in Symbols(cs) : s.name = t.name /\ s # t

Assignments(cs) ==
  {v \in [{s.name : s \in Symbols(cs)} -> UNION {s.low .. s.high : s \in Symbols(cs)}] :
     \A s \in Symbols(cs) : v[s.name] \in s.low .. s.high}

\* itertools.product: the last name in order varies fastest.
Before(v, w) ==
  \E n \in DOMAIN v : v[n] < w[n] /\ \A m \in DOMAIN v : m < n => v[m] = w[m]

Value(o, v) == IF o.name = 0 THEN o.low ELSE v[o.name]

\* Python's integer division rounds down whatever the signs.
FloorDiv(a, b) == IF b > 0 THEN a \div b ELSE (-a) \div (-b)

\* SMT-LIB's leaves a remainder that is never negative.
EuclidDiv(a, b) == IF b > 0 THEN a \div b ELSE -(a \div (-b))

\* The value of an operation that divides, where it does, into quotient q and
\* remainder r.
Arithmetic(op, a, b, q, r) ==
  CASE op = "value"    -> a
    [] op = "add"      -> a + b
    [] op = "sub"      -> a - b
    [] op = "mul"      -> a * b
    [] op = "floordiv" -> q
    [] op = "mod"      -> r

Compare(op, a, b) ==
  CASE op = "eq" -> a = b
    [] op = "ne" -> a # b
    [] op = "lt" -> a < b
    [] op = "le" -> a <= b
    [] op = "gt" -> a > b
    [] op = "ge" -> a >= b

\* Evaluation does not raise ZeroDivisionError.
Defined(e, v) == e.op \in {"floordiv", "mod"} => Value(e.right, v) # 0

Evaluate(e, v) ==
  LET a == Value(e.left, v)
      b == Value(e.right, v)
      q == FloorDiv(a, b)
  IN  Arithmetic(e.op, a, b, q, a - b * q)

Holds(c, v) == Defined(c.left, v) /\ Compare(c.op, Evaluate(c.left, v), Value(c.right, v))

Satisfies(cs, v) == \A k \in DOMAIN cs : Holds(cs[k], v)

\* Constants stay Python's integers on the way to z3: Python computes what has
\* two of them, and / is its true division.
Folded(e) == e.left.name = 0 /\ e.right.name = 0

FoldFails(e) == Folded(e) /\ e.op \in {"floordiv", "mod"} /\ e.right.low = 0

\* How the quotient a / b of two constants compares with the integer c.  (It is a
\* float, whose comparison is exact for constants below 2^53.)
CompareTrueQuotient(op, a, b, c) ==
  IF b > 0 THEN Compare(op, a, c * b) ELSE Compare(op, -a, c * (-b))

\* The same comparison as z3 reads it, when a division by zero is given zero.
HoldsInZ3(c, v, zero) ==
  LET e == c.left
      a == Value(e.left, v)
      b == Value(e.right, v)
      q == EuclidDiv(a, b)
      z == IF b = 0 THEN Arithmetic(e.op, a, b, zero, zero)
                    ELSE Arithmetic(e.op, a, b, q, a - b * q)
  IN  CASE Folded(e) /\ e.op = "floordiv" -> CompareTrueQuotient(c.op, a, b, Value(c.right, v))
        [] Folded(e) /\ e.op # "floordiv" -> Holds(c, v)
        [] ~Folded(e) -> Compare(c.op, z, Value(c.right, v))

\* z3's quotient by zero is one function of the dividend, its remainder another.
SameDivision(e, f, v) == e.op = f.op /\ Value(e.left, v) = Value(f.left, v)

HoldTogetherInZ3(cs, v) ==
  \E zero \in [DOMAIN cs -> Unspecified] :
    /\ \A k, n \in DOMAIN cs : SameDivision(cs[k].left, cs[n].left, v) => zero[k] = zero[n]
    /\ \A k \in DOMAIN cs : HoldsInZ3(cs[k], v, zero[k])

\* Products of symbols and quotients by one, which z3 may leave unknown.
Nonlinear(cs) ==
  \E k \in DOMAIN cs :
    LET e == cs[k].left
    IN  /\ e.right.name # 0
        /\ e.op \in {"floordiv", "mod"} \/ (e.op = "mul" /\ e.left.name # 0)

\* Mutant: the strict comparisons lose equality when they are negated.
StrictOpposite == [eq |-> "ne", ne |-> "eq", lt |-> "gt", le |-> "gt", gt |-> "lt", ge |-> "lt"]

Opposite == [eq |-> "ne", ne |-> "eq", lt |-> "ge", le |-> "gt", gt |-> "le", ge |-> "lt"]

Negate(c) == [c EXCEPT !.op = Opposite[c.op]]

Goal(p) ==
  LET cs == request.constraints
  IN  IF p = 1 THEN cs ELSE [cs EXCEPT ![Len(cs)] = Negate(@)]

Selected == IF \/ request.backend = "z3"
               \/ request.backend = "auto" /\ request.installed
            THEN "z3" ELSE "mini"

\* Mutant: the candidate space is measured by the number of its symbols.
TooManySymbols(cs) == Cardinality(Symbols(cs)) > request.limit

TooLarge(cs) == Cardinality(Assignments(cs)) > request.limit

Refused(cs) ==
  \/ cs = <<>> \/ request.limit < 1 \/ request.backend \notin Backends
  \/ Selected = "z3" /\ ~request.installed
  \/ Conflicting(cs)
  \/ Selected = "mini" /\ TooLarge(cs)

Solution(sat, inputs, backend, count) ==
  [satisfiable |-> sat, inputs |-> inputs, backend |-> backend, evaluated |-> count]

NoInputs == [n \in {} |-> 0]

Solutions == [satisfiable : BOOLEAN, inputs : {NoInputs} \cup Assignments(Goal(1)),
              backend : {"mini", "z3"}, evaluated : Nat]

(***************************************************************************)
(* Actions.                                                                *)
(***************************************************************************)
Init ==
  /\ request \in RequestsOver(UNION {[1 .. n -> Conditions] : n \in 0 .. MaxLength})
  /\ path = 1 /\ stage = "solve" /\ tried = {} /\ answers = <<>> /\ matched = FALSE

\* solve_branch up to the search; the rule swallows a SymbolicError.
Solve ==
  /\ stage = "solve"
  /\ stage' = IF ~Refused(Goal(path)) THEN Selected
              ELSE IF request.caller = "rule" THEN "done" ELSE "raised"
  /\ UNCHANGED <<request, path, tried, answers, matched>>

Answer(s) == answers' = Append(answers, s) /\ stage' = "answered"

\* Mutant: the search begins again at the first candidate each time.
AlwaysUntried(cs) == Assignments(cs)

Untried(cs) == Assignments(cs) \ tried

\* One turn of the loop in _solve_with_mini.
Candidate ==
  /\ stage = "mini"
  /\ \E v \in Untried(Goal(path)) :
       /\ \A w \in Untried(Goal(path)) \ {v} : Before(v, w)
       /\ tried' = tried \cup {v}
       /\ IF Satisfies(Goal(path), v)
          THEN Answer(Solution(TRUE, v, "mini", Cardinality(tried')))
          ELSE UNCHANGED <<answers, stage>>
  /\ UNCHANGED <<request, path, matched>>

\* The candidates run out.
Exhaust ==
  /\ stage = "mini" /\ Untried(Goal(path)) = {}
  /\ Answer(Solution(FALSE, NoInputs, "mini", Cardinality(tried)))
  /\ UNCHANGED <<request, path, tried, matched>>

\* _solve_with_z3.  Asserting the constraints divides two constants, and their
\* ZeroDivisionError leaves the call; "unknown" is not "sat".
AskZ3 ==
  LET cs     == Goal(path)
      fails  == \E k \in DOMAIN cs : FoldFails(cs[k].left)
      models == {v \in Assignments(cs) : HoldTogetherInZ3(cs, v)}
  IN  /\ stage = "z3"
      /\ \/ fails /\ stage' = "raised" /\ UNCHANGED answers
         \/ ~fails /\ \E v \in models : Answer(Solution(TRUE, v, "z3", 0))
         \/ /\ ~fails /\ (models = {} \/ Nonlinear(cs))
            /\ Answer(Solution(FALSE, NoInputs, "z3", 0))
      /\ UNCHANGED <<request, path, tried, matched>>

Differ == answers[1].satisfiable # answers[2].satisfiable

\* Mutant: the search for the second path skips what the first one tried.
ReturnKeepingTried ==
  /\ stage = "answered"
  /\ IF request.caller = "rule" /\ path = 1
     THEN path' = 2 /\ stage' = "solve" /\ UNCHANGED <<tried, matched>>
     ELSE /\ stage' = "done"
          /\ matched' = (request.caller = "rule" /\ Differ)
          /\ UNCHANGED <<path, tried>>
  /\ UNCHANGED <<request, answers>>

\* Mutant: a client's constraints are negated and solved again as well.
ReturnTwice ==
  /\ stage = "answered"
  /\ IF path = 1
     THEN path' = 2 /\ stage' = "solve" /\ tried' = {} /\ UNCHANGED matched
     ELSE /\ stage' = "done" /\ matched' = Differ
          /\ UNCHANGED <<path, tried>>
  /\ UNCHANGED <<request, answers>>

\* solve_branch returns: to the client, or to the rule, which asks again.
Return ==
  /\ stage = "answered"
  /\ IF request.caller = "rule" /\ path = 1
     THEN path' = 2 /\ stage' = "solve" /\ tried' = {} /\ UNCHANGED matched
     ELSE /\ stage' = "done"
          /\ matched' = (request.caller = "rule" /\ Differ)
          /\ UNCHANGED <<path, tried>>
  /\ UNCHANGED <<request, answers>>

Next == Solve \/ Candidate \/ Exhaust \/ AskZ3 \/ Return

Spec == Init /\ [][Next]_vars

\* The caller's thread runs the search to its end.
FairSpec == Spec /\ WF_vars(Next)

-----------------------------------------------------------------------------
(***************************************************************************)
(* Properties.                                                             *)
(***************************************************************************)
TypeOK ==
  /\ request \in RequestsOver(Seq(Constraint))
  /\ path \in {1, 2} /\ (path = 2 => request.caller = "rule")
  /\ stage \in {"solve", "mini", "z3", "answered", "done", "raised"}
  /\ tried \subseteq Assignments(Goal(path))
  /\ answers \in Seq(Solutions)
  /\ matched \in BOOLEAN

\* What a solution s says of the constraints cs is so.
Decides(s, cs) ==
  IF s.satisfiable
  THEN /\ s.inputs \in Assignments(cs) /\ Satisfies(cs, s.inputs)
       /\ \A w \in Assignments(cs) : Satisfies(cs, w) => w = s.inputs \/ Before(s.inputs, w)
  ELSE \A w \in Assignments(cs) : ~Satisfies(cs, w)

\* _solve_with_mini is a decision procedure on bounded domains: a witness
\* satisfies every constraint, is the first in order that does, and "not
\* satisfiable" is said only when no assignment does.
MiniDecides ==
  \A p \in DOMAIN answers : answers[p].backend = "mini" => Decides(answers[p], Goal(p))

\* Where the constraints before the last hold and the last has a value, it has
\* the same value everywhere, and there is such an assignment.
Forced ==
  LET cs    == request.constraints
      last  == cs[Len(cs)]
      there == {v \in Assignments(cs) : /\ \A k \in 1 .. Len(cs) - 1 : Holds(cs[k], v)
                                        /\ Defined(last.left, v)}
  IN  there # {} /\ \A v, w \in there : Holds(last, v) <=> Holds(last, w)

\* OpaquePredicateRule: once both paths are solved, the rule reports an
\* unreachable branch exactly when the branch is forced.
OpaqueIsForced ==
  request.caller = "rule" /\ stage = "done" /\ Len(answers) = 2 => (matched <=> Forced)

\* solve_branch promises to evaluate no more than max_candidates assignments,
\* and says how many it did.
EffortBounded ==
  /\ tried # {} => Cardinality(tried) <= request.limit
  /\ \A p \in DOMAIN answers : answers[p].evaluated <= request.limit

\* A call of the solver or of the rule comes to an end.
Ends == <>(stage \in {"done", "raised"})

\* solve_branch: "Return an input assignment that makes every constraint true",
\* whichever backend finds it.
WitnessSatisfies ==
  \A p \in DOMAIN answers : answers[p].satisfiable => Satisfies(Goal(p), answers[p].inputs)
=============================================================================
