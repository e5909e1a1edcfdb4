----------------------------- MODULE MCSymbolic -----------------------------
(***************************************************************************)
(* Instances of Symbolic for TLC: x in 0 .. 2 and y in -1 .. 1, so that a  *)
(* divisor may be negative or zero, and an x with another domain.          *)
(***************************************************************************)
EXTENDS Symbolic

x == [name |-> 1, low |-> 0, high |-> 2]
y == [name |-> 2, low |-> -1, high |-> 1]
wide == [x EXCEPT !.high = 3]

Expr(o, l, r) == [op |-> o, left |-> l, right |-> r]

MCOperands == {x, y, wide, Constant(-2), Constant(0), Constant(1)}

Once ==
  {Expr("value", wide, Constant(0)), Expr("floordiv", Constant(1), Constant(0)),
   Expr("floordiv", Constant(1), Constant(-2)), Expr("mod", Constant(-2), Constant(1))}

MCExpressions ==
  {Expr("value", x, Constant(0)), Expr("add", x, y), Expr("sub", y, x), Expr("mul", x, y),
   Expr("floordiv", x, y), Expr("mod", x, y)} \cup Once

\* Each comparison of each expression with 1; those of constants and of the other
\* x once.
MCConditions ==
  {[op |-> c, left |-> e, right |-> Constant(1)] : c \in Comparisons, e \in MCExpressions}
    \ [op : Comparisons \ {"eq"}, left : Once, right : MCOperands]

\* Divisions, whose value the two backends may see differently.
Quotients ==
  {[op |-> "eq", left |-> e, right |-> Constant(-2)] :
     e \in {Expr("floordiv", x, y), Expr("floordiv", x, Constant(-2)),
            Expr("floordiv", Constant(1), Constant(-2))}}
    \cup {[op |-> "lt", left |-> Expr("mod", x, Constant(-2)), right |-> Constant(0)],
          [op |-> "eq", left |-> Expr("value", x, Constant(0)), right |-> Constant(1)]}

QuotientExpressions == {q.left : q \in Quotients}

MCUnspecified == -2 .. 2

MCLimits == {0, 8, 9}
=============================================================================
