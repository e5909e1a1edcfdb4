------------------------------ MODULE CffRule ------------------------------
(***************************************************************************)
(* The control-flow-flattening rule (deobfuscation/cff.py) with the        *)
(* statistics it reads (block_stats.py, features/cfg.py) and its score     *)
(* (scoring.py).  A graph is grown block by block and then evaluated.      *)
(*                                                                         *)
(* A block is what the rule sees of it: whether it is tiny, how it ends,   *)
(* where its branch or its call goes, and whether its last instruction     *)
(* begins with j or b and names no number, as jmp rax, blx r3 and bx lr    *)
(* do.  Blocks are numbered in address order; 0 is no target, and what is  *)
(* past the last block an external address.  A score is in hundredths: for *)
(* each set of signals the floating-point sum of the code is on the same   *)
(* side of 0.7 as the exact one.                                           *)
(***************************************************************************)
EXTENDS Integers, Sequences, FiniteSets, FiniteSetsExt, SequencesExt, Graphs

CONSTANTS MaxBlocks,   \* bound: blocks of a graph
          Shapes,      \* the blocks that occur
          IdomOfEntry  \* whether networkx's idom of the entry is itself: depends on its version

Exits == {"plain", "call", "conditional", "jump", "return"}

\* What names no number has no target, and a plain exit or a return has none.
Block ==
  {b \in [tiny : BOOLEAN, exit : Exits, to : Nat, indirect : BOOLEAN] :
     b.indirect \/ b.exit \in {"plain", "return"} => b.to = 0}

ASSUME CffAssumption ==
  /\ MaxBlocks \in Nat /\ Shapes \subseteq Block /\ IdomOfEntry \subseteq BOOLEAN

VARIABLES blocks,  \* the blocks of the graph, in address order
          verdict  \* what the rule made of it, once it has run

vars == <<blocks, verdict>>

NoVerdict == [done |-> FALSE, declared |-> FALSE, flagged |-> FALSE, score |-> 0, signals |-> {}]

Nodes == DOMAIN blocks

\* The edges of build_cfg, kind by kind.
Targeted(exits) ==
  {<<n, blocks[n].to>> : n \in {m \in Nodes : blocks[m].exit \in exits /\ blocks[m].to # 0}}

Branches == Targeted({"conditional", "jump"})

Calls == Targeted({"call"})

FallThroughs ==
  {<<n, n + 1>> : n \in {m \in Nodes : /\ blocks[m].exit \in {"plain", "call", "conditional"}
                                       /\ m < Len(blocks)}}

(***************************************************************************)
(* to_networkx and cfg_metrics.  A DiGraph keeps one edge between two      *)
(* nodes whatever their kinds, calls included, and no edge to an external  *)
(* target.                                                                 *)
(***************************************************************************)
Digraph ==
  [node |-> Nodes, edge |-> (Branches \cup Calls \cup FallThroughs) \cap (Nodes \X Nodes)]

\* The nodes a path of G leads to from n, n included.
Reach(G, n) ==
  IF n \notin G.node THEN {}
  ELSE FoldLeftDomain(LAMBDA seen, k : seen \cup AllSuccessors(G, seen), {n}, blocks)

LoopCount ==
  LET G            == Digraph
      paths        == UNION {{n} \X Reach(G, n) : n \in Nodes}
      Component(n) == {m \in Nodes : <<n, m>> \in paths /\ <<m, n>> \in paths}
  IN  Cardinality({c \in {Component(n) : n \in Nodes} : Cardinality(c) > 1})

\* The first node, in address order, that no node exceeds in in-degree.
Dispatcher ==
  LET G == Digraph
  IN  Min({n \in Nodes : \A m \in Nodes : InDegree(G, m) <= InDegree(G, n)})

Without(d) ==
  LET G == Digraph
  IN  [node |-> Nodes \ {d}, edge |-> {e \in G.edge : d \notin {e[1], e[2]}}]

\* immediate_dominators: d strictly dominates n when every path from the entry,
\* node 1, to n passes through d; the immediate one is dominated by the others.
DominatedCount(itself) ==
  LET reached  == Reach(Digraph, 1)
      strict   == UNION {{d} \X (reached \ (Reach(Without(d), 1) \cup {d})) : d \in reached}
      above(n) == {p[1] : p \in {q \in strict : q[2] = n}}
      first    == Dispatcher
  IN  Cardinality({n \in reached \ {1} :
                     first \in above(n) /\ above(n) = above(first) \cup {first}})
        + IF itself /\ first = 1 THEN 1 ELSE 0

(***************************************************************************)
(* calculate_block_stats.                                                  *)
(***************************************************************************)
BranchIndegree(n) == Cardinality({e \in Branches : e[2] = n})

MaxBranchIndegree == Max({0} \cup {BranchIndegree(n) : n \in Nodes})

MostlyTiny == blocks # <<>> /\ 2 * Cardinality({n \in Nodes : blocks[n].tiny}) >= Len(blocks)

IndirectCount == Cardinality({n \in Nodes : blocks[n].indirect})

HasSwitchDispatcher ==
  Len(blocks) >= 6 /\ Cardinality(Branches) >= 4 /\ MaxBranchIndegree >= 3 /\ MostlyTiny

(***************************************************************************)
(* score_cff and the rule.                                                 *)
(***************************************************************************)
\* Mutant: a branch through a register weighs more than a dispatcher.
HeavyIndirectWeight == [blocks |-> 15, tiny |-> 20, indegree |-> 25, loop |-> 20,
                        dominance |-> 15, indirect |-> 30]

Weight == [blocks |-> 15, tiny |-> 20, indegree |-> 25, loop |-> 20, dominance |-> 15,
           indirect |-> 10]

Signals(itself) ==
  {s \in DOMAIN Weight :
     CASE s = "blocks"    -> Len(blocks) >= 6
       [] s = "tiny"      -> MostlyTiny
       [] s = "indegree"  -> MaxBranchIndegree >= 3
       [] s = "loop"      -> LoopCount >= 1
       [] s = "dominance" -> blocks # <<>> /\ DominatedCount(itself) >= 2
       [] s = "indirect"  -> IndirectCount > 0}

Score(signals) == Min({100, MapThenSumSet(LAMBDA s : Weight[s], signals)})

Flagged(signals) ==
  HasSwitchDispatcher \/ (Score(signals) >= 70 /\ Cardinality(signals) >= 3)

Init == blocks = <<>> /\ verdict = NoVerdict

Grow ==
  /\ ~verdict.done /\ Len(blocks) < MaxBlocks
  /\ \E b \in Shapes : blocks' = Append(blocks, b)
  /\ UNCHANGED verdict

\* The caller may declare a dispatcher (cff_dispatcher), which flags any graph.
\* A graph that is missing has the verdict of the empty one.
Evaluate ==
  /\ ~verdict.done
  /\ \E itself \in IdomOfEntry :
       LET signals == Signals(itself)
           flagged == Flagged(signals)
       IN  \E declared \in BOOLEAN :
             verdict' = [done |-> TRUE, declared |-> declared,
                         flagged |-> declared \/ flagged,
                         score |-> Score(signals), signals |-> signals]
  /\ UNCHANGED blocks

Next == Grow \/ Evaluate

Spec == Init /\ [][Next]_vars

-----------------------------------------------------------------------------
(***************************************************************************)
(* Properties.                                                             *)
(***************************************************************************)

\* A loop: two blocks that can each be reached from the other.  A call inside the
\* listing is a way from one block to another, so recursion is a loop.
HasLoop ==
  \E m, n \in Nodes : m # n /\ m \in Reach(Digraph, n) /\ n \in Reach(Digraph, m)

\* Where no dispatcher is declared, the rule never flags a graph that neither
\* loops, through calls or otherwise, nor has a block three branches lead to,
\* whichever networkx is installed: the other signals together stay below the
\* threshold (score_cff).
StraightCodePasses ==
  verdict.flagged /\ ~verdict.declared => HasLoop \/ MaxBranchIndegree >= 3
=============================================================================
