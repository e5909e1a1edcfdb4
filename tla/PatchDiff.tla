----------------------------- MODULE PatchDiff ------------------------------
(***************************************************************************)
(* diff_binaries (patch_diff.py): the functions of a baseline and of the   *)
(* listing ControlFlow has split are paired by their position and compared *)
(* instruction by instruction.  difflib.SequenceMatcher is external.       *)
(***************************************************************************)
EXTENDS ControlFlow, SequencesExt, FiniteSetsExt, Comprehension

CONSTANT Baselines   \* the listings the current one is compared with

\* Both files are disassembled from the same address, one instruction after the
\* other.
IsListing(listing) ==
  /\ listing \in Seq(Instructions)
  /\ listing # <<>> => listing[1].at = Base
  /\ \A k \in 1 .. Len(listing) - 1 :
       listing[k + 1].at = listing[k].at + listing[k].size

ASSUME PatchDiffAssumption == \A listing \in Baselines : IsListing(listing)

VARIABLE diff   \* the result: the baseline and a FunctionDiff for each pair

NoDiff == [kind |-> "none"]

\* find_function_boundaries of a listing, as ControlFlow finds them step by step.
BoundariesOf(listing) ==
  LET last == Ascending({k \in DOMAIN listing : EndsFunction(listing[k]) \/ k = Len(listing)})
  IN  [n \in DOMAIN last |-> Run(IF n = 1 THEN 1 ELSE last[n - 1] + 1, last[n])]

FunctionBodies(listing, runs) ==
  [n \in DOMAIN runs |-> SubSeq(listing, runs[n].first, runs[n].last)]

\* _instruction_key: mnemonic, operands and bytes; the bytes of a transfer
\* hold the distance to its target.
InstructionKey(x) ==
  [op |-> x.op, literal |-> x.literal, size |-> x.size,
   displacement |-> IF x.literal = NoTarget THEN 0 ELSE x.literal - x.at]

(***************************************************************************)
(* SequenceMatcher: the longest common block, the first one of a, then of  *)
(* b, splits the rest.  What no block covers is a change.                  *)
(***************************************************************************)
Delta(kind, before, after) == [kind |-> kind, before |-> before, after |-> after]

\* Mutant: a change of unequal lengths loses what is left over.
ChangesCut(a, b) ==
  [k \in 1 .. Min({Len(a), Len(b)}) |-> Delta("replaced", <<a[k]>>, <<b[k]>>)]

\* Pairs of replaced instructions first, then what is left of either side.
Changes(a, b) ==
  LET paired == Min({Len(a), Len(b)})
  IN  [k \in 1 .. paired |-> Delta("replaced", <<a[k]>>, <<b[k]>>)]
        \o [k \in 1 .. Len(a) - paired |-> Delta("removed", <<a[paired + k]>>, <<>>)]
        \o [k \in 1 .. Len(b) - paired |-> Delta("added", <<>>, <<b[paired + k]>>)]

\* The common blocks of a[alo .. ahi - 1] and b[blo .. bhi - 1]: where each begins
\* and how long it is.
Matches(a, b, w) ==
  {m \in (w.alo .. w.ahi - 1) \X (w.blo .. w.bhi - 1) \X (1 .. w.ahi - w.alo) :
     /\ m[1] + m[3] <= w.ahi /\ m[2] + m[3] <= w.bhi
     /\ \A d \in 0 .. m[3] - 1 : InstructionKey(a[m[1] + d]) = InstructionKey(b[m[2] + d])}

LongestMatch(a, b, w) ==
  CHOOSE m \in Matches(a, b, w) : \A l \in Matches(a, b, w) :
    \/ l[3] < m[3]
    \/ l[3] = m[3] /\ m[1] < l[1]
    \/ l[3] = m[3] /\ m[1] = l[1] /\ m[2] <= l[2]

Window(alo, ahi, blo, bhi) == [alo |-> alo, ahi |-> ahi, blo |-> blo, bhi |-> bhi]

BeforeMatch(w, m) == Window(w.alo, m[1], w.blo, m[2])

AfterMatch(w, m) == Window(m[1] + m[3], w.ahi, m[2] + m[3], w.bhi)

Windows(a, b) ==
  [alo : 1 .. Len(a) + 1, ahi : 1 .. Len(a) + 1, blo : 1 .. Len(b) + 1, bhi : 1 .. Len(b) + 1]

InstructionDiff(a, b) ==
  LET within[w \in Windows(a, b)] ==
        IF Matches(a, b, w) = {}
          THEN Changes(SubSeq(a, w.alo, w.ahi - 1), SubSeq(b, w.blo, w.bhi - 1))
          ELSE within[BeforeMatch(w, LongestMatch(a, b, w))]
                 \o within[AfterMatch(w, LongestMatch(a, b, w))]
  IN  within[Window(1, Len(a) + 1, 1, Len(b) + 1)]

(***************************************************************************)
(* _diff_function and diff_binaries.                                       *)
(***************************************************************************)
DiffFunction(index, before, after) ==
  LET function(status, deltas) == [index |-> index, status |-> status, deltas |-> deltas]
  IN  IF index > Len(before)
        THEN function("added", Changes(<<>>, after[index]))
      ELSE IF index > Len(after)
        THEN function("removed", Changes(before[index], <<>>))
      ELSE LET deltas == InstructionDiff(before[index], after[index])
           IN  function(IF deltas = <<>> THEN "unchanged" ELSE "modified", deltas)

\* Bytes that decode to nothing at the end of either file have no function.
Diff ==
  /\ stage = "done" /\ diff = NoDiff
  /\ \E baseline \in Baselines :
       LET before == FunctionBodies(baseline, BoundariesOf(baseline))
           after  == FunctionBodies(code, functions)
       IN  diff' = [kind |-> "result", baseline |-> baseline,
                    functions |-> [n \in 1 .. Max({Len(before), Len(after)}) |->
                                     DiffFunction(n, before, after)]]

DiffInit == Init /\ diff = NoDiff

DiffNext == (Next /\ UNCHANGED diff) \/ (Diff /\ UNCHANGED vars)

DiffSpec == DiffInit /\ [][DiffNext]_<<vars, diff>>

-----------------------------------------------------------------------------
(***************************************************************************)
(* Properties.                                                             *)
(***************************************************************************)
Befores == FlattenSeq([n \in DOMAIN diff.functions |->
             FlattenSeq([d \in DOMAIN diff.functions[n].deltas |->
                           diff.functions[n].deltas[d].before])])

Afters == FlattenSeq([n \in DOMAIN diff.functions |->
            FlattenSeq([d \in DOMAIN diff.functions[n].deltas |->
                          diff.functions[n].deltas[d].after])])

\* What is left of a listing without what the report tells, but for where it is.
Reading(x) == [op |-> x.op, literal |-> x.literal, size |-> x.size]

Kept(listing, told) ==
  LET rest == Keep(listing, {k \in DOMAIN listing : ~Contains(told, listing[k])})
  IN  [k \in DOMAIN rest |-> Reading(rest[k])]

\* The report tells the whole difference and nothing else, also when a function
\* added in front shifts every pair: what it removes are instructions of the
\* baseline and what it adds are instructions of the current listing, each once
\* and in order; without them the two listings read the same; and it is empty
\* exactly when the listings are equal.
DiffExact ==
  diff.kind = "result" =>
    LET ascending(s) == \A m, n \in DOMAIN s : m < n => s[m].at < s[n].at
        changed == {n \in DOMAIN diff.functions : diff.functions[n].status # "unchanged"}
    IN  /\ Range(Befores) \subseteq Range(diff.baseline) /\ ascending(Befores)
        /\ Range(Afters) \subseteq Range(code) /\ ascending(Afters)
        /\ Kept(diff.baseline, Befores) = Kept(code, Afters)
        /\ changed = {} <=> diff.baseline = code
=============================================================================
