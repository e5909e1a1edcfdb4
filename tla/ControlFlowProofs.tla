------------------------- MODULE ControlFlowProofs -------------------------
(***************************************************************************)
(* ControlFlow for listings of every length and every set of opcodes.      *)
(* A run of instructions is cut off when the next leader is reached, so    *)
(* what the graph promises at the end follows from what holds after each   *)
(* turn of each loop: IInv.                                                *)
(***************************************************************************)
EXTENDS Lifter, PatchDiff, DataInduction, TLAPS

\* The runs hold the instructions before n, each once and in order.
Chain(runs, n) == (runs = <<>> /\ n = 1) \/ Covers(runs, n - 1)

\* Each instruction before n is in a run (follows from Chain by induction on
\* the runs, and is kept beside it instead).
Reached(runs, n) ==
  \A k \in 1 .. n - 1 : \E r \in DOMAIN runs : k \in runs[r].first .. runs[r].last

Listed == stage \in {"leaders", "blocks", "edges", "functions"}

Built == stage \in {"edges", "functions"} \/ (stage = "done" /\ code # <<>>)

\* Where the loops stand.
Loops ==
  /\ stage \in {"decode", "raised"} \/ (stage = "done" /\ code = <<>>) =>
       leaders = {} /\ blocks = <<>> /\ edges = {} /\ functions = <<>>
  /\ Listed => code # <<>>
  /\ stage = "leaders" => i <= Len(code) /\ open = 1 /\ blocks = <<>>
  /\ stage = "blocks" => /\ open <= Len(code) /\ i <= Len(code) + 1
                         /\ (i = 1 /\ open = 1) \/ open < i
  /\ stage \in {"leaders", "blocks"} => edges = {}
  /\ stage \in {"leaders", "blocks", "edges"} => functions = <<>>
  /\ stage = "edges" => i <= Len(blocks) /\ open = 1
  /\ stage = "functions" => i <= Len(code) + 1 /\ open <= i

\* The runs collected so far.
RunsOK ==
  /\ stage = "blocks" => Chain(blocks, open) /\ Reached(blocks, open)
  /\ Built => Covers(blocks, Len(code)) /\ Reached(blocks, Len(code) + 1)
  /\ \A b \in DOMAIN blocks : 1 <= blocks[b].first /\ blocks[b].last <= Len(code)
  /\ stage = "functions" => Chain(functions, open) /\ (open = i \/ open < i)
  /\ stage = "done" /\ code # <<>> => Covers(functions, Len(code))

\* The leaders are the first instruction and what the listing asks for.
LeadersOK ==
  /\ Listed \/ Built => code[1].at \in leaders
  /\ \A k \in DOMAIN code :
       stage \in {"blocks"} \/ Built \/ (stage = "leaders" /\ k < i) =>
         LeadersOf(k) \subseteq leaders
  /\ \A a \in leaders : a = code[1].at \/ \E k \in DOMAIN code : a \in LeadersOf(k)

\* A block begins at a leader and has none inside.
BlocksCut ==
  /\ \A b \in DOMAIN blocks :
       /\ code[blocks[b].first].at \in leaders
       /\ \A k \in blocks[b].first + 1 .. blocks[b].last : code[k].at \notin leaders
  /\ stage = "blocks" =>
       /\ code[open].at \in leaders
       /\ \A k \in open + 1 .. i - 1 : code[k].at \notin leaders

\* The edges are those of the blocks connected so far.
EdgesOK ==
  /\ \A e \in edges : \E b \in DOMAIN blocks : e \in EdgesOf(b)
  /\ \A b \in DOMAIN blocks :
       stage \in {"functions", "done"} \/ (stage = "edges" /\ b < i) =>
         EdgesOf(b) \subseteq edges

IInv ==
  /\ TypeOK /\ ListingLinear /\ Loops /\ RunsOK /\ LeadersOK /\ BlocksCut /\ EdgesOK

-----------------------------------------------------------------------------
\* The size of an instruction is positive.
LEMMA InstructionType ==
  ASSUME NEW x \in Instructions
  PROVE  x.at \in Nat /\ x.size \in Nat \ {0} /\ x.literal \in Int
  BY LayoutAssumption DEF Instructions, NoTarget

\* Appending the next run keeps a chain.
LEMMA ChainAppend ==
  ASSUME NEW runs \in Seq(Runs), NEW m \in Nat \ {0}, NEW n \in Nat, m <= n,
         Chain(runs, m)
  PROVE  /\ Append(runs, Run(m, n)) \in Seq(Runs)
         /\ Covers(Append(runs, Run(m, n)), n)
         /\ Reached(runs, m) => Reached(Append(runs, Run(m, n)), n + 1)
<1> DEFINE more == Append(runs, Run(m, n))
<1>1. Run(m, n) \in Runs /\ Run(m, n).first = m /\ Run(m, n).last = n
  BY DEF Run, Runs
<1>2. /\ more \in Seq(Runs) /\ Len(more) = Len(runs) + 1 /\ more # <<>>
      /\ DOMAIN more = 1 .. Len(runs) + 1 /\ DOMAIN runs = 1 .. Len(runs)
      /\ more[Len(runs) + 1] = Run(m, n)
      /\ \A k \in 1 .. Len(runs) : more[k] = runs[k]
  BY <1>1
<1>3. Covers(more, n)
  <2>1. CASE runs = <<>> /\ m = 1
    BY <2>1, <1>1, <1>2 DEF Covers
  <2>2. CASE Covers(runs, m - 1)
    <3>1. more[1].first = 1 /\ more[Len(more)].last = n
      BY <2>2, <1>1, <1>2 DEF Covers
    <3>2. ASSUME NEW k \in DOMAIN more
          PROVE  /\ more[k].first <= more[k].last
                 /\ k < Len(more) => more[k + 1].first = more[k].last + 1
      <4>1. CASE k = Len(runs) + 1
        BY <4>1, <1>1, <1>2
      <4>2. CASE k < Len(runs)
        <5>1. k \in DOMAIN runs /\ k + 1 \in 1 .. Len(runs)
          BY <4>2, <1>2
        <5> QED  BY <5>1, <2>2, <4>2, <1>2 DEF Covers
      <4>3. CASE k = Len(runs)
        <5>1. runs[Len(runs)].last = m - 1 /\ k \in DOMAIN runs
          BY <4>3, <2>2, <1>2 DEF Covers
        <5> QED  BY <5>1, <4>3, <1>1, <1>2, <2>2 DEF Covers
      <4> QED  BY <4>1, <4>2, <4>3, <1>2
    <3> QED  BY <3>1, <3>2, <1>2 DEF Covers
  <2> QED  BY <2>1, <2>2 DEF Chain
<1>4. ASSUME Reached(runs, m), NEW k \in 1 .. n + 1 - 1
      PROVE  \E r \in DOMAIN more : k \in more[r].first .. more[r].last
  <2>1. CASE k < m
    <3>1. PICK r \in DOMAIN runs : k \in runs[r].first .. runs[r].last
      BY <1>4, <2>1 DEF Reached
    <3> QED  BY <3>1, <1>2
  <2>2. CASE k >= m
    <3>1. Len(runs) + 1 \in DOMAIN more /\ k \in more[Len(runs) + 1].first .. more[Len(runs) + 1].last
      BY <2>2, <1>1, <1>2
    <3> QED  BY <3>1
  <2> QED  BY <2>1, <2>2
<1>5. Reached(runs, m) => Reached(more, n + 1)
  BY <1>4 DEF Reached
<1> QED  BY <1>2, <1>3, <1>5

\* In a linear listing an address belongs to one instruction.
LEMMA DistinctAddresses ==
  ASSUME TypeOK, ListingLinear, NEW m \in DOMAIN code, NEW n \in DOMAIN code,
         code[m].at = code[n].at
  PROVE  m = n
<1>1. /\ code[m].at \in Nat /\ code[m].size \in Nat \ {0}
      /\ code[n].at \in Nat /\ code[n].size \in Nat \ {0} /\ m \in Nat /\ n \in Nat
  <2>1. code[m] \in Instructions /\ code[n] \in Instructions
    BY DEF TypeOK
  <2> QED  BY <2>1, InstructionType DEF TypeOK
<1>2. ~(m < n)
  BY <1>1 DEF ListingLinear
<1>3. ~(n < m)
  BY <1>1 DEF ListingLinear
<1> QED  BY <1>1, <1>2, <1>3

LEMMA InitIInv == Init => IInv
<1> SUFFICES ASSUME Init PROVE IInv
  OBVIOUS
<1> USE DEF Init
<1>1. TypeOK
  BY DEF TypeOK, Stages
<1>2. ListingLinear /\ Loops /\ RunsOK
  BY DEF ListingLinear, Loops, RunsOK, Listed, Built
<1>3. LeadersOK /\ BlocksCut /\ EdgesOK
  BY DEF LeadersOK, BlocksCut, EdgesOK, Listed, Built
<1> QED  BY <1>1, <1>2, <1>3 DEF IInv

LEMMA DecodeStep == IInv /\ Decode => IInv'
<1> SUFFICES ASSUME IInv, Decode PROVE IInv'
  OBVIOUS
<1>1. stage = "decode" /\ leaders = {} /\ blocks = <<>> /\ edges = {} /\ functions = <<>>
  BY DEF IInv, Loops, Decode
<1>2. PICK x \in Instructions : code' = Append(code, x) /\ x.at = Frontier
  <2>1. PICK x \in [at : {Frontier}, size : Sizes, op : Opcodes,
                    literal : Literals \cup {NoTarget}] : code' = Append(code, x)
    BY DEF Decode
  <2>2. Frontier \in Nat
    <3>1. CASE code = <<>>
      BY <3>1, LayoutAssumption DEF Frontier
    <3>2. CASE code # <<>>
      <4>1. Len(code) \in DOMAIN code /\ code[Len(code)] \in Instructions
        BY <3>2 DEF IInv, TypeOK
      <4> QED  BY <4>1, <3>2, InstructionType DEF Frontier
    <3> QED  BY <3>1, <3>2
  <2> QED  BY <2>1, <2>2 DEF Instructions
<1>3. UNCHANGED <<stage, i, open, leaders, blocks, edges, functions>>
  BY DEF Decode
<1>4. /\ code \in Seq(Instructions) /\ code' \in Seq(Instructions)
      /\ DOMAIN code = 1 .. Len(code) /\ DOMAIN code' = 1 .. Len(code) + 1
      /\ Len(code) \in Nat
      /\ \A k \in DOMAIN code : code'[k] = code[k]
      /\ code'[Len(code) + 1] = x
  BY <1>2 DEF IInv, TypeOK
<1>5. TypeOK'
  BY <1>1, <1>3, <1>4 DEF IInv, TypeOK, Stages
<1>6. ListingLinear'
  <2> SUFFICES ASSUME NEW m \in DOMAIN code', NEW n \in DOMAIN code'
               PROVE  /\ m < n => code'[m].at + code'[m].size <= code'[n].at
                      /\ n = m + 1 => code'[n].at = code'[m].at + code'[m].size
    BY DEF ListingLinear
  <2>1. CASE m \in DOMAIN code /\ n \in DOMAIN code
    BY <2>1, <1>4 DEF IInv, ListingLinear
  <2>2. CASE m = Len(code) + 1
    BY <2>2, <1>4
  <2>3. CASE m \in DOMAIN code /\ n = Len(code) + 1
    <3>1. Len(code) \in DOMAIN code /\ code # <<>>
      BY <2>3, <1>4
    <3>2. code'[n].at = code[Len(code)].at + code[Len(code)].size
      BY <3>1, <2>3, <1>2, <1>4 DEF Frontier
    <3>3. /\ code[Len(code)].at \in Nat /\ code[Len(code)].size \in Nat
          /\ code[m].at \in Nat /\ code[m].size \in Nat
      BY <3>1, <2>3, <1>4, InstructionType
    <3>4. m < Len(code) => code[m].at + code[m].size <= code[Len(code)].at
      BY <3>1, <2>3 DEF IInv, ListingLinear
    <3> QED  BY <3>1, <3>2, <3>3, <3>4, <2>3, <1>4
  <2> QED  BY <2>1, <2>2, <2>3, <1>4
<1>7. Loops' /\ RunsOK'
  BY <1>1, <1>3 DEF Loops, RunsOK, Listed, Built
<1>8. LeadersOK' /\ BlocksCut' /\ EdgesOK'
  BY <1>1, <1>3 DEF LeadersOK, BlocksCut, EdgesOK, Listed, Built
<1> QED  BY <1>5, <1>6, <1>7, <1>8 DEF IInv

LEMMA StopStep == IInv /\ Stop => IInv'
<1> SUFFICES ASSUME IInv, Stop PROVE IInv'
  OBVIOUS
<1>1. stage = "decode" /\ leaders = {} /\ blocks = <<>> /\ edges = {} /\ functions = <<>>
  BY DEF IInv, Loops, Stop
<1>2. /\ i' = 1 /\ open' = 1 /\ UNCHANGED <<code, blocks, edges, functions>>
      /\ stage' \in {"raised", "done", "leaders"}
      /\ stage' = "leaders" => code # <<>>
      /\ stage' = "done" => code = <<>>
      /\ leaders' = IF stage' = "leaders" THEN {code[1].at} ELSE {}
  BY DEF Stop
<1>3. code \in Seq(Instructions) /\ (code # <<>> => 1 \in DOMAIN code /\ 1 <= Len(code))
  BY DEF IInv, TypeOK
<1>4. TypeOK'
  BY <1>1, <1>2, <1>3 DEF IInv, TypeOK, Stages, Addresses
<1>5. ListingLinear'
  BY <1>2 DEF IInv, ListingLinear
<1>6. Loops' /\ RunsOK'
  BY <1>1, <1>2, <1>3 DEF Loops, RunsOK, Listed, Built
<1>7. LeadersOK'
  BY <1>1, <1>2, <1>3 DEF LeadersOK, Listed, Built
<1>8. BlocksCut' /\ EdgesOK'
  BY <1>1, <1>2 DEF BlocksCut, EdgesOK
<1> QED  BY <1>4, <1>5, <1>6, <1>7, <1>8 DEF IInv

\* An address the listing asks for is the address of an instruction of it.
LEMMA LeadersOfType ==
  ASSUME TypeOK, NEW k \in DOMAIN code
  PROVE  LeadersOf(k) \subseteq Addresses
  BY DEF LeadersOf, Addresses, TypeOK

LEMMA LeadStep == IInv /\ Lead => IInv'
<1> SUFFICES ASSUME IInv, Lead PROVE IInv'
  OBVIOUS
<1>1. /\ stage = "leaders" /\ i \in DOMAIN code /\ code # <<>> /\ open = 1
      /\ blocks = <<>> /\ edges = {} /\ functions = <<>>
  BY DEF IInv, Loops, Lead, TypeOK, Listed
<1>2. /\ leaders' = leaders \cup LeadersOf(i)
      /\ UNCHANGED <<code, open, blocks, edges, functions>>
      /\ (i = Len(code) /\ stage' = "blocks" /\ i' = 1)
           \/ (i # Len(code) /\ stage' = "leaders" /\ i' = i + 1)
  BY <1>1 DEF Lead
<1>3. /\ code \in Seq(Instructions) /\ i \in 1 .. Len(code) /\ Len(code) \in Nat
      /\ DOMAIN code = 1 .. Len(code)
  BY <1>1 DEF IInv, TypeOK
<1>4. TypeOK'
  BY <1>1, <1>2, <1>3, LeadersOfType DEF IInv, TypeOK, Stages, Addresses
<1>5. ListingLinear'
  BY <1>2 DEF IInv, ListingLinear
<1>6. Loops'
  BY <1>1, <1>2, <1>3 DEF Loops, Listed, Built
<1>7. RunsOK'
  BY <1>1, <1>2, <1>3 DEF RunsOK, Built, Chain, Reached
<1>8. LeadersOK'
  <2>1. \A k \in DOMAIN code : LeadersOf(k)' = LeadersOf(k)
    BY <1>2 DEF LeadersOf, Addresses
  <2>2. \A k \in DOMAIN code : k < i => LeadersOf(k) \subseteq leaders
    BY <1>1 DEF IInv, LeadersOK
  <2>3. \A k \in DOMAIN code : k <= i => LeadersOf(k) \subseteq leaders'
    <3> SUFFICES ASSUME NEW k \in DOMAIN code, k <= i
                 PROVE  LeadersOf(k) \subseteq leaders'
      OBVIOUS
    <3>1. CASE k = i
      BY <3>1, <1>2
    <3>2. CASE k # i
      <4>1. k < i
        BY <3>2, <1>3
      <4>2. LeadersOf(k) \subseteq leaders
        BY <4>1, <2>2
      <4> QED  BY <4>2, <1>2
    <3> QED  BY <3>1, <3>2
  <2>4. \A k \in DOMAIN code :
          stage' \in {"blocks"} \/ Built' \/ (stage' = "leaders" /\ k < i') =>
            LeadersOf(k) \subseteq leaders'
    <3> SUFFICES ASSUME NEW k \in DOMAIN code,
                        stage' \in {"blocks"} \/ Built' \/ (stage' = "leaders" /\ k < i')
                 PROVE  LeadersOf(k) \subseteq leaders'
      OBVIOUS
    <3>1. k <= Len(code) /\ k \in Nat
      BY <1>3
    <3>2. CASE i = Len(code)
      BY <3>1, <3>2, <2>3
    <3>3. CASE i # Len(code)
      <4>1. stage' = "leaders" /\ i' = i + 1
        BY <3>3, <1>2
      <4>2. k < i + 1
        BY <4>1 DEF Built
      <4>3. k <= i
        BY <4>2, <3>1, <1>3
      <4> QED  BY <4>3, <2>3
    <3> QED  BY <3>2, <3>3
  <2>5. code[1].at \in leaders'
    BY <1>1, <1>2 DEF IInv, LeadersOK, Listed
  <2>6. \A a \in leaders' : a = code[1].at \/ \E k \in DOMAIN code : a \in LeadersOf(k)
    BY <1>1, <1>2 DEF IInv, LeadersOK
  <2> QED  BY <2>1, <2>4, <2>5, <2>6, <1>2 DEF LeadersOK
<1>9. BlocksCut'
  BY <1>1, <1>2, <1>3, <1>8 DEF LeadersOK, Listed, BlocksCut
<1>10. EdgesOK'
  BY <1>1, <1>2 DEF EdgesOK
<1> QED  BY <1>4, <1>5, <1>6, <1>7, <1>8, <1>9, <1>10 DEF IInv

LEMMA CollectStep == IInv /\ Collect => IInv'
<1> SUFFICES ASSUME IInv, Collect PROVE IInv'
  OBVIOUS
<1>1. /\ stage = "blocks" /\ i \in DOMAIN code /\ code # <<>> /\ edges = {}
      /\ functions = <<>> /\ open <= i /\ ((i = 1 /\ open = 1) \/ open < i)
      /\ open \in DOMAIN code
  BY DEF IInv, Loops, Collect, TypeOK, Listed
<1>2. /\ i' = i + 1 /\ stage' = "blocks"
      /\ UNCHANGED <<code, stage, leaders, edges, functions>>
  BY <1>1 DEF Collect
<1>3. /\ code \in Seq(Instructions) /\ i \in 1 .. Len(code) /\ Len(code) \in Nat
      /\ DOMAIN code = 1 .. Len(code) /\ open \in 1 .. Len(code)
      /\ blocks \in Seq(Runs)
  BY <1>1 DEF IInv, TypeOK
<1>4. LeadersOK'
  <2>1. \A k \in DOMAIN code : LeadersOf(k)' = LeadersOf(k)
    BY <1>2 DEF LeadersOf, Addresses
  <2> QED  BY <2>1, <1>1, <1>2 DEF IInv, LeadersOK, Listed, Built
<1>5. ListingLinear'
  BY <1>2 DEF IInv, ListingLinear
<1>6. CASE open < i /\ code[i].at \in leaders
  <2>1. blocks' = Append(blocks, Run(open, i - 1)) /\ open' = i
    BY <1>6 DEF Collect
  <2>2. Chain(blocks, open) /\ Reached(blocks, open)
    BY <1>1 DEF IInv, RunsOK
  <2>3. /\ blocks' \in Seq(Runs) /\ Covers(blocks', i - 1)
        /\ Reached(blocks', i - 1 + 1)
    BY <2>1, <2>2, <1>3, <1>6, ChainAppend
  <2>4. /\ DOMAIN blocks' = 1 .. Len(blocks) + 1 /\ DOMAIN blocks = 1 .. Len(blocks)
        /\ \A b \in DOMAIN blocks : blocks'[b] = blocks[b]
        /\ blocks'[Len(blocks) + 1].first = open
        /\ blocks'[Len(blocks) + 1].last = i - 1
    BY <2>1, <1>3 DEF Run, Runs
  <2>5. TypeOK'
    BY <2>1, <2>3, <1>1, <1>2, <1>3 DEF IInv, TypeOK, Addresses
  <2>6. Loops'
    BY <2>1, <1>1, <1>2, <1>3, <1>6 DEF Loops, Listed, Built
  <2>7. RunsOK'
    <3>1. Chain(blocks', open') /\ Reached(blocks', open')
      <4>1. open' = i /\ i - 1 + 1 = i
        BY <2>1, <1>3
      <4>2. Covers(blocks', open' - 1) /\ Reached(blocks', open')
        BY <4>1, <2>3
      <4> QED  BY <4>2 DEF Chain
    <3>2. \A b \in DOMAIN blocks' : 1 <= blocks'[b].first /\ blocks'[b].last <= Len(code)
      BY <2>4, <1>3 DEF IInv, RunsOK
    <3> QED  BY <3>1, <3>2, <1>2 DEF RunsOK, Built
  <2>8. BlocksCut'
    <3>1. /\ code[open].at \in leaders
          /\ \A k \in open + 1 .. i - 1 : code[k].at \notin leaders
      BY <1>1 DEF IInv, BlocksCut
    <3>2. ASSUME NEW b \in DOMAIN blocks'
          PROVE  /\ code[blocks'[b].first].at \in leaders
                 /\ \A k \in blocks'[b].first + 1 .. blocks'[b].last : code[k].at \notin leaders
      <4>1. CASE b \in DOMAIN blocks
        BY <4>1, <2>4 DEF IInv, BlocksCut
      <4>2. CASE b = Len(blocks) + 1
        BY <4>2, <2>4, <3>1
      <4> QED  BY <4>1, <4>2, <2>4
    <3>3. \A k \in open' + 1 .. i' - 1 : code[k].at \notin leaders
      BY <2>1, <1>2, <1>3
    <3> QED  BY <3>2, <3>3, <2>1, <1>2, <1>6 DEF BlocksCut
  <2>9. EdgesOK'
    BY <1>1, <1>2 DEF EdgesOK
  <2> QED  BY <2>5, <2>6, <2>7, <2>8, <2>9, <1>4, <1>5 DEF IInv
<1>7. CASE ~(open < i /\ code[i].at \in leaders)
  <2>1. UNCHANGED <<blocks, open>>
    BY <1>7 DEF Collect
  <2>2. TypeOK' /\ Loops' /\ RunsOK' /\ EdgesOK'
    BY <2>1, <1>1, <1>2, <1>3
       DEF IInv, TypeOK, Addresses, Loops, RunsOK, EdgesOK, Listed, Built, Chain, Reached
  <2>3. BlocksCut'
    <3>1. \A k \in open + 1 .. i' - 1 : code[k].at \notin leaders
      <4> SUFFICES ASSUME NEW k \in open + 1 .. i PROVE code[k].at \notin leaders
        BY <1>2, <1>3
      <4>1. CASE k = i
        BY <4>1, <1>3, <1>7
      <4>2. CASE k # i
        BY <4>2, <1>1, <1>3 DEF IInv, BlocksCut
      <4> QED  BY <4>1, <4>2
    <3> QED  BY <3>1, <2>1, <1>1, <1>2 DEF IInv, BlocksCut
  <2> QED  BY <2>2, <2>3, <1>4, <1>5 DEF IInv
<1> QED  BY <1>6, <1>7

LEMMA FlushStep == IInv /\ Flush => IInv'
<1> SUFFICES ASSUME IInv, Flush PROVE IInv'
  OBVIOUS
<1>1. /\ stage = "blocks" /\ code # <<>> /\ edges = {} /\ functions = <<>>
      /\ open \in DOMAIN code /\ i = Len(code) + 1
  BY DEF IInv, Loops, Flush, TypeOK, Listed
<1>2. /\ blocks' = Append(blocks, Run(open, Len(code)))
      /\ stage' = "edges" /\ i' = 1 /\ open' = 1
      /\ UNCHANGED <<code, leaders, edges, functions>>
  BY DEF Flush
<1>3. /\ code \in Seq(Instructions) /\ Len(code) \in Nat
      /\ DOMAIN code = 1 .. Len(code) /\ open \in 1 .. Len(code)
      /\ blocks \in Seq(Runs)
  BY <1>1 DEF IInv, TypeOK
<1>4. Chain(blocks, open) /\ Reached(blocks, open)
  BY <1>1 DEF IInv, RunsOK
<1>5. /\ blocks' \in Seq(Runs) /\ Covers(blocks', Len(code))
      /\ Reached(blocks', Len(code) + 1)
  BY <1>2, <1>3, <1>4, ChainAppend
<1>6. /\ DOMAIN blocks' = 1 .. Len(blocks) + 1 /\ DOMAIN blocks = 1 .. Len(blocks)
      /\ Len(blocks') = Len(blocks) + 1
      /\ \A b \in DOMAIN blocks : blocks'[b] = blocks[b]
      /\ blocks'[Len(blocks) + 1].first = open
      /\ blocks'[Len(blocks) + 1].last = Len(code)
  BY <1>2, <1>3 DEF Run, Runs
<1>7. TypeOK'
  BY <1>1, <1>2, <1>3, <1>5 DEF IInv, TypeOK, Addresses, Stages
<1>8. ListingLinear'
  BY <1>2 DEF IInv, ListingLinear
<1>9. Loops'
  BY <1>1, <1>2, <1>3, <1>6 DEF Loops, Listed, Built
<1>10. RunsOK'
  <2>1. \A b \in DOMAIN blocks' : 1 <= blocks'[b].first /\ blocks'[b].last <= Len(code)
    BY <1>6, <1>3 DEF IInv, RunsOK
  <2>2. Covers(blocks, Len(code))' /\ Reached(blocks, Len(code) + 1)'
    BY <1>2, <1>5 DEF Covers, Reached
  <2> QED  BY <2>1, <2>2, <1>2 DEF RunsOK, Built
<1>11. LeadersOK'
  <2>1. \A k \in DOMAIN code : LeadersOf(k)' = LeadersOf(k)
    BY <1>2 DEF LeadersOf, Addresses
  <2> QED  BY <2>1, <1>1, <1>2 DEF IInv, LeadersOK, Listed, Built
<1>12. BlocksCut'
  <2>1. /\ code[open].at \in leaders
        /\ \A k \in open + 1 .. Len(code) : code[k].at \notin leaders
    BY <1>1, <1>3 DEF IInv, BlocksCut
  <2>2. ASSUME NEW b \in DOMAIN blocks'
        PROVE  /\ code[blocks'[b].first].at \in leaders
               /\ \A k \in blocks'[b].first + 1 .. blocks'[b].last : code[k].at \notin leaders
    <3>1. CASE b \in DOMAIN blocks
      BY <3>1, <1>6 DEF IInv, BlocksCut
    <3>2. CASE b = Len(blocks) + 1
      BY <3>2, <1>6, <2>1
    <3> QED  BY <3>1, <3>2, <1>6
  <2> QED  BY <2>2, <1>2 DEF BlocksCut
<1>13. EdgesOK'
  BY <1>1, <1>2, <1>6 DEF EdgesOK
<1> QED  BY <1>7, <1>8, <1>9, <1>10, <1>11, <1>12, <1>13 DEF IInv

\* The first and the last instruction of a block are in the listing.
LEMMA BlockIndices ==
  ASSUME IInv, Built, NEW b \in DOMAIN blocks
  PROVE  /\ blocks[b].first \in DOMAIN code /\ blocks[b].last \in DOMAIN code
         /\ blocks[b].first <= blocks[b].last
         /\ code[blocks[b].first] \in Instructions /\ code[blocks[b].last] \in Instructions
<1>1. blocks[b] \in Runs /\ code \in Seq(Instructions)
  BY DEF IInv, TypeOK
<1>2. blocks[b].first <= blocks[b].last /\ 1 <= blocks[b].first /\ blocks[b].last <= Len(code)
  BY DEF IInv, RunsOK, Covers
<1>3. blocks[b].first \in 1 .. Len(code) /\ blocks[b].last \in 1 .. Len(code)
  BY <1>1, <1>2 DEF Runs
<1> QED  BY <1>1, <1>2, <1>3

\* What EdgesOf makes are edges.
LEMMA EdgesOfType ==
  ASSUME IInv, Built, NEW b \in DOMAIN blocks
  PROVE  EdgesOf(b) \subseteq Edges
<1> DEFINE last == code[blocks[b].last]
<1>1. StartOf(blocks[b]) \in Nat /\ DirectTarget(last) \in Int
  BY BlockIndices, InstructionType DEF StartOf, DirectTarget, NoTarget
<1>2. \A n \in DOMAIN blocks : StartOf(blocks[n]) \in Nat
  BY BlockIndices, InstructionType DEF StartOf
<1>3. \A n \in {m \in {b + 1} : m <= Len(blocks)} : n \in DOMAIN blocks
  BY DEF IInv, TypeOK
<1>4. \A from \in Nat, to \in Int, kind \in {"call", "branch", "fallthrough"} :
        Edge(from, to, kind) \in Edges
  BY DEF Edge, Edges
<1>5. {Edge(StartOf(blocks[b]), StartOf(blocks[n]), "fallthrough") :
         n \in {m \in {b + 1} : m <= Len(blocks)}} \subseteq Edges
  BY <1>1, <1>2, <1>3, <1>4
<1>6. \A kind \in {"call", "branch"} :
        {Edge(StartOf(blocks[b]), t, kind) : t \in {DirectTarget(last)} \ {NoTarget}}
          \subseteq Edges
  BY <1>1, <1>4
<1> HIDE DEF last
<1>7. EdgesOf(b) \subseteq
        {Edge(StartOf(blocks[b]), t, "call") : t \in {DirectTarget(last)} \ {NoTarget}}
        \cup {Edge(StartOf(blocks[b]), t, "branch") : t \in {DirectTarget(last)} \ {NoTarget}}
        \cup {Edge(StartOf(blocks[b]), StartOf(blocks[n]), "fallthrough") :
                n \in {m \in {b + 1} : m <= Len(blocks)}}
  BY DEF EdgesOf, last
<1> QED  BY <1>5, <1>6, <1>7

LEMMA ConnectStep == IInv /\ Connect => IInv'
<1> SUFFICES ASSUME IInv, Connect PROVE IInv'
  OBVIOUS
<1> DEFINE n == Len(blocks)
<1>1. /\ stage = "edges" /\ code # <<>> /\ functions = <<>> /\ open = 1 /\ i \in Nat \ {0}
      /\ blocks \in Seq(Runs) /\ i \in 1 .. n /\ n \in Nat
      /\ DOMAIN blocks = 1 .. n /\ code \in Seq(Instructions) /\ Len(code) \in Nat
  BY DEF IInv, Loops, Connect, TypeOK, Listed
<1>2. UNCHANGED <<code, open, leaders, blocks, functions>> /\ n' = n
  BY DEF Connect
<1>3. edges' = edges \cup EdgesOf(i)
  BY DEF Connect
\* Where the loop goes on.
<1>4. \/ stage' = "edges" /\ i' = i + 1 /\ i < n
      \/ stage' = "functions" /\ i' = 1 /\ i = n
  <2>1. IF i = n THEN stage' = "functions" /\ i' = 1
                 ELSE stage' = stage /\ i' = i + 1
    BY DEF Connect
  <2> HIDE DEF n
  <2>2. i \in 1 .. n /\ n \in Nat /\ stage = "edges"
    BY <1>1
  <2> QED
    BY <2>1, <2>2
<1> HIDE DEF n
<1>5. stage' \in {"edges", "functions"} /\ i' \in Nat \ {0}
  BY <1>1, <1>4
<1>6. TypeOK'
  <2>1. EdgesOf(i) \subseteq Edges
    BY <1>1, EdgesOfType DEF Built, n
  <2>2. edges' \subseteq Edges
    BY <2>1, <1>3 DEF IInv, TypeOK
  <2>3. stage' \in Stages /\ i' \in Nat \ {0}
    BY <1>5 DEF Stages
  <2> QED  BY <2>2, <2>3, <1>2 DEF IInv, TypeOK, Addresses
<1>7. ListingLinear'
  BY <1>2 DEF IInv, ListingLinear
<1>8. Loops'
  <2>1. stage' = "edges" => i' <= n
    BY <1>1, <1>4
  <2>2. stage' = "functions" => i' <= Len(code') + 1 /\ open' <= i'
    BY <1>1, <1>2, <1>4
  <2>3. stage' = "edges" => i' <= Len(blocks')
    BY <2>1, <1>2 DEF n
  <2> QED  BY <2>2, <2>3, <1>1, <1>2, <1>5 DEF Loops, Listed, Built
<1>9. RunsOK'
  <2>1. Covers(blocks, Len(code)) /\ Reached(blocks, Len(code) + 1)
    BY <1>1 DEF IInv, RunsOK, Built
  <2>2. Covers(blocks, Len(code))' /\ Reached(blocks, Len(code) + 1)'
    BY <2>1, <1>2 DEF Covers, Reached
  <2>3. Chain(functions, open)' /\ (stage' = "functions" => open' = i')
    BY <1>1, <1>2, <1>4 DEF Chain
  <2>4. \A b \in DOMAIN blocks' : 1 <= blocks'[b].first /\ blocks'[b].last <= Len(code')
    BY <1>2 DEF IInv, RunsOK
  <2> QED  BY <2>2, <2>3, <2>4, <1>2, <1>5 DEF RunsOK, Built
<1>10. LeadersOK'
  <2>1. \A k \in DOMAIN code : LeadersOf(k)' = LeadersOf(k)
    BY <1>2 DEF LeadersOf, Addresses
  <2> QED  BY <2>1, <1>1, <1>2 DEF IInv, LeadersOK, Listed, Built
<1>11. BlocksCut'
  BY <1>1, <1>2, <1>5 DEF IInv, BlocksCut
<1>12. EdgesOK'
  <2>1. \A b \in DOMAIN blocks : EdgesOf(b)' = EdgesOf(b)
    BY <1>2 DEF EdgesOf, StartOf
  <2>2. \A e \in edges' : \E b \in DOMAIN blocks : e \in EdgesOf(b)
    BY <1>1, <1>3 DEF IInv, EdgesOK
  <2>3. ASSUME NEW b \in DOMAIN blocks,
               stage' \in {"functions", "done"} \/ (stage' = "edges" /\ b < i')
        PROVE  EdgesOf(b) \subseteq edges'
    <3>1. b \in 1 .. n
      BY <1>1
    <3>2. b <= i
      BY <2>3, <3>1, <1>1, <1>4
    <3>3. CASE b = i
      BY <3>3, <1>3
    <3>4. CASE b # i
      <4>1. b < i
        BY <3>1, <3>2, <3>4, <1>1
      <4>2. EdgesOf(b) \subseteq edges
        BY <4>1, <1>1 DEF IInv, EdgesOK
      <4> QED  BY <4>2, <1>3
    <3> QED  BY <3>3, <3>4
  <2> QED  BY <2>1, <2>2, <2>3, <1>2, <1>5 DEF EdgesOK
<1> QED  BY <1>6, <1>7, <1>8, <1>9, <1>10, <1>11, <1>12 DEF IInv

\* The last loop leaves the graph alone.
LEMMA GraphKept ==
  ASSUME IInv, stage = "functions", stage' \in {"functions", "done"},
         UNCHANGED <<code, leaders, blocks, edges>>
  PROVE  /\ ListingLinear' /\ LeadersOK' /\ BlocksCut' /\ EdgesOK'
         /\ Covers(blocks, Len(code))' /\ Reached(blocks, Len(code) + 1)'
         /\ \A b \in DOMAIN blocks' : 1 <= blocks'[b].first /\ blocks'[b].last <= Len(code')
<1>1. code # <<>>
  BY DEF IInv, Loops, Listed
<1>2. ListingLinear'
  BY DEF IInv, ListingLinear
<1>3. LeadersOK'
  <2>1. \A k \in DOMAIN code : LeadersOf(k)' = LeadersOf(k)
    BY DEF LeadersOf, Addresses
  <2> QED  BY <2>1, <1>1 DEF IInv, LeadersOK, Listed, Built
<1>4. BlocksCut'
  BY DEF IInv, BlocksCut
<1>5. EdgesOK'
  <2>1. \A b \in DOMAIN blocks : EdgesOf(b)' = EdgesOf(b)
    BY DEF EdgesOf, StartOf
  <2> QED  BY <2>1 DEF IInv, EdgesOK
<1>6. Covers(blocks, Len(code)) /\ Reached(blocks, Len(code) + 1)
  BY DEF IInv, RunsOK, Built
<1>7. Covers(blocks, Len(code))' /\ Reached(blocks, Len(code) + 1)'
  BY <1>6 DEF Covers, Reached
<1>8. \A b \in DOMAIN blocks' : 1 <= blocks'[b].first /\ blocks'[b].last <= Len(code')
  BY DEF IInv, RunsOK
<1> QED  BY <1>2, <1>3, <1>4, <1>5, <1>7, <1>8

LEMMA BoundStep == IInv /\ Bound => IInv'
<1> SUFFICES ASSUME IInv, Bound PROVE IInv'
  OBVIOUS
<1>1. /\ stage = "functions" /\ code # <<>> /\ i <= Len(code) /\ open <= i
      /\ i \in Nat \ {0} /\ open \in Nat \ {0} /\ Len(code) \in Nat
      /\ functions \in Seq(Runs) /\ Chain(functions, open) /\ edges \subseteq Edges
  BY DEF IInv, Loops, Bound, TypeOK, Listed, RunsOK
<1>2. /\ i' = i + 1 /\ stage' = "functions"
      /\ UNCHANGED <<code, leaders, blocks, edges>>
  BY <1>1 DEF Bound
<1>3. /\ functions' \in Seq(Runs) /\ Chain(functions', open')
      /\ open' \in Nat \ {0} /\ open' <= i'
  <2>1. CASE EndsFunction(code[i])
    <3>1. functions' = Append(functions, Run(open, i)) /\ open' = i + 1
      BY <2>1 DEF Bound
    <3>2. functions' \in Seq(Runs) /\ Covers(functions', i)
      BY <3>1, <1>1, ChainAppend
    <3>3. open' - 1 = i
      BY <3>1, <1>1
    <3>4. Covers(functions', open' - 1)
      BY <3>2, <3>3
    <3> QED  BY <3>1, <3>2, <3>4, <1>1, <1>2 DEF Chain
  <2>2. CASE ~EndsFunction(code[i])
    <3>1. functions' = functions /\ open' = open
      BY <2>2 DEF Bound
    <3>2. open' <= i'
      BY <3>1, <1>1, <1>2
    <3> QED  BY <3>1, <3>2, <1>1
  <2> QED  BY <2>1, <2>2
<1>4. TypeOK'
  BY <1>1, <1>2, <1>3 DEF IInv, TypeOK, Addresses, Stages
<1>5. Loops'
  BY <1>1, <1>2, <1>3 DEF Loops, Listed, Built
<1>6. RunsOK'
  <2>1. Chain(functions, open)' /\ (open' = i' \/ open' < i')
    BY <1>1, <1>2, <1>3 DEF Chain, Covers
  <2> QED  BY <2>1, <1>1, <1>2, GraphKept DEF RunsOK, Built
<1> QED  BY <1>1, <1>2, <1>4, <1>5, <1>6, GraphKept DEF IInv

LEMMA FinishStep == IInv /\ Finish => IInv'
<1> SUFFICES ASSUME IInv, Finish PROVE IInv'
  OBVIOUS
<1>1. /\ stage = "functions" /\ code # <<>> /\ i = Len(code) + 1 /\ open <= i
      /\ i \in Nat \ {0} /\ open \in Nat \ {0} /\ Len(code) \in Nat
      /\ functions \in Seq(Runs) /\ Chain(functions, open)
      /\ code \in Seq(Instructions)
  BY DEF IInv, Loops, Finish, TypeOK, Listed, RunsOK
<1>2. /\ stage' = "done" /\ UNCHANGED <<code, i, open, leaders, blocks, edges>>
      /\ functions' = IF open <= Len(code) THEN Append(functions, Run(open, Len(code)))
                                           ELSE functions
  BY DEF Finish
<1>3. functions' \in Seq(Runs) /\ Covers(functions', Len(code))
  <2>1. CASE open <= Len(code)
    BY <2>1, <1>1, <1>2, ChainAppend
  <2>2. CASE open > Len(code)
    <3>1. open = Len(code) + 1 /\ open # 1 /\ open - 1 = Len(code)
      BY <2>2, <1>1
    <3>2. Covers(functions, Len(code))
      BY <3>1, <1>1 DEF Chain
    <3> QED  BY <3>2, <2>2, <1>1, <1>2
  <2> QED  BY <2>1, <2>2, <1>1
<1>4. TypeOK'
  BY <1>1, <1>2, <1>3 DEF IInv, TypeOK, Addresses, Stages
<1>5. Loops'
  BY <1>1, <1>2 DEF Loops, Listed, Built
<1>6. RunsOK'
  <2>1. Covers(functions, Len(code))'
    BY <1>2, <1>3 DEF Covers
  <2> QED  BY <2>1, <1>1, <1>2, GraphKept DEF RunsOK, Built
<1> QED  BY <1>1, <1>2, <1>4, <1>5, <1>6, GraphKept DEF IInv

LEMMA StutterStep == IInv /\ UNCHANGED vars => IInv'
<1> SUFFICES ASSUME IInv, UNCHANGED vars PROVE IInv'
  OBVIOUS
<1>1. UNCHANGED <<code, stage, i, open, leaders, blocks, edges, functions>>
  BY DEF vars
<1>2. TypeOK' /\ ListingLinear' /\ Loops' /\ RunsOK' /\ BlocksCut'
  BY <1>1 DEF IInv, TypeOK, Addresses, ListingLinear, Loops, Listed, Built, RunsOK,
              Chain, Covers, Reached, BlocksCut
<1>3. \A k \in DOMAIN code : LeadersOf(k)' = LeadersOf(k)
  BY <1>1 DEF LeadersOf, Addresses
<1>4. LeadersOK'
  BY <1>1, <1>3 DEF IInv, LeadersOK, Listed, Built
<1>5. \A b \in DOMAIN blocks : EdgesOf(b)' = EdgesOf(b)
  BY <1>1 DEF EdgesOf, StartOf
<1>6. EdgesOK'
  BY <1>1, <1>5 DEF IInv, EdgesOK
<1> QED  BY <1>2, <1>4, <1>6 DEF IInv

LEMMA StepInvariance == IInv /\ [Next]_vars => IInv'
  BY DecodeStep, StopStep, LeadStep, CollectStep, FlushStep, ConnectStep, BoundStep,
     FinishStep, StutterStep DEF Next

\* IInv holds in every reachable state.
THEOREM Invariance == Spec => []IInv
  BY InitIInv, StepInvariance, PTL DEF Spec

\* Type correctness, and the linear listing both passes rely on.
THEOREM TypeCorrect == Spec => []TypeOK
<1>1. IInv => TypeOK
  BY DEF IInv
<1> QED  BY <1>1, Invariance, PTL

\* A decoded listing has neither gaps nor overlaps.
THEOREM ListingIsLinear == Spec => []ListingLinear
<1>1. IInv => ListingLinear
  BY DEF IInv
<1> QED  BY <1>1, Invariance, PTL

\* Whatever the listing, the blocks hold each of its instructions once.
THEOREM BlocksArePartition == Spec => []BlocksPartition
<1>1. IInv => BlocksPartition
  BY DEF IInv, RunsOK, Built, BlocksPartition
<1> QED  BY <1>1, Invariance, PTL

\* Whatever the listing, the functions hold each of its instructions once.
THEOREM FunctionsArePartition == Spec => []FunctionsPartition
<1>1. IInv => FunctionsPartition
  BY DEF IInv, RunsOK, FunctionsPartition
<1> QED  BY <1>1, Invariance, PTL

\* In a finished graph the leaders are exactly what the listing asks for.
LEMMA LeadersComplete ==
  ASSUME IInv, Built, NEW k \in DOMAIN code
  PROVE  /\ DirectTarget(code[k]) \in Addresses => DirectTarget(code[k]) \in leaders
         /\ EndsBlock(code[k]) /\ k + 1 <= Len(code) => code[k + 1].at \in leaders
<1>1. LeadersOf(k) \subseteq leaders
  BY DEF IInv, LeadersOK
<1>2. DirectTarget(code[k]) \in Addresses => DirectTarget(code[k]) \in LeadersOf(k)
  BY DEF LeadersOf
<1>3. EndsBlock(code[k]) /\ k + 1 <= Len(code) => code[k + 1].at \in LeadersOf(k)
  BY DEF LeadersOf
<1> QED  BY <1>1, <1>2, <1>3

\* An instruction that is a leader begins a block.
LEMMA LeaderBeginsBlock ==
  ASSUME IInv, Built, NEW k \in DOMAIN code, code[k].at \in leaders
  PROVE  \E b \in DOMAIN blocks : blocks[b].first = k
<1>1. k \in 1 .. Len(code) + 1 - 1
  BY DEF IInv, TypeOK
<1>2. PICK b \in DOMAIN blocks : k \in blocks[b].first .. blocks[b].last
  BY <1>1 DEF IInv, RunsOK, Reached
<1>3. blocks[b].first \in Nat /\ k \in Nat
  <2>1. blocks[b].first \in DOMAIN code
    BY BlockIndices
  <2>2. DOMAIN code \subseteq Nat
    BY DEF IInv, TypeOK
  <2> QED  BY <2>1, <2>2
<1>4. k \notin blocks[b].first + 1 .. blocks[b].last
  BY DEF IInv, BlocksCut
<1>5. blocks[b].first = k
  BY <1>2, <1>3, <1>4
<1> QED  BY <1>5

\* An edge of block b goes to a literal target of its last instruction or to
\* the next block.
LEMMA EdgeTargets ==
  ASSUME NEW b \in DOMAIN blocks, NEW e \in EdgesOf(b)
  PROVE  /\ e.source = StartOf(blocks[b])
         /\ \/ e.target = DirectTarget(code[blocks[b].last]) /\ e.target # NoTarget
            \/ b + 1 <= Len(blocks) /\ e.target = StartOf(blocks[b + 1])
  BY DEF EdgesOf, Edge

\* Whatever the listing, no edge ends inside a block.
THEOREM EdgesEndAtBlocks == Spec => []EdgesLand
<1>1. ASSUME IInv, stage \in {"functions", "done"}, NEW e \in edges, e.target \in Addresses
      PROVE  e.target \in {StartOf(blocks[b]) : b \in DOMAIN blocks}
  <2>1. Built
    BY <1>1 DEF IInv, Loops, Built
  <2>2. PICK b \in DOMAIN blocks : e \in EdgesOf(b)
    BY <1>1 DEF IInv, EdgesOK
  <2>3. CASE e.target = DirectTarget(code[blocks[b].last])
    <3>1. blocks[b].last \in DOMAIN code
      BY <1>1, <2>1, BlockIndices
    <3>2. e.target \in leaders
      BY <1>1, <2>1, <2>3, <3>1, LeadersComplete
    <3>3. PICK k \in DOMAIN code : e.target = code[k].at
      BY <1>1 DEF Addresses
    <3>4. PICK c \in DOMAIN blocks : blocks[c].first = k
      BY <1>1, <2>1, <3>2, <3>3, LeaderBeginsBlock
    <3> QED  BY <3>3, <3>4 DEF StartOf
  <2>4. CASE b + 1 <= Len(blocks) /\ e.target = StartOf(blocks[b + 1])
    <3>1. b + 1 \in DOMAIN blocks
      BY <1>1, <2>4 DEF IInv, TypeOK
    <3> QED  BY <3>1, <2>4
  <2> QED  BY <2>2, <2>3, <2>4, EdgeTargets
<1>2. IInv => EdgesLand
  BY <1>1 DEF EdgesLand
<1> QED  BY <1>2, Invariance, PTL

\* Inside a block nothing is jumped to and nothing ends it.
LEMMA InsideBlock ==
  ASSUME IInv, Built, NEW b \in DOMAIN blocks,
         NEW k \in blocks[b].first + 1 .. blocks[b].last
  PROVE  /\ k \in DOMAIN code /\ k - 1 \in DOMAIN code
         /\ ~Entered(k) /\ ~EndsBlock(code[k - 1])
<1>1. blocks[b].first \in DOMAIN code /\ blocks[b].last \in DOMAIN code
  BY BlockIndices
<1>2. DOMAIN code = 1 .. Len(code) /\ Len(code) \in Nat
  BY DEF IInv, TypeOK
<1>3. k \in DOMAIN code /\ k - 1 \in DOMAIN code /\ k - 1 + 1 = k /\ k <= Len(code)
  BY <1>1, <1>2
<1>4. code[k].at \notin leaders /\ code[k].at \in Addresses
  BY <1>3 DEF IInv, BlocksCut, Addresses
<1>5. ~Entered(k)
  BY <1>4, LeadersComplete DEF Entered
<1>6. ~EndsBlock(code[k - 1])
  <2>1. EndsBlock(code[k - 1]) /\ k - 1 + 1 <= Len(code) => code[k - 1 + 1].at \in leaders
    BY <1>3, LeadersComplete
  <2> QED  BY <2>1, <1>3, <1>4
<1> QED  BY <1>3, <1>5, <1>6

\* Where one block ends and the next begins.
LEMMA NextBlock ==
  ASSUME IInv, Built, NEW b \in DOMAIN blocks, b < Len(blocks)
  PROVE  /\ b + 1 \in DOMAIN blocks /\ b + 1 <= Len(blocks)
         /\ blocks[b + 1].first = blocks[b].last + 1
         /\ blocks[b].last + 1 \in DOMAIN code
<1>1. b + 1 \in DOMAIN blocks /\ b + 1 <= Len(blocks)
  BY DEF IInv, TypeOK
<1>2. blocks[b + 1].first = blocks[b].last + 1
  BY DEF IInv, RunsOK, Covers
<1>3. blocks[b + 1].first \in DOMAIN code
  BY <1>1, BlockIndices
<1> QED  BY <1>1, <1>2, <1>3

\* Whatever the listing, a block is a maximal linear sequence.
THEOREM BlocksAreMaximal == Spec => []BlocksMaximal
<1>1. ASSUME IInv, stage \in {"edges", "functions"}, NEW b \in DOMAIN blocks, b < Len(blocks)
      PROVE  Entered(blocks[b].last + 1) \/ EndsBlock(code[blocks[b].last])
  <2> DEFINE n == blocks[b].last + 1
  <2>1. Built
    BY <1>1 DEF Built
  <2>2. /\ b + 1 \in DOMAIN blocks /\ blocks[b + 1].first = n /\ n \in DOMAIN code
        /\ blocks[b].last \in DOMAIN code /\ DOMAIN code = 1 .. Len(code) /\ Len(code) \in Nat
    BY <1>1, <2>1, NextBlock, BlockIndices DEF IInv, TypeOK
  <2>3. code[n].at \in leaders
    BY <1>1, <2>2 DEF IInv, BlocksCut
  <2>4. CASE code[n].at = code[1].at
    <3>1. 1 \in DOMAIN code
      BY <2>2
    <3>2. n = 1
      BY <1>1, <2>2, <2>4, <3>1, DistinctAddresses DEF IInv
    <3> QED  BY <3>2, <2>2
  <2>5. ASSUME NEW k \in DOMAIN code, code[n].at \in LeadersOf(k)
        PROVE  Entered(n) \/ EndsBlock(code[blocks[b].last])
    <3>1. CASE code[n].at = DirectTarget(code[k])
      BY <3>1 DEF Entered
    <3>2. CASE EndsBlock(code[k]) /\ k + 1 <= Len(code) /\ code[n].at = code[k + 1].at
      <4>1. k + 1 \in DOMAIN code
        BY <3>2, <2>2
      <4>2. n = k + 1
        BY <1>1, <2>2, <3>2, <4>1, DistinctAddresses DEF IInv
      <4>3. blocks[b].last = k
        BY <4>2, <2>2
      <4> QED  BY <4>3, <3>2
    <3> QED  BY <2>5, <3>1, <3>2 DEF LeadersOf
  <2>6. code[n].at = code[1].at \/ \E k \in DOMAIN code : code[n].at \in LeadersOf(k)
    BY <1>1, <2>3 DEF IInv, LeadersOK
  <2> QED  BY <2>4, <2>5, <2>6
<1>2. ASSUME IInv PROVE BlocksMaximal
  <2>1. stage \in {"edges", "functions"} => Built
    BY DEF Built
  <2> QED  BY <1>1, <1>2, <2>1, InsideBlock DEF BlocksMaximal
<1> QED  BY <1>2, Invariance, PTL

\* When the classifiers know every opcode, the successors of an instruction
\* are its direct target and, unless it is a jump or a return, the next one.
LEMMA RecognisedSuccessors ==
  ASSUME IInv, Recognised, NEW k \in DOMAIN code
  PROVE  LET x     == code[k]
             next1 == {code[n].at : n \in {m \in {k + 1} : m <= Len(code)}}
         IN  Successors(k) =
               IF IsReturn(x) THEN {}
               ELSE IF IsCall(x) THEN ({DirectTarget(x)} \ {NoTarget}) \cup next1
               ELSE IF IsUnconditionalJump(x) THEN {DirectTarget(x)} \ {NoTarget}
               ELSE IF IsConditionalJump(x) THEN ({DirectTarget(x)} \ {NoTarget}) \cup next1
               ELSE next1
<1> DEFINE x == code[k]
           next1 == {code[n].at : n \in {m \in {k + 1} : m <= Len(code)}}
<1>1. x \in Instructions
  BY DEF IInv, TypeOK
<1>2. /\ x.op \notin Deferred
      /\ Meaning[x.op] = IF IsReturn(x) THEN "return"
                         ELSE IF IsCall(x) THEN "call"
                         ELSE IF IsUnconditionalJump(x) THEN "jump"
                         ELSE IF IsConditionalJump(x) THEN "branch"
                         ELSE "plain"
  BY <1>1 DEF Recognised
<1>3. Successors(k) = CASE Meaning[x.op] = "return" -> {}
                        [] Meaning[x.op] = "jump"   -> {x.literal} \ {NoTarget}
                        [] Meaning[x.op] \in {"call", "branch"} ->
                             ({x.literal} \ {NoTarget}) \cup next1
                        [] Meaning[x.op] = "plain"  -> next1
  <2>1. Meaning[x.op] \in {"return", "call", "jump", "branch", "plain"}
    BY <1>2
  <2> QED  BY <1>2, <2>1 DEF Successors
<1>4. CASE IsReturn(x)
  BY <1>2, <1>3, <1>4
<1>5. CASE ~IsReturn(x) /\ IsCall(x)
  BY <1>2, <1>3, <1>5 DEF DirectTarget
<1>6. CASE ~IsReturn(x) /\ ~IsCall(x) /\ IsUnconditionalJump(x)
  BY <1>2, <1>3, <1>6 DEF DirectTarget
<1>7. CASE ~IsReturn(x) /\ ~IsCall(x) /\ ~IsUnconditionalJump(x) /\ IsConditionalJump(x)
  BY <1>2, <1>3, <1>7 DEF DirectTarget
<1>8. CASE ~IsReturn(x) /\ ~IsCall(x) /\ ~IsUnconditionalJump(x) /\ ~IsConditionalJump(x)
  BY <1>2, <1>3, <1>8
<1> QED  BY <1>4, <1>5, <1>6, <1>7, <1>8

\* The edges of a block lead to the successors of its last instruction, and to
\* each of them.
LEMMA EdgesAreSuccessors ==
  ASSUME IInv, Built, Recognised, NEW b \in DOMAIN blocks
  PROVE  /\ \A e \in EdgesOf(b) : e.target \in Successors(blocks[b].last)
         /\ \A a \in Successors(blocks[b].last) : \E e \in EdgesOf(b) :
              e.source = StartOf(blocks[b]) /\ e.target = a
<1> DEFINE k     == blocks[b].last
           x     == code[k]
           from  == StartOf(blocks[b])
           taken == {DirectTarget(x)} \ {NoTarget}
           next1 == {code[n].at : n \in {m \in {k + 1} : m <= Len(code)}}
           Taken(kind) == {Edge(from, t, kind) : t \in taken}
           Fall  == {Edge(from, StartOf(blocks[n]), "fallthrough") :
                       n \in {m \in {b + 1} : m <= Len(blocks)}}
<1>1. /\ k \in DOMAIN code /\ DOMAIN code = 1 .. Len(code) /\ Len(code) \in Nat
      /\ DOMAIN blocks = 1 .. Len(blocks) /\ Len(blocks) \in Nat
  BY BlockIndices DEF IInv, TypeOK
<1>2. {StartOf(blocks[n]) : n \in {m \in {b + 1} : m <= Len(blocks)}} = next1
  <2>1. CASE b < Len(blocks)
    <3>1. b + 1 <= Len(blocks) /\ blocks[b + 1].first = k + 1 /\ k + 1 \in DOMAIN code
      BY <2>1, NextBlock
    <3>2. k + 1 <= Len(code) /\ StartOf(blocks[b + 1]) = code[k + 1].at
      BY <3>1, <1>1 DEF StartOf
    <3> HIDE DEF k
    <3> QED  BY <3>1, <3>2
  <2>2. CASE b = Len(blocks)
    <3>1. k = Len(code)
      BY <2>2 DEF IInv, RunsOK, Covers
    <3>2. ~(b + 1 <= Len(blocks)) /\ ~(k + 1 <= Len(code))
      BY <2>2, <3>1, <1>1
    <3> HIDE DEF k
    <3> QED  BY <3>2
  <2>3. b < Len(blocks) \/ b = Len(blocks)
    BY <1>1
  <2> QED  BY <2>1, <2>2, <2>3
<1>3. EdgesOf(b) = IF IsReturn(x) THEN {}
                   ELSE IF IsCall(x) THEN Taken("call") \cup Fall
                   ELSE IF IsUnconditionalJump(x) THEN Taken("branch")
                   ELSE IF IsConditionalJump(x) THEN Taken("branch") \cup Fall
                   ELSE Fall
  BY DEF EdgesOf
<1>4. Successors(k) = IF IsReturn(x) THEN {}
                      ELSE IF IsCall(x) THEN taken \cup next1
                      ELSE IF IsUnconditionalJump(x) THEN taken
                      ELSE IF IsConditionalJump(x) THEN taken \cup next1
                      ELSE next1
  BY <1>1, RecognisedSuccessors
<1>5. /\ \A kind : \A e \in Taken(kind) : e.source = from /\ e.target \in taken
      /\ \A kind : \A t \in taken : \E e \in Taken(kind) : e.source = from /\ e.target = t
      /\ \A e \in Fall : e.source = from /\ e.target \in next1
      /\ \A a \in next1 : \E e \in Fall : e.source = from /\ e.target = a
  <2> HIDE DEF next1, taken, from
  <2>1. \A kind : \A e \in Taken(kind) : e.source = from /\ e.target \in taken
    BY DEF Edge
  <2>2. \A kind : \A t \in taken : \E e \in Taken(kind) : e.source = from /\ e.target = t
    <3> TAKE kind
    <3> TAKE t \in taken
    <3>1. Edge(from, t, kind) \in Taken(kind)
      OBVIOUS
    <3> QED  BY <3>1 DEF Edge
  <2>3. \A e \in Fall : e.source = from /\ e.target \in next1
    BY <1>2 DEF Edge
  <2>4. \A a \in next1 : \E e \in Fall : e.source = from /\ e.target = a
    <3> TAKE a \in next1
    <3>1. PICK n \in {m \in {b + 1} : m <= Len(blocks)} : StartOf(blocks[n]) = a
      BY <1>2
    <3>2. Edge(from, StartOf(blocks[n]), "fallthrough") \in Fall
      OBVIOUS
    <3> QED  BY <3>1, <3>2 DEF Edge
  <2> QED  BY <2>1, <2>2, <2>3, <2>4
<1> HIDE DEF k, x, from, taken, next1, Taken, Fall
<1>6. /\ \A e \in EdgesOf(b) : e.target \in Successors(k)
      /\ \A a \in Successors(k) : \E e \in EdgesOf(b) : e.source = from /\ e.target = a
  <2>1. CASE IsReturn(x)
    BY <2>1, <1>3, <1>4
  <2>2. CASE ~IsReturn(x) /\ IsCall(x)
    BY <2>2, <1>3, <1>4, <1>5
  <2>3. CASE ~IsReturn(x) /\ ~IsCall(x) /\ IsUnconditionalJump(x)
    BY <2>3, <1>3, <1>4, <1>5
  <2>4. CASE ~IsReturn(x) /\ ~IsCall(x) /\ ~IsUnconditionalJump(x) /\ IsConditionalJump(x)
    BY <2>4, <1>3, <1>4, <1>5
  <2>5. CASE ~IsReturn(x) /\ ~IsCall(x) /\ ~IsUnconditionalJump(x) /\ ~IsConditionalJump(x)
    BY <2>5, <1>3, <1>4, <1>5
  <2> QED  BY <2>1, <2>2, <2>3, <2>4, <2>5
<1> QED  BY <1>6 DEF k, from

\* An instruction inside a block is only followed by the next one.
LEMMA InsideSuccessors ==
  ASSUME IInv, Built, Recognised, NEW b \in DOMAIN blocks,
         NEW k \in blocks[b].first .. blocks[b].last - 1
  PROVE  Successors(k) = {code[k + 1].at}
<1>1. /\ blocks[b].first \in DOMAIN code /\ blocks[b].last \in DOMAIN code
      /\ DOMAIN code = 1 .. Len(code) /\ Len(code) \in Nat
  BY BlockIndices DEF IInv, TypeOK
<1>2. k + 1 \in blocks[b].first + 1 .. blocks[b].last /\ k + 1 - 1 = k
  BY <1>1
<1>3. k \in DOMAIN code /\ k + 1 <= Len(code) /\ ~EndsBlock(code[k])
  <2>1. k + 1 \in DOMAIN code /\ k + 1 - 1 \in DOMAIN code /\ ~EndsBlock(code[k + 1 - 1])
    BY <1>2, InsideBlock
  <2> QED  BY <2>1, <1>1, <1>2
<1>4. Successors(k) = {code[n].at : n \in {m \in {k + 1} : m <= Len(code)}}
  BY <1>3, RecognisedSuccessors DEF EndsBlock
<1> QED  BY <1>3, <1>4

\* Whatever the listing, when the classifiers know its opcodes, the graph is
\* the flow of control: all of it, and nothing else.
THEOREM GraphIsTheFlow ==
  ASSUME Recognised
  PROVE  Spec => [](FlowCovered /\ FlowSound)
<1>1. ASSUME IInv, stage \in {"functions", "done"}, NEW b \in DOMAIN blocks
      PROVE  Built /\ EdgesOf(b) \subseteq edges
  BY <1>1 DEF IInv, Loops, Built, EdgesOK
<1>2. ASSUME IInv PROVE FlowCovered
  <2> SUFFICES ASSUME stage \in {"functions", "done"}, NEW b \in DOMAIN blocks
               PROVE  /\ \A k \in blocks[b].first .. blocks[b].last - 1 :
                           Successors(k) = {code[k + 1].at}
                      /\ \A a \in Successors(blocks[b].last) :
                           \E e \in edges : e.source = StartOf(blocks[b]) /\ e.target = a
    BY DEF FlowCovered
  <2>1. Built /\ EdgesOf(b) \subseteq edges
    BY <1>1, <1>2
  <2> QED  BY <2>1, <1>2, InsideSuccessors, EdgesAreSuccessors
<1>3. ASSUME IInv PROVE FlowSound
  <2> SUFFICES ASSUME stage \in {"functions", "done"}, NEW e \in edges
               PROVE  \E b \in DOMAIN blocks :
                        e.source = StartOf(blocks[b]) /\ e.target \in Successors(blocks[b].last)
    BY DEF FlowSound
  <2>1. PICK b \in DOMAIN blocks : e \in EdgesOf(b)
    BY <1>3 DEF IInv, EdgesOK
  <2>2. Built
    BY <1>1, <1>3
  <2> QED  BY <2>1, <2>2, <1>3, EdgeTargets, EdgesAreSuccessors
<1>4. IInv => FlowCovered /\ FlowSound
  BY <1>2, <1>3
<1> QED  BY <1>4, Invariance, PTL

\* No edge is invented, where the classifiers know the opcodes that occur.
THEOREM NoFlowIsInvented ==
  ASSUME Recognised
  PROVE  Spec => []FlowSound
<1>1. Spec => [](FlowCovered /\ FlowSound)
  BY GraphIsTheFlow
<1> QED  BY <1>1, PTL

-----------------------------------------------------------------------------
(* The decompiler's set of returns against the disassembler's.               *)

\* Where the decompiler ends a function, the disassembler ends a block.
ReturnsAgree == \A x \in Instructions : EndsFunction(x) => EndsBlock(x)

\* That is so but for iret, which the disassembler does not know for a return.
LEMMA OnlyInterruptsDisagree ==
  ASSUME \A o \in Opcodes : o.mnemonic \notin InterruptReturns
  PROVE  ReturnsAgree
<1> SUFFICES ASSUME NEW x \in Instructions, EndsFunction(x) PROVE IsReturn(x)
  BY DEF ReturnsAgree, EndsBlock
<1>1. x.op \in Opcodes
  BY DEF Instructions
<1>2. x.op.mnemonic \in {"ret", "retf"} => x.op.prefix = "ret"
  BY <1>1, SpellingAssumption
<1> QED  BY <1>1, <1>2 DEF EndsFunction, IsReturn

\* A function found so far ends at a return, or with the listing.
FunctionEnds ==
  \A f \in DOMAIN functions :
    LET last == functions[f].last
    IN  /\ last \in DOMAIN code
        /\ EndsFunction(code[last]) \/ (stage = "done" /\ last = Len(code))

LEMMA FunctionEndsStep == IInv /\ FunctionEnds /\ [Next]_vars => FunctionEnds'
<1> SUFFICES ASSUME IInv, FunctionEnds, [Next]_vars PROVE FunctionEnds'
  OBVIOUS
<1>0. /\ DOMAIN code = 1 .. Len(code) /\ Len(code) \in Nat
      /\ functions \in Seq(Runs) /\ open \in Nat \ {0} /\ i \in Nat \ {0}
  BY DEF IInv, TypeOK
<1>1. CASE Decode \/ Stop
  <2>1. functions' = <<>>
    BY <1>1 DEF IInv, Loops, Decode, Stop
  <2> QED  BY <2>1 DEF FunctionEnds
<1>2. CASE Lead \/ Collect \/ Flush \/ Connect
  <2>1. stage # "done" /\ UNCHANGED <<code, functions>>
    BY <1>2 DEF Lead, Collect, Flush, Connect
  <2> QED  BY <2>1 DEF FunctionEnds
<1>3. ASSUME NEW n \in DOMAIN code, stage # "done",
             functions' = Append(functions, Run(open, n)), UNCHANGED code,
             EndsFunction(code[n]) \/ (stage' = "done" /\ n = Len(code))
      PROVE  FunctionEnds'
  <2>1. /\ Run(open, n) \in Runs /\ Run(open, n).last = n
    BY <1>0 DEF Run, Runs
  <2>2. /\ DOMAIN functions' = 1 .. Len(functions) + 1
        /\ DOMAIN functions = 1 .. Len(functions)
        /\ \A f \in DOMAIN functions : functions'[f] = functions[f]
        /\ functions'[Len(functions) + 1] = Run(open, n)
    BY <1>0, <1>3, <2>1
  <2>3. ASSUME NEW f \in DOMAIN functions
        PROVE  /\ functions[f].last \in DOMAIN code
               /\ EndsFunction(code[functions[f].last])
    BY <1>3 DEF FunctionEnds
  <2> QED  BY <1>0, <1>3, <2>1, <2>2, <2>3 DEF FunctionEnds
<1>4. CASE Bound
  <2>1. CASE EndsFunction(code[i])
    BY <1>0, <1>3, <1>4, <2>1 DEF Bound
  <2>2. CASE ~EndsFunction(code[i])
    BY <1>4, <2>2 DEF Bound, FunctionEnds
  <2> QED  BY <2>1, <2>2
<1>5. CASE Finish
  <2>1. CASE open <= Len(code)
    <3>1. Len(code) \in DOMAIN code
      BY <1>0, <2>1
    <3> QED  BY <1>3, <1>5, <2>1, <3>1 DEF Finish
  <2>2. CASE ~(open <= Len(code))
    BY <1>5, <2>2 DEF Finish, FunctionEnds
  <2> QED  BY <2>1, <2>2
<1>6. CASE UNCHANGED vars
  BY <1>6 DEF vars, FunctionEnds
<1> QED  BY <1>1, <1>2, <1>4, <1>5, <1>6 DEF Next

LEMMA FunctionEndsInvariant == Spec => []FunctionEnds
<1>1. Init => FunctionEnds
  BY DEF Init, FunctionEnds
<1> QED  BY <1>1, FunctionEndsStep, Invariance, PTL DEF Spec

\* An instruction that ends blocks is the last one of its own.
LEMMA TransferEndsBlock ==
  ASSUME IInv, Built, NEW b \in DOMAIN blocks,
         NEW k \in blocks[b].first .. blocks[b].last, EndsBlock(code[k])
  PROVE  k = blocks[b].last
<1>1. /\ blocks[b].first \in DOMAIN code /\ blocks[b].last \in DOMAIN code
      /\ DOMAIN code = 1 .. Len(code) /\ Len(code) \in Nat
  BY BlockIndices DEF IInv, TypeOK
<1> SUFFICES ASSUME k < blocks[b].last PROVE FALSE
  BY <1>1
<1>2. k + 1 \in blocks[b].first + 1 .. blocks[b].last /\ k + 1 - 1 = k
  BY <1>1
<1>3. k + 1 \in DOMAIN code /\ k + 1 - 1 \in DOMAIN code /\ ~EndsBlock(code[k + 1 - 1])
  BY <1>2, InsideBlock
<1> QED  BY <1>2, <1>3

\* What build_cfg's docstring says, that blocks are split at jumps, calls and
\* returns, is so for opcodes the classifiers know; a run refutes it for others.
THEOREM TransfersAreLast ==
  ASSUME Recognised
  PROVE  Spec => []TransfersEndBlocks
<1>1. ASSUME IInv, stage \in {"functions", "done"}, NEW b \in DOMAIN blocks,
             NEW k \in blocks[b].first .. blocks[b].last - 1
      PROVE  Meaning[code[k].op] = "plain"
  <2>1. Built
    BY <1>1 DEF IInv, Loops, Built
  <2>2. /\ blocks[b].first \in DOMAIN code /\ blocks[b].last \in DOMAIN code
        /\ DOMAIN code = 1 .. Len(code) /\ Len(code) \in Nat
    BY <1>1, <2>1, BlockIndices DEF IInv, TypeOK
  <2>3. k \in DOMAIN code /\ k \in blocks[b].first .. blocks[b].last /\ k # blocks[b].last
    BY <2>2
  <2>4. ~EndsBlock(code[k])
    BY <1>1, <2>1, <2>3, TransferEndsBlock
  <2>5. code[k] \in Instructions
    BY <1>1, <2>2, <2>3 DEF IInv, TypeOK
  <2>6. ~IsReturn(code[k]) /\ ~IsCall(code[k]) /\ ~IsUnconditionalJump(code[k])
        /\ ~IsConditionalJump(code[k])
    BY <2>4 DEF EndsBlock
  <2> QED  BY <2>5, <2>6 DEF Recognised
<1>2. IInv => TransfersEndBlocks
  BY <1>1 DEF TransfersEndBlocks
<1> QED  BY <1>2, Invariance, PTL

\* Whatever the listing: without the returns from interrupts, on which the two
\* definitions of a return part, the two passes never cut a block in half.
THEOREM FunctionsAreOfBlocks ==
  ASSUME \A o \in Opcodes : o.mnemonic \notin InterruptReturns
  PROVE  Spec => []FunctionsOfBlocks
<1>0. ReturnsAgree
  BY OnlyInterruptsDisagree
<1>1. ASSUME IInv, FunctionEnds, stage = "done", NEW f \in DOMAIN functions
      PROVE  \E b \in DOMAIN blocks : blocks[b].last = functions[f].last
  <2> DEFINE k == functions[f].last
  <2>1. k \in DOMAIN code /\ (EndsFunction(code[k]) \/ k = Len(code))
    BY <1>1 DEF FunctionEnds
  <2>2. /\ DOMAIN code = 1 .. Len(code) /\ Len(code) \in Nat /\ code[k] \in Instructions
    BY <1>1, <2>1 DEF IInv, TypeOK
  <2>3. Built
    BY <1>1, <2>1, <2>2 DEF Built
  <2>4. PICK b \in DOMAIN blocks : k \in blocks[b].first .. blocks[b].last
    BY <1>1, <2>1, <2>2, <2>3 DEF IInv, RunsOK, Reached
  <2>5. CASE EndsFunction(code[k])
    <3>1. EndsBlock(code[k])
      BY <1>0, <2>2, <2>5 DEF ReturnsAgree
    <3> HIDE DEF k
    <3>2. k = blocks[b].last
      BY <1>1, <2>3, <2>4, <3>1, TransferEndsBlock
    <3> QED  BY <3>2 DEF k
  <2>6. CASE k = Len(code)
    <3>1. blocks[b].last \in DOMAIN code
      BY <1>1, <2>3, BlockIndices
    <3> QED  BY <2>2, <2>4, <2>6, <3>1
  <2> QED  BY <2>1, <2>5, <2>6
<1>2. IInv /\ FunctionEnds => FunctionsOfBlocks
  BY <1>1 DEF FunctionsOfBlocks
<1> QED  BY <1>2, Invariance, FunctionEndsInvariant, PTL

-----------------------------------------------------------------------------
(* The lifter's tables against the disassembler's.                           *)

\* What the lifter makes of an instruction, and what the graph makes of it.
LiftedKind(x) ==
  IF EndsFunction(x) THEN "return"
  ELSE IF x.op.mnemonic \in LiftedCalls THEN "call"
  ELSE IF x.op.mnemonic \in LiftedJumps THEN "goto"
  ELSE IF IsLiftedBranch(x) THEN "if"
  ELSE "straight"

GraphKind(x) ==
  IF IsReturn(x) THEN "return"
  ELSE IF IsCall(x) THEN "call"
  ELSE IF IsUnconditionalJump(x) THEN "goto"
  ELSE IF IsConditionalJump(x) THEN "if"
  ELSE "straight"

\* The opcodes on which the two sets of tables part: the decompiler has no
\* b.<condition>, takes j for a branch, and the disassembler has no iret.
Divergent(o) == o.prefix = "b." \/ o.mnemonic \in {"j"} \cup InterruptReturns

Straight == {"set", "update", "comment"}

LEMMA TablesAgree ==
  ASSUME NEW x \in Instructions, ~Divergent(x.op)
  PROVE  \/ LiftedKind(x) = GraphKind(x)
         \/ LiftedKind(x) = "straight" /\ GraphKind(x) = "return"
<1> DEFINE m == x.op.mnemonic
           p == x.op.prefix
<1>0. x.op \in Opcodes
  BY DEF Instructions
<1>1. /\ p \in {"j", "b.", "ret", "none"}
      /\ m \in BeginWithJ => p = "j"
      /\ m \in {"ret", "retf"} => p = "ret"
      /\ m \in ListedNames \ BeginWithJ => p = "none"
  BY <1>0, SpellingAssumption
<1>2. CASE ReturnsByRegister(x)
  BY <1>2 DEF LiftedKind, GraphKind, EndsFunction, IsReturn
<1>3. CASE ~ReturnsByRegister(x) /\ p = "ret"
  <2>1. m \notin BeginWithJ \cup ListedNames
    BY <1>1, <1>3
  <2>2. m \notin LiftedCalls \cup LiftedJumps \cup LiftedBranches
    BY <2>1 DEF ListedNames, BeginWithJ, Calls, UnconditionalJumps, ConditionalJumps,
       LiftedCalls, LiftedJumps, LiftedBranches
  <2>3. ~IsLiftedBranch(x)
    BY <1>3, <2>2 DEF IsLiftedBranch
  <2>4. LiftedKind(x) \in {"return", "straight"}
    BY <2>2, <2>3 DEF LiftedKind
  <2> QED  BY <1>3, <2>4 DEF GraphKind, IsReturn
<1>4. CASE ~ReturnsByRegister(x) /\ p # "ret"
  <2>1. ~IsReturn(x) /\ ~EndsFunction(x)
    BY <1>1, <1>4 DEF IsReturn, EndsFunction, Divergent
  <2>2. IsCall(x) <=> m \in LiftedCalls
    BY DEF IsCall, Calls, LiftedCalls
  <2>3. IsUnconditionalJump(x) <=> m \in LiftedJumps
    BY DEF IsUnconditionalJump, UnconditionalJumps, LiftedJumps, Divergent
  <2>4. ~IsUnconditionalJump(x) => (IsConditionalJump(x) <=> IsLiftedBranch(x))
    <3> SUFFICES ASSUME ~IsUnconditionalJump(x) PROVE IsConditionalJump(x) <=> IsLiftedBranch(x)
      OBVIOUS
    <3>1. m \notin UnconditionalJumps /\ m # "jmp" /\ p # "b."
      BY DEF IsUnconditionalJump, UnconditionalJumps, Divergent
    <3>2. CASE p = "j"
      BY <3>1, <3>2 DEF IsConditionalJump, IsLiftedBranch
    <3>3. CASE p # "j"
      <4>1. m \notin BeginWithJ
        BY <1>1, <3>3
      <4>2. m \in ConditionalJumps <=> m \in LiftedBranches
        BY <4>1 DEF BeginWithJ, ConditionalJumps, LiftedBranches
      <4> QED  BY <3>1, <3>3, <4>2 DEF IsConditionalJump, IsLiftedBranch
    <3> QED  BY <3>2, <3>3
  <2> QED  BY <2>1, <2>2, <2>3, <2>4 DEF LiftedKind, GraphKind
<1> QED  BY <1>2, <1>3, <1>4

\* One statement for an instruction, at its address, of its kind, and to the
\* literal it names.
LEMMA LiftedStatement ==
  ASSUME NEW x, NEW declared
  PROVE  LET s == Lifted(x, declared)
         IN  /\ s.at = x.at
             /\ IF LiftedKind(x) = "straight" THEN s.kind \in Straight ELSE s.kind = LiftedKind(x)
             /\ LiftedKind(x) \in {"call", "goto", "if"} /\ x.literal # NoTarget =>
                  s.to = <<"sub", x.literal>>
<1> DEFINE s == Lifted(x, declared)
<1>1. CASE LiftedKind(x) = "straight"
  <2>1. s = Assigned(x, declared)
    BY <1>1 DEF Lifted, LiftedKind
  <2>2. Assigned(x, declared).at = x.at /\ Assigned(x, declared).kind \in Straight
    BY DEF Assigned, Statement, Straight, Loads, Stores, Compound
  <2> QED  BY <1>1, <2>1, <2>2
<1>2. CASE LiftedKind(x) # "straight"
  BY <1>2 DEF Lifted, LiftedKind, Statement, TargetName
<1> QED  BY <1>1, <1>2

\* Runs that cover a listing reach each instruction of it.
LEMMA CoversReached ==
  ASSUME NEW runs \in Seq(Runs), NEW n \in Nat, Covers(runs, n)
  PROVE  Reached(runs, n + 1)
<1> DEFINE S == {m \in Nat : m \in 1 .. n =>
                   \E r \in DOMAIN runs : m \in runs[r].first .. runs[r].last}
<1>1. 0 \in S
  OBVIOUS
<1>2. ASSUME NEW m \in Nat, m \in S PROVE m + 1 \in S
  <2> SUFFICES ASSUME m + 1 \in 1 .. n
               PROVE  \E r \in DOMAIN runs : m + 1 \in runs[r].first .. runs[r].last
    OBVIOUS
  <2>0. DOMAIN runs = 1 .. Len(runs) /\ Len(runs) \in Nat /\ runs # <<>> /\ 1 \in DOMAIN runs
    BY DEF Covers
  <2>1. \A r \in DOMAIN runs : runs[r].first \in Nat /\ runs[r].last \in Nat
                                 /\ runs[r].first <= runs[r].last
    <3>1. \A r \in DOMAIN runs : runs[r] \in Runs
      BY <2>0
    <3> QED  BY <3>1 DEF Runs, Covers
  <2>2. CASE m = 0
    BY <2>0, <2>1, <2>2 DEF Covers
  <2>3. CASE m # 0
    <3>1. PICK r \in DOMAIN runs : m \in runs[r].first .. runs[r].last
      BY <1>2, <2>3
    <3>2. CASE m < runs[r].last
      BY <2>1, <3>1, <3>2
    <3>3. CASE m = runs[r].last
      <4>1. r < Len(runs)
        <5> SUFFICES ASSUME r = Len(runs) PROVE FALSE
          BY <2>0
        <5>1. runs[r].last = n
          BY DEF Covers
        <5> QED  BY <5>1, <3>3
      <4>2. r + 1 \in DOMAIN runs /\ runs[r + 1].first = m + 1
        BY <2>0, <3>3, <4>1 DEF Covers
      <4> QED  BY <2>1, <4>2
    <3> QED  BY <2>1, <3>1, <3>2, <3>3
  <2> QED  BY <2>2, <2>3
<1>3. Nat \subseteq S
  <2> HIDE DEF S
  <2> QED  BY <1>1, <1>2, SetInduction
<1> QED  BY <1>3 DEF Reached

\* The body of a function: one statement for each instruction, with the slots
\* some set of declarations makes variables.
BodyOf(body, run) ==
  \E declared : body = [k \in 1 .. run.last - run.first + 1 |->
                          Lifted(code[run.first + k - 1], declared)]

\* The pseudo-code is that of the functions found.
Decompiled ==
  pseudo # <<>> =>
    /\ stage = "done" /\ functions # <<>> /\ DOMAIN pseudo = DOMAIN functions
    /\ pseudo = [f \in DOMAIN pseudo |-> pseudo[f]]
    /\ \A f \in DOMAIN functions : BodyOf(pseudo[f].body, functions[f])

LEMMA DecompiledInvariant == LiftSpec => [](IInv /\ Decompiled)
<1>1. LiftInit => IInv /\ Decompiled
  BY InitIInv DEF LiftInit, Decompiled
<1>2. IInv /\ [LiftNext]_<<vars, pseudo>> => IInv'
  <2>1. [LiftNext]_<<vars, pseudo>> => [Next]_vars
    BY DEF LiftNext
  <2> QED  BY <2>1, StepInvariance
<1>3. Decompiled /\ [LiftNext]_<<vars, pseudo>> => Decompiled'
  <2> SUFFICES ASSUME Decompiled, [LiftNext]_<<vars, pseudo>> PROVE Decompiled'
    OBVIOUS
  <2>1. ASSUME UNCHANGED <<code, stage, functions, pseudo>> PROVE Decompiled'
    <3>1. \A body, run : BodyOf(body, run)' <=> BodyOf(body, run)
      BY <2>1 DEF BodyOf
    <3> QED  BY <2>1, <3>1 DEF Decompiled
  <2>2. CASE Next /\ UNCHANGED pseudo
    <3>1. stage # "done"
      BY <2>2 DEF Next, Decode, Stop, Lead, Collect, Flush, Connect, Bound, Finish
    <3> QED  BY <2>2, <3>1 DEF Decompiled
  <2>3. CASE Lift /\ UNCHANGED vars
    <3>1. /\ stage' = "done" /\ functions' # <<>> /\ UNCHANGED <<code, functions>>
      BY <2>3 DEF Lift, vars
    <3>2. PICK recognize \in BOOLEAN :
            pseudo' = [f \in DOMAIN functions |-> DecompiledFunction(functions[f], recognize)]
      BY <2>3 DEF Lift
    <3>3. ASSUME NEW run
          PROVE  BodyOf(DecompiledFunction(run, recognize).body, run)
      BY DEF DecompiledFunction, BodyOf
    <3>4. \A f \in DOMAIN functions : BodyOf(pseudo'[f].body, functions[f])
      BY <3>2, <3>3
    <3>5. ASSUME NEW f \in DOMAIN functions' PROVE BodyOf(pseudo[f].body, functions[f])'
      <4>1. BodyOf(pseudo'[f].body, functions[f])
        BY <3>1, <3>4
      <4>2. PICK declared :
              pseudo'[f].body = [k \in 1 .. functions[f].last - functions[f].first + 1 |->
                                   Lifted(code[functions[f].first + k - 1], declared)]
        BY <4>1 DEF BodyOf
      <4>3. pseudo'[f].body = [k \in 1 .. functions'[f].last - functions'[f].first + 1 |->
                                 Lifted(code'[functions'[f].first + k - 1], declared)]
        BY <3>1, <4>2
      <4> QED  BY <4>3 DEF BodyOf
    <3> QED  BY <3>1, <3>2, <3>5 DEF Decompiled
  <2>4. CASE UNCHANGED <<vars, pseudo>>
    BY <2>1, <2>4 DEF vars
  <2> QED  BY <2>2, <2>3, <2>4 DEF LiftNext
<1> QED  BY <1>1, <1>2, <1>3, PTL DEF LiftSpec

\* Instruction k has statement k, lifted from it.
Matched == /\ Len(Body) = Len(code)
           /\ \A k \in DOMAIN code : \E declared : Body[k] = Lifted(code[k], declared)

\* The functions cover the listing, so their bodies joined are the listing lifted.
LEMMA BodyMatches ==
  ASSUME IInv, Decompiled, pseudo # <<>>
  PROVE  Matched
<1> DEFINE n     == Len(functions)
           size  == Len(code)
           parts == [f \in DOMAIN pseudo |-> pseudo[f].body]
           first == [f \in 1 .. n + 1 |-> IF f = n + 1 THEN size + 1 ELSE functions[f].first]
           long(f) == functions[f].last - functions[f].first + 1
<1>1. /\ stage = "done" /\ functions # <<>> /\ functions \in Seq(Runs) /\ n \in Nat \ {0}
      /\ DOMAIN functions = 1 .. n /\ DOMAIN pseudo = 1 .. n
      /\ code \in Seq(Instructions) /\ size \in Nat /\ DOMAIN code = 1 .. size
  BY DEF Decompiled, IInv, TypeOK
<1>2. code # <<>>
  BY <1>1 DEF IInv, Loops
<1>3. Covers(functions, size)
  BY <1>1, <1>2 DEF IInv, RunsOK
<1>4. \A f \in 1 .. n : functions[f].first \in Nat /\ functions[f].last \in Nat
                          /\ functions[f].first <= functions[f].last
  <2>1. \A f \in 1 .. n : functions[f] \in Runs
    BY <1>1
  <2> QED  BY <1>1, <1>3, <2>1 DEF Runs, Covers
<1>5. /\ functions[1].first = 1 /\ functions[n].last = size
      /\ \A f \in 1 .. n : f < n => functions[f + 1].first = functions[f].last + 1
  BY <1>1, <1>3 DEF Covers
<1>6. PICK V : parts \in [1 .. n -> Seq(V)]
  <2> DEFINE V == UNION {{pseudo[f].body[k] : k \in 1 .. long(f)} : f \in 1 .. n}
  <2>1. ASSUME NEW f \in 1 .. n PROVE pseudo[f].body \in Seq(V)
    <3>1. PICK declared : pseudo[f].body = [k \in 1 .. long(f) |->
                            Lifted(code[functions[f].first + k - 1], declared)]
      <4>1. BodyOf(pseudo[f].body, functions[f])
        BY <1>1 DEF Decompiled
      <4> QED  BY <4>1 DEF BodyOf
    <3>2. long(f) \in Nat
      BY <1>4
    <3>3. \A k \in 1 .. long(f) : pseudo[f].body[k] \in V
      OBVIOUS
    <3>4. pseudo[f].body = [k \in 1 .. long(f) |-> pseudo[f].body[k]]
      BY <3>1
    <3> HIDE DEF V, long
    <3>5. pseudo[f].body \in [1 .. long(f) -> V]
      BY <3>3, <3>4
    <3> QED  BY <3>2, <3>5
  <2> HIDE DEF V
  <2>2. parts \in [1 .. n -> Seq(V)]
    BY <1>1, <2>1
  <2> QED  BY <2>2
<1>7. \A f \in 1 .. n : Len(parts[f]) = long(f)
  <2> TAKE f \in 1 .. n
  <2>1. PICK declared : pseudo[f].body = [k \in 1 .. long(f) |->
                          Lifted(code[functions[f].first + k - 1], declared)]
    BY <1>1 DEF Decompiled, BodyOf
  <2>2. long(f) \in Nat
    BY <1>4
  <2>3. parts[f] = pseudo[f].body
    BY <1>1
  <2> HIDE DEF long
  <2> QED  BY <2>1, <2>2, <2>3
<1>8. first \in [1 .. n + 1 -> Nat] /\ Offsets(first, parts, n)
  <2>1. first \in [1 .. n + 1 -> Nat]
    BY <1>1, <1>4
  <2>2. first[1] = 1
    BY <1>1, <1>5
  <2>3. ASSUME NEW f \in 1 .. n PROVE first[f + 1] = first[f] + Len(parts[f])
    <3>1. first[f] = functions[f].first /\ Len(parts[f]) = long(f)
      BY <1>1, <1>7
    <3>2. first[f + 1] = functions[f].last + 1
      BY <1>1, <1>5
    <3> QED  BY <1>4, <3>1, <3>2
  <2> QED  BY <2>1, <2>2, <2>3 DEF Offsets
<1>9. Body = FlattenSeq(parts)
  BY DEF Body
<1>10. InPlace(Body, parts, n, first)
  <2> HIDE DEF parts, first, n
  <2> QED  BY <1>1, <1>6, <1>8, <1>9, FlattenPlaces
<1>11. Len(Body) = size
  BY <1>1, <1>10 DEF InPlace
<1>12. ASSUME NEW k \in DOMAIN code PROVE \E declared : Body[k] = Lifted(code[k], declared)
  <2>1. PICK f \in 1 .. n : k \in functions[f].first .. functions[f].last
    <3>1. Reached(functions, size + 1)
      BY <1>1, <1>3, CoversReached
    <3> QED  BY <1>1, <3>1 DEF Reached
  <2> DEFINE d == k - functions[f].first + 1
  <2>2. d \in 1 .. long(f) /\ functions[f].first + d - 1 = k
    BY <1>4, <2>1
  <2>3. PICK declared : pseudo[f].body = [m \in 1 .. long(f) |->
                          Lifted(code[functions[f].first + m - 1], declared)]
    <3>1. BodyOf(pseudo[f].body, functions[f])
      BY <1>1 DEF Decompiled
    <3> QED  BY <3>1 DEF BodyOf
  <2>4. parts[f] = pseudo[f].body /\ first[f] = functions[f].first
    BY <1>1
  <2>5. Body[first[f] + d - 1] = parts[f][d]
    <3> HIDE DEF d, parts, first, n, long
    <3>1. d \in 1 .. Len(parts[f])
      BY <1>7, <2>2
    <3> QED  BY <1>10, <3>1 DEF InPlace
  <2>6. parts[f][d] = Lifted(code[functions[f].first + d - 1], declared)
    <3> HIDE DEF d, long
    <3> QED  BY <2>2, <2>3, <2>4
  <2> HIDE DEF d, parts, first
  <2>7. Body[k] = Lifted(code[k], declared)
    BY <2>2, <2>4, <2>5, <2>6
  <2> QED  BY <2>7
<1> QED  BY <1>11, <1>12 DEF Matched

\* The edges out of a finished block, by what the graph makes of its last
\* instruction.
LEMMA EdgesByKind ==
  ASSUME IInv, Built, NEW b \in DOMAIN blocks
  PROVE  LET x == code[blocks[b].last]
         IN  /\ {e.kind : e \in EdgesOf(b)} \subseteq
                  CASE GraphKind(x) = "return" -> {}
                    [] GraphKind(x) = "call"   -> {"call", "fallthrough"}
                    [] GraphKind(x) = "goto"   -> {"branch"}
                    [] GraphKind(x) = "if"     -> {"branch", "fallthrough"}
                    [] GraphKind(x) = "straight" -> {"fallthrough"}
             /\ \A e \in EdgesOf(b) : e.kind # "fallthrough" =>
                  /\ GraphKind(x) \in {"call", "goto", "if"}
                  /\ e.target = x.literal /\ x.literal # NoTarget
             /\ GraphKind(x) \in {"call", "if"} /\ b < Len(blocks) =>
                  \E e \in EdgesOf(b) : e.kind = "fallthrough"
<1> DEFINE x    == code[blocks[b].last]
           from == StartOf(blocks[b])
           Taken(kind) == {Edge(from, t, kind) : t \in {DirectTarget(x)} \ {NoTarget}}
           Fall == {Edge(from, StartOf(blocks[m]), "fallthrough") :
                      m \in {l \in {b + 1} : l <= Len(blocks)}}
<1>1. EdgesOf(b) = IF IsReturn(x) THEN {}
                   ELSE IF IsCall(x) THEN Taken("call") \cup Fall
                   ELSE IF IsUnconditionalJump(x) THEN Taken("branch")
                   ELSE IF IsConditionalJump(x) THEN Taken("branch") \cup Fall
                   ELSE Fall
  BY DEF EdgesOf
<1>2. \A e \in Fall : e.kind = "fallthrough"
  BY DEF Edge
<1>3. \A kind : \A e \in Taken(kind) :
        e.kind = kind /\ e.target = DirectTarget(x) /\ e.target # NoTarget
  BY DEF Edge
<1>4. b < Len(blocks) => Fall # {}
  BY NextBlock
<1>5. GraphKind(x) \in {"call", "goto", "if"} => DirectTarget(x) = x.literal
  BY DEF GraphKind, DirectTarget
<1>6. GraphKind(x) = IF IsReturn(x) THEN "return"
                     ELSE IF IsCall(x) THEN "call"
                     ELSE IF IsUnconditionalJump(x) THEN "goto"
                     ELSE IF IsConditionalJump(x) THEN "if"
                     ELSE "straight"
  BY DEF GraphKind
<1> HIDE DEF x, from, Taken, Fall
<1>7. CASE GraphKind(x) = "return"
  BY <1>1, <1>6, <1>7 DEF x
<1>8. CASE GraphKind(x) = "call"
  <2>1. EdgesOf(b) = Taken("call") \cup Fall
    BY <1>1, <1>6, <1>8
  <2> QED  BY <2>1, <1>2, <1>3, <1>4, <1>5, <1>8 DEF x
<1>9. CASE GraphKind(x) = "goto"
  <2>1. EdgesOf(b) = Taken("branch")
    BY <1>1, <1>6, <1>9
  <2> QED  BY <2>1, <1>3, <1>5, <1>9 DEF x
<1>10. CASE GraphKind(x) = "if"
  <2>1. EdgesOf(b) = Taken("branch") \cup Fall
    BY <1>1, <1>6, <1>10
  <2> QED  BY <2>1, <1>2, <1>3, <1>4, <1>5, <1>10 DEF x
<1>11. CASE GraphKind(x) = "straight"
  <2>1. EdgesOf(b) = Fall
    BY <1>1, <1>6, <1>11
  <2> QED  BY <2>1, <1>2, <1>11 DEF x
<1> QED  BY <1>6, <1>7, <1>8, <1>9, <1>10, <1>11 DEF x

\* A run that comes before another ends before it.
LEMMA CoversOrdered ==
  ASSUME NEW runs \in Seq(Runs), NEW n \in Nat, Covers(runs, n)
  PROVE  \A r, s \in DOMAIN runs : r < s => runs[r].last < runs[s].first
<1> DEFINE S == {m \in Nat : m \in DOMAIN runs =>
                   \A r \in DOMAIN runs : r < m => runs[r].last < runs[m].first}
<1>1. DOMAIN runs = 1 .. Len(runs) /\ Len(runs) \in Nat
  OBVIOUS
<1>2. \A r \in DOMAIN runs : runs[r].first \in Nat /\ runs[r].last \in Nat
                               /\ runs[r].first <= runs[r].last
  <2>1. \A r \in DOMAIN runs : runs[r] \in Runs
    BY <1>1
  <2> QED  BY <2>1 DEF Runs, Covers
<1>3. 0 \in S
  BY <1>1
<1>4. ASSUME NEW m \in Nat, m \in S PROVE m + 1 \in S
  <2> SUFFICES ASSUME m + 1 \in DOMAIN runs, NEW r \in DOMAIN runs, r < m + 1
               PROVE  runs[r].last < runs[m + 1].first
    OBVIOUS
  <2>1. m \in DOMAIN runs /\ m < Len(runs) /\ r \in Nat
    BY <1>1
  <2>2. runs[m + 1].first = runs[m].last + 1
    BY <2>1 DEF Covers
  <2>3. CASE r = m
    BY <1>2, <2>1, <2>2, <2>3
  <2>4. CASE r < m
    <3>1. runs[r].last < runs[m].first
      BY <1>4, <2>1, <2>4
    <3> QED  BY <1>2, <2>1, <2>2, <3>1
  <2> QED  BY <2>1, <2>3, <2>4
<1>5. Nat \subseteq S
  <2> HIDE DEF S
  <2> QED  BY <1>3, <1>4, SetInduction
<1> QED  BY <1>1, <1>5

\* The edges that leave the address of a block are the edges of that block.
LEMMA EdgesOut ==
  ASSUME IInv, stage = "done", code # <<>>, NEW b \in DOMAIN blocks
  PROVE  {e \in edges : e.source = StartOf(blocks[b])} = EdgesOf(b)
<1>1. Built /\ blocks \in Seq(Runs) /\ Len(code) \in Nat /\ Covers(blocks, Len(code))
  BY DEF Built, IInv, TypeOK, RunsOK
<1>2. EdgesOf(b) \subseteq edges /\ \A e \in EdgesOf(b) : e.source = StartOf(blocks[b])
  BY EdgeTargets DEF IInv, EdgesOK
<1>3. ASSUME NEW e \in edges, e.source = StartOf(blocks[b]) PROVE e \in EdgesOf(b)
  <2>1. PICK c \in DOMAIN blocks : e \in EdgesOf(c)
    BY DEF IInv, EdgesOK
  <2>2. e.source = StartOf(blocks[c])
    BY <2>1, EdgeTargets
  <2>3. blocks[c].first \in DOMAIN code /\ blocks[b].first \in DOMAIN code
    BY <1>1, BlockIndices
  <2>4. blocks[c].first = blocks[b].first
    BY <1>3, <2>2, <2>3, DistinctAddresses DEF StartOf, IInv
  <2>5. \A r, s \in DOMAIN blocks : r < s => blocks[r].last < blocks[s].first
    BY <1>1, CoversOrdered
  <2>6. /\ blocks[c].first <= blocks[c].last /\ blocks[b].first <= blocks[b].last
        /\ blocks[c].first \in Nat /\ blocks[c].last \in Nat /\ blocks[b].last \in Nat
        /\ b \in Nat /\ c \in Nat
    <3>1. DOMAIN code \subseteq Nat /\ DOMAIN blocks \subseteq Nat
      BY <1>1 DEF IInv, TypeOK
    <3> QED  BY <1>1, <2>3, <3>1, BlockIndices
  <2>7. b = c
    <3>1. ~(b < c)
      BY <2>4, <2>5, <2>6
    <3>2. ~(c < b)
      BY <2>4, <2>5, <2>6
    <3> QED  BY <2>6, <3>1, <3>2
  <2> QED  BY <2>1, <2>7
<1> QED  BY <1>2, <1>3

\* What a block's last statement may be, given the edges that leave the block.
LastMatches(last, out, b) ==
  /\ {e.kind : e \in out} \subseteq
       CASE last.kind = "return" -> {}
         [] last.kind = "call"   -> {"call", "fallthrough"}
         [] last.kind = "goto"   -> {"branch"}
         [] last.kind = "if"     -> {"branch", "fallthrough"}
         [] last.kind \in {"set", "update", "comment"} -> {"fallthrough"}
  /\ \A e \in out : e.kind # "fallthrough" => last.to = <<"sub", e.target>>
  /\ last.kind \in {"call", "if"} /\ b < Len(blocks) =>
       \E e \in out : e.kind = "fallthrough"

LEMMA LastStatementMatches ==
  ASSUME IInv, Built, NEW b \in DOMAIN blocks, NEW declared,
         ~Divergent(code[blocks[b].last].op)
  PROVE  LastMatches(Lifted(code[blocks[b].last], declared), EdgesOf(b), b)
<1> DEFINE x    == code[blocks[b].last]
           last == Lifted(x, declared)
           out  == EdgesOf(b)
<1>1. /\ IF LiftedKind(x) = "straight" THEN last.kind \in Straight
                                   ELSE last.kind = LiftedKind(x)
      /\ LiftedKind(x) \in {"call", "goto", "if"} /\ x.literal # NoTarget =>
           last.to = <<"sub", x.literal>>
  BY LiftedStatement
<1>2. \/ LiftedKind(x) = GraphKind(x)
      \/ LiftedKind(x) = "straight" /\ GraphKind(x) = "return"
  <2>1. x \in Instructions
    BY BlockIndices DEF IInv, TypeOK
  <2> QED  BY <2>1, TablesAgree
<1>3. /\ {e.kind : e \in out} \subseteq
           CASE GraphKind(x) = "return" -> {}
             [] GraphKind(x) = "call"   -> {"call", "fallthrough"}
             [] GraphKind(x) = "goto"   -> {"branch"}
             [] GraphKind(x) = "if"     -> {"branch", "fallthrough"}
             [] GraphKind(x) = "straight" -> {"fallthrough"}
      /\ \A e \in out : e.kind # "fallthrough" =>
           /\ GraphKind(x) \in {"call", "goto", "if"}
           /\ e.target = x.literal /\ x.literal # NoTarget
      /\ GraphKind(x) \in {"call", "if"} /\ b < Len(blocks) =>
           \E e \in out : e.kind = "fallthrough"
  BY EdgesByKind
<1>4. LiftedKind(x) \in {"return", "call", "goto", "if", "straight"}
  BY DEF LiftedKind
<1> HIDE DEF x, last, out
<1>5. \A e \in out : e.kind # "fallthrough" => last.to = <<"sub", e.target>>
  BY <1>1, <1>2, <1>3
<1>6. last.kind \in {"call", "if"} /\ b < Len(blocks) => \E e \in out : e.kind = "fallthrough"
  BY <1>1, <1>2, <1>3 DEF Straight
<1>7. {e.kind : e \in out} \subseteq
        CASE last.kind = "return" -> {}
          [] last.kind = "call"   -> {"call", "fallthrough"}
          [] last.kind = "goto"   -> {"branch"}
          [] last.kind = "if"     -> {"branch", "fallthrough"}
          [] last.kind \in {"set", "update", "comment"} -> {"fallthrough"}
  <2>1. CASE LiftedKind(x) = "return"
    BY <1>1, <1>2, <1>3, <2>1 DEF Straight
  <2>2. CASE LiftedKind(x) = "call"
    BY <1>1, <1>2, <1>3, <2>2 DEF Straight
  <2>3. CASE LiftedKind(x) = "goto"
    BY <1>1, <1>2, <1>3, <2>3 DEF Straight
  <2>4. CASE LiftedKind(x) = "if"
    BY <1>1, <1>2, <1>3, <2>4 DEF Straight
  <2>5. CASE LiftedKind(x) = "straight"
    BY <1>1, <1>2, <1>3, <2>5 DEF Straight
  <2> QED  BY <1>4, <2>1, <2>2, <2>3, <2>4, <2>5
<1>8. LastMatches(last, out, b)
  BY <1>5, <1>6, <1>7 DEF LastMatches
<1> QED  BY <1>8 DEF x, last, out

\* Whatever the listing: the pseudo-code tells the story of the graph, for every
\* opcode but those on which the two sets of tables part.
THEOREM PseudoCodeFollowsTheGraph ==
  ASSUME \A o \in Opcodes : ~Divergent(o)
  PROVE  LiftSpec => []LiftFollowsGraph
<1>1. ASSUME IInv, Decompiled, pseudo # <<>> PROVE LiftFollowsGraph
  <2>1. /\ stage = "done" /\ functions # <<>> /\ code \in Seq(Instructions)
        /\ DOMAIN code = 1 .. Len(code) /\ Len(code) \in Nat
    BY <1>1 DEF Decompiled, IInv, TypeOK
  <2>2. code # <<>> /\ Built
    BY <1>1, <2>1 DEF IInv, Loops, Built
  <2>3. \A k \in DOMAIN code : ~Divergent(code[k].op)
    <3>1. \A k \in DOMAIN code : code[k] \in Instructions
      BY <2>1
    <3> QED  BY <3>1 DEF Instructions
  <2>4. Matched
    BY <1>1, BodyMatches
  <2>5. \A k \in DOMAIN code : Body[k].at = code[k].at
    <3> TAKE k \in DOMAIN code
    <3>1. PICK declared : Body[k] = Lifted(code[k], declared)
      BY <2>4 DEF Matched
    <3> QED  BY <3>1, LiftedStatement
  <2>6. ASSUME NEW b \in DOMAIN blocks, NEW k \in blocks[b].first .. blocks[b].last - 1
        PROVE  Body[k].kind \in {"set", "update", "comment"}
    <3>1. blocks[b].first \in DOMAIN code /\ blocks[b].last \in DOMAIN code
      BY <1>1, <2>2, BlockIndices
    <3>2. k \in DOMAIN code /\ ~EndsBlock(code[k])
      BY <1>1, <2>1, <2>2, <3>1, TransferEndsBlock
    <3>3. PICK declared : Body[k] = Lifted(code[k], declared)
      BY <2>4, <3>2 DEF Matched
    <3>4. GraphKind(code[k]) = "straight"
      BY <3>2 DEF GraphKind, EndsBlock
    <3>5. LiftedKind(code[k]) = "straight"
      BY <2>1, <2>3, <3>2, <3>4, TablesAgree
    <3> QED  BY <3>3, <3>5, LiftedStatement DEF Straight
  <2>7. ASSUME NEW b \in DOMAIN blocks
        PROVE  LastMatches(Body[blocks[b].last],
                           {e \in edges : e.source = StartOf(blocks[b])}, b)
    <3>1. blocks[b].last \in DOMAIN code
      BY <1>1, <2>2, BlockIndices
    <3>2. PICK declared : Body[blocks[b].last] = Lifted(code[blocks[b].last], declared)
      BY <2>4, <3>1 DEF Matched
    <3>3. LastMatches(Lifted(code[blocks[b].last], declared), EdgesOf(b), b)
      BY <1>1, <2>2, <2>3, <3>1, LastStatementMatches
    <3> QED  BY <1>1, <2>1, <2>2, <3>2, <3>3, EdgesOut
  <2> QED  BY <2>4, <2>5, <2>6, <2>7 DEF LiftFollowsGraph, LastMatches, Matched
<1>2. IInv /\ Decompiled => LiftFollowsGraph
  BY <1>1 DEF LiftFollowsGraph
<1> QED  BY <1>2, DecompiledInvariant, PTL

\* What the lifter's lists of jumps and branches, and its test for a leading j,
\* say of an opcode is what the manual says.
NamesTrue(x) ==
  /\ x.op.mnemonic \in LiftedJumps => Meaning[x.op] = "jump"
  /\ x.op.mnemonic \in LiftedBranches => Meaning[x.op] = "branch"
  /\ x.op.prefix = "j" /\ x.op.mnemonic \notin {"jmp", "jal"} /\ ~EndsFunction(x) =>
       Meaning[x.op] = "branch"

\* What one statement claims is what its instruction does.
LEMMA StatementInventsNothing ==
  ASSUME NEW x, NEW declared,
         NamesTrue(x),
         x.op.mnemonic \in Compound => Len(Parts[x.op.register]) \in 0 .. 2
  PROVE  LET s == Lifted(x, declared)
         IN  /\ s.kind = "if" => Meaning[x.op] = "branch"
             /\ s.kind = "goto" => Meaning[x.op] = "jump"
             /\ s.kind = "update" => Len(Parts[x.op.register]) = 2
<1> DEFINE s == Lifted(x, declared)
<1>1. IF LiftedKind(x) = "straight" THEN s.kind \in Straight ELSE s.kind = LiftedKind(x)
  BY LiftedStatement
<1>2. ASSUME s.kind = "if" PROVE Meaning[x.op] = "branch"
  <2>1. LiftedKind(x) = "if"
    BY <1>1, <1>2 DEF Straight
  <2>2. ~EndsFunction(x) /\ x.op.mnemonic \notin LiftedCalls \cup LiftedJumps /\ IsLiftedBranch(x)
    BY <2>1 DEF LiftedKind
  <2>3. x.op.mnemonic \notin {"jmp", "jal"}
    BY <2>2 DEF LiftedCalls, LiftedJumps
  <2> QED  BY <2>2, <2>3 DEF IsLiftedBranch, NamesTrue
<1>3. ASSUME s.kind = "goto" PROVE Meaning[x.op] = "jump"
  <2>1. LiftedKind(x) = "goto"
    BY <1>1, <1>3 DEF Straight
  <2> QED  BY <2>1 DEF LiftedKind, NamesTrue
<1>4. ASSUME s.kind = "update" PROVE Len(Parts[x.op.register]) = 2
  <2>1. LiftedKind(x) = "straight"
    BY <1>1, <1>4 DEF LiftedKind
  <2>2. s = Assigned(x, declared)
    BY <2>1 DEF Lifted, LiftedKind
  <2>3. Len(Parts[x.op.register]) >= 2 /\ x.op.mnemonic \in Compound
    BY <1>4, <2>2 DEF Assigned, Statement, Loads, Stores, Compound
  <2> DEFINE operands == Len(Parts[x.op.register])
  <2>4. operands >= 2 /\ operands \in 0 .. 2
    BY <2>3
  <2> HIDE DEF operands
  <2>5. operands = 2
    BY <2>4
  <2> QED  BY <2>5 DEF operands
<1> QED  BY <1>2, <1>3, <1>4

\* src/README.md's "the output never invents behavior" is so where the lifter's
\* names are true of the architecture and no arithmetic has three operands; the
\* run lift_invents refutes it without either.
THEOREM PseudoCodeInventsNothing ==
  ASSUME \A x \in Instructions :
           /\ NamesTrue(x)
           /\ x.op.mnemonic \in Compound => Len(Parts[x.op.register]) \in 0 .. 2
  PROVE  LiftSpec => []LiftInventsNothing
<1>1. ASSUME IInv, Decompiled, NEW k \in DOMAIN Body
      PROVE  /\ Body[k].kind = "if" => Meaning[code[k].op] = "branch"
             /\ Body[k].kind = "goto" => Meaning[code[k].op] = "jump"
             /\ Body[k].kind = "update" => Len(Parts[code[k].op.register]) = 2
  <2>1. pseudo # <<>>
    <3> SUFFICES ASSUME pseudo = <<>> PROVE FALSE
      OBVIOUS
    <3>1. [f \in DOMAIN pseudo |-> pseudo[f].body] = <<>>
      OBVIOUS
    <3>2. Body = <<>>
      BY <3>1 DEF Body, FlattenSeq
    <3> QED  BY <1>1, <3>2
  <2>2. Matched
    BY <1>1, <2>1, BodyMatches
  <2>3. code \in Seq(Instructions)
    BY <1>1 DEF IInv, TypeOK
  <2>4. k \in DOMAIN code
    BY <1>1, <2>2, <2>3 DEF Matched
  <2>5. PICK declared : Body[k] = Lifted(code[k], declared)
    BY <2>2, <2>4 DEF Matched
  <2>6. code[k] \in Instructions
    BY <2>3, <2>4
  <2> QED  BY <2>5, <2>6, StatementInventsNothing
<1>2. IInv /\ Decompiled => LiftInventsNothing
  BY <1>1 DEF LiftInventsNothing
<1> QED  BY <1>2, DecompiledInvariant, PTL

-----------------------------------------------------------------------------
(***************************************************************************)
(* The patch diff.  A delta tells of one instruction of the baseline, of   *)
(* one of the current listing, or of both; what the deltas of a window do  *)
(* not tell of is kept, and what is kept corresponds.                      *)
(***************************************************************************)
Side == {<<>>} \cup {<<x>> : x \in Instructions}

Deltas == [kind : {"replaced", "removed", "added"}, before : Side, after : Side]

\* A sequence of sides tells, in order and each once, of what is in A and not in S.
Tells(side, A, S) ==
  /\ S \subseteq A
  /\ \A d \in 1 .. Len(side) : side[d] # <<>> => side[d][1] \in A \ S
  /\ \A x \in A \ S : \E d \in 1 .. Len(side) : side[d] # <<>> /\ side[d][1] = x
  /\ \A d, e \in 1 .. Len(side) :
       d < e /\ side[d] # <<>> /\ side[e] # <<>> => side[d][1].at < side[e][1].at

Precede(A, B) == \A x \in A : \A y \in B : x.at < y.at

\* The pairs in M say which instruction of A is which of B.
Corresponds(M) ==
  \A p, q \in M : /\ p[1].at < q[1].at <=> p[2].at < q[2].at
                  /\ InstructionKey(p[1]) = InstructionKey(p[2])

BeforeSide(ds) == [d \in DOMAIN ds |-> ds[d].before]

AfterSide(ds) == [d \in DOMAIN ds |-> ds[d].after]

Certifies(M, ds, A, B) ==
  /\ M \subseteq A \X B /\ Corresponds(M)
  /\ Tells(BeforeSide(ds), A, {p[1] : p \in M})
  /\ Tells(AfterSide(ds), B, {p[2] : p \in M})

Ascends(s) == \A m, n \in 1 .. Len(s) : m < n => s[m].at < s[n].at

LEMMA InstructionAt == \A x \in Instructions : x.at \in Nat
  BY DEF Instructions

LEMMA TellsConcat ==
  ASSUME NEW s \in Seq(Side), NEW t \in Seq(Side),
         NEW A \in SUBSET Instructions, NEW B \in SUBSET Instructions, NEW S, NEW T,
         Precede(A, B), Tells(s, A, S), Tells(t, B, T)
  PROVE  Tells(s \o t, A \cup B, S \cup T)
<1> DEFINE u == s \o t
           p == Len(s)
           q == Len(t)
<1>1. /\ Len(u) = p + q
      /\ \A k \in 1 .. p : u[k] = s[k]
      /\ \A k \in 1 .. q : u[p + k] = t[k]
  BY ConcatElements
<1>2. p \in Nat /\ q \in Nat
  OBVIOUS
<1>3. /\ S \subseteq A
      /\ \A d \in 1 .. p : s[d] # <<>> => s[d][1] \in A \ S
      /\ \A x \in A \ S : \E d \in 1 .. p : s[d] # <<>> /\ s[d][1] = x
      /\ \A d, e \in 1 .. p : d < e /\ s[d] # <<>> /\ s[e] # <<>> => s[d][1].at < s[e][1].at
  BY DEF Tells
<1>4. /\ T \subseteq B
      /\ \A d \in 1 .. q : t[d] # <<>> => t[d][1] \in B \ T
      /\ \A x \in B \ T : \E d \in 1 .. q : t[d] # <<>> /\ t[d][1] = x
      /\ \A d, e \in 1 .. q : d < e /\ t[d] # <<>> /\ t[e] # <<>> => t[d][1].at < t[e][1].at
  BY DEF Tells
<1> HIDE DEF u, p, q
<1>5. \A x \in A : x \notin B
  <2> SUFFICES ASSUME NEW x \in A, x \in B PROVE FALSE
    OBVIOUS
  <2>1. x.at < x.at /\ x.at \in Nat
    BY InstructionAt DEF Precede
  <2> QED
    BY <2>1
<1>6. (A \cup B) \ (S \cup T) = (A \ S) \cup (B \ T)
  BY <1>3, <1>4, <1>5
<1>7. ASSUME NEW d \in 1 .. p + q
      PROVE  \/ d \in 1 .. p /\ u[d] = s[d]
             \/ d > p /\ d - p \in 1 .. q /\ u[d] = t[d - p]
  <2>1. CASE d <= p
    BY <1>1, <1>2, <2>1
  <2>2. CASE d > p
    <3>1. d - p \in 1 .. q /\ p + (d - p) = d
      BY <1>2, <2>2
    <3>2. u[p + (d - p)] = t[d - p]
      BY <1>1, <3>1
    <3> QED
      BY <2>2, <3>1, <3>2
  <2> QED
    BY <1>2, <2>1, <2>2
<1>8. ASSUME NEW d \in 1 .. p + q, u[d] # <<>>
      PROVE  u[d][1] \in (A \ S) \cup (B \ T)
  BY <1>3, <1>4, <1>7, <1>8
<1>9. ASSUME NEW x \in (A \ S) \cup (B \ T)
      PROVE  \E d \in 1 .. p + q : u[d] # <<>> /\ u[d][1] = x
  <2>1. CASE x \in A \ S
    <3>1. PICK d \in 1 .. p : s[d] # <<>> /\ s[d][1] = x
      BY <1>3, <2>1
    <3>2. d \in 1 .. p + q /\ u[d] = s[d]
      BY <1>1, <1>2
    <3> QED
      BY <3>1, <3>2
  <2>2. CASE x \in B \ T
    <3>1. PICK d \in 1 .. q : t[d] # <<>> /\ t[d][1] = x
      BY <1>4, <2>2
    <3>2. p + d \in 1 .. p + q /\ u[p + d] = t[d]
      BY <1>1, <1>2
    <3> QED
      BY <3>1, <3>2
  <2> QED
    BY <2>1, <2>2
<1>10. ASSUME NEW d \in 1 .. p + q, NEW e \in 1 .. p + q, d < e, u[d] # <<>>, u[e] # <<>>
       PROVE  u[d][1].at < u[e][1].at
  <2>1. CASE d \in 1 .. p /\ u[d] = s[d]
    <3>1. CASE e \in 1 .. p /\ u[e] = s[e]
      BY <1>3, <1>10, <2>1, <3>1
    <3>2. CASE e > p /\ e - p \in 1 .. q /\ u[e] = t[e - p]
      <4>1. u[d][1] \in A /\ u[e][1] \in B
        BY <1>3, <1>4, <1>10, <2>1, <3>2
      <4> QED
        BY <4>1 DEF Precede
    <3> QED
      BY <1>7, <3>1, <3>2
  <2>2. CASE d > p /\ d - p \in 1 .. q /\ u[d] = t[d - p]
    <3>1. e > p /\ d - p < e - p
      BY <1>2, <1>10, <2>2
    <3>2. e - p \in 1 .. q /\ u[e] = t[e - p]
      BY <1>2, <1>7, <3>1
    <3>3. t[d - p] # <<>> /\ t[e - p] # <<>>
      BY <1>10, <2>2, <3>2
    <3>4. t[d - p][1].at < t[e - p][1].at
      BY <1>4, <2>2, <3>1, <3>2, <3>3
    <3> QED
      BY <2>2, <3>2, <3>4
  <2> QED
    BY <1>7, <2>1, <2>2
<1>11. S \cup T \subseteq A \cup B
  BY <1>3, <1>4
<1> QED
  BY <1>1, <1>6, <1>8, <1>9, <1>10, <1>11 DEF Tells, u

LEMMA SidesTyped ==
  ASSUME NEW ds \in Seq(Deltas)
  PROVE  /\ BeforeSide(ds) \in Seq(Side) /\ Len(BeforeSide(ds)) = Len(ds)
         /\ AfterSide(ds) \in Seq(Side) /\ Len(AfterSide(ds)) = Len(ds)
         /\ \A d \in 1 .. Len(ds) : /\ BeforeSide(ds)[d] = ds[d].before
                                    /\ AfterSide(ds)[d] = ds[d].after
<1> DEFINE n == Len(ds)
<1>1. n \in Nat /\ DOMAIN ds = 1 .. n /\ ds \in [1 .. n -> Deltas]
  OBVIOUS
<1>2. \A x \in Deltas : x.before \in Side /\ x.after \in Side
  BY DEF Deltas
<1> HIDE DEF n
<1>3. BeforeSide(ds) = [d \in 1 .. n |-> ds[d].before] /\ AfterSide(ds) = [d \in 1 .. n |-> ds[d].after]
  BY <1>1 DEF BeforeSide, AfterSide
<1>4. BeforeSide(ds) \in [1 .. n -> Side] /\ AfterSide(ds) \in [1 .. n -> Side]
  BY <1>1, <1>2, <1>3
<1> QED
  BY <1>1, <1>3, <1>4 DEF n

LEMMA SidesConcat ==
  ASSUME NEW ds \in Seq(Deltas), NEW es \in Seq(Deltas)
  PROVE  /\ BeforeSide(ds \o es) = BeforeSide(ds) \o BeforeSide(es)
         /\ AfterSide(ds \o es) = AfterSide(ds) \o AfterSide(es)
<1> DEFINE us == ds \o es
           m == Len(ds)
           n == Len(es)
           b == BeforeSide(ds) \o BeforeSide(es)
           a == AfterSide(ds) \o AfterSide(es)
<1>1. /\ us \in Seq(Deltas) /\ Len(us) = m + n
      /\ \A k \in 1 .. m : us[k] = ds[k]
      /\ \A k \in 1 .. n : us[m + k] = es[k]
  BY ConcatElements
<1>2. m \in Nat /\ n \in Nat
  OBVIOUS
<1>3. /\ b \in Seq(Side) /\ Len(b) = m + n
      /\ \A k \in 1 .. m : b[k] = ds[k].before
      /\ \A k \in 1 .. n : b[m + k] = es[k].before
  <2> DEFINE s == BeforeSide(ds)
             t == BeforeSide(es)
  <2>1. s \in Seq(Side) /\ Len(s) = m /\ t \in Seq(Side) /\ Len(t) = n
    BY SidesTyped
  <2>3. (\A k \in 1 .. m : s[k] = ds[k].before) /\ (\A k \in 1 .. n : t[k] = es[k].before)
    BY SidesTyped
  <2> HIDE DEF s, t, m, n
  <2>2. /\ s \o t \in Seq(Side) /\ Len(s \o t) = m + n
        /\ \A k \in 1 .. m : (s \o t)[k] = s[k]
        /\ \A k \in 1 .. n : (s \o t)[m + k] = t[k]
    <3>1. s \in Seq(Side) /\ t \in Seq(Side)
      BY <2>1
    <3>2. /\ s \o t \in Seq(Side) /\ Len(s \o t) = Len(s) + Len(t)
          /\ \A k \in 1 .. Len(s) : (s \o t)[k] = s[k]
          /\ \A k \in 1 .. Len(t) : (s \o t)[Len(s) + k] = t[k]
      BY <3>1, ConcatElements
    <3>3. Len(s) = m /\ Len(t) = n
      BY <2>1
    <3> QED
      BY <3>2, <3>3
  <2> QED
    BY <2>2, <2>3 DEF s, t
<1>4. /\ a \in Seq(Side) /\ Len(a) = m + n
      /\ \A k \in 1 .. m : a[k] = ds[k].after
      /\ \A k \in 1 .. n : a[m + k] = es[k].after
  <2> DEFINE s == AfterSide(ds)
             t == AfterSide(es)
  <2>1. s \in Seq(Side) /\ Len(s) = m /\ t \in Seq(Side) /\ Len(t) = n
    BY SidesTyped
  <2>3. (\A k \in 1 .. m : s[k] = ds[k].after) /\ (\A k \in 1 .. n : t[k] = es[k].after)
    BY SidesTyped
  <2> HIDE DEF s, t, m, n
  <2>2. /\ s \o t \in Seq(Side) /\ Len(s \o t) = m + n
        /\ \A k \in 1 .. m : (s \o t)[k] = s[k]
        /\ \A k \in 1 .. n : (s \o t)[m + k] = t[k]
    <3>1. s \in Seq(Side) /\ t \in Seq(Side)
      BY <2>1
    <3>2. /\ s \o t \in Seq(Side) /\ Len(s \o t) = Len(s) + Len(t)
          /\ \A k \in 1 .. Len(s) : (s \o t)[k] = s[k]
          /\ \A k \in 1 .. Len(t) : (s \o t)[Len(s) + k] = t[k]
      BY <3>1, ConcatElements
    <3>3. Len(s) = m /\ Len(t) = n
      BY <2>1
    <3> QED
      BY <3>2, <3>3
  <2> QED
    BY <2>2, <2>3 DEF s, t
<1>5. /\ BeforeSide(us) \in Seq(Side) /\ Len(BeforeSide(us)) = m + n
      /\ AfterSide(us) \in Seq(Side) /\ Len(AfterSide(us)) = m + n
      /\ \A d \in 1 .. m + n : /\ BeforeSide(us)[d] = us[d].before
                               /\ AfterSide(us)[d] = us[d].after
  BY <1>1, SidesTyped
<1> HIDE DEF us, m, n, a, b
<1>6. ASSUME NEW d \in 1 .. m + n
      PROVE  b[d] = us[d].before /\ a[d] = us[d].after
  <2>1. CASE d <= m
    <3>1. d \in 1 .. m
      BY <1>2, <2>1
    <3> QED
      BY <1>1, <1>3, <1>4, <3>1
  <2>2. CASE d > m
    <3>1. d - m \in 1 .. n /\ m + (d - m) = d
      BY <1>2, <2>2
    <3>2. b[m + (d - m)] = es[d - m].before /\ a[m + (d - m)] = es[d - m].after
          /\ us[m + (d - m)] = es[d - m]
      BY <1>1, <1>3, <1>4, <3>1
    <3> QED
      BY <3>1, <3>2
  <2> QED
    BY <1>2, <2>1, <2>2
<1>7. BeforeSide(us) = b
  BY <1>3, <1>5, <1>6, SameElements
<1>8. AfterSide(us) = a
  BY <1>4, <1>5, <1>6, SameElements
<1> QED
  BY <1>7, <1>8 DEF us, a, b

LEMMA CertifiesConcat ==
  ASSUME NEW ds \in Seq(Deltas), NEW es \in Seq(Deltas),
         NEW A \in SUBSET Instructions, NEW B \in SUBSET Instructions,
         NEW C \in SUBSET Instructions, NEW D \in SUBSET Instructions, NEW M, NEW N,
         Precede(A, C), Precede(B, D), Certifies(M, ds, A, B), Certifies(N, es, C, D)
  PROVE  Certifies(M \cup N, ds \o es, A \cup C, B \cup D)
<1>1. /\ BeforeSide(ds) \in Seq(Side) /\ AfterSide(ds) \in Seq(Side)
      /\ BeforeSide(es) \in Seq(Side) /\ AfterSide(es) \in Seq(Side)
  BY SidesTyped
<1>2. /\ Tells(BeforeSide(ds), A, {p[1] : p \in M}) /\ Tells(AfterSide(ds), B, {p[2] : p \in M})
      /\ Tells(BeforeSide(es), C, {p[1] : p \in N}) /\ Tells(AfterSide(es), D, {p[2] : p \in N})
  BY DEF Certifies
<1>3. /\ {p[1] : p \in M \cup N} = {p[1] : p \in M} \cup {p[1] : p \in N}
      /\ {p[2] : p \in M \cup N} = {p[2] : p \in M} \cup {p[2] : p \in N}
  OBVIOUS
<1>4. Tells(BeforeSide(ds) \o BeforeSide(es), A \cup C, {p[1] : p \in M} \cup {p[1] : p \in N})
  BY <1>1, <1>2, TellsConcat
<1>5. Tells(AfterSide(ds) \o AfterSide(es), B \cup D, {p[2] : p \in M} \cup {p[2] : p \in N})
  BY <1>1, <1>2, TellsConcat
<1>6. /\ Tells(BeforeSide(ds \o es), A \cup C, {p[1] : p \in M \cup N})
      /\ Tells(AfterSide(ds \o es), B \cup D, {p[2] : p \in M \cup N})
  BY <1>3, <1>4, <1>5, SidesConcat
<1>7. M \subseteq A \X B /\ N \subseteq C \X D /\ Corresponds(M) /\ Corresponds(N)
  BY DEF Certifies
<1>8. Corresponds(M \cup N)
  <2>1. ASSUME NEW p \in M, NEW q \in N
        PROVE  /\ p[1].at < q[1].at /\ p[2].at < q[2].at
               /\ ~(q[1].at < p[1].at) /\ ~(q[2].at < p[2].at)
    <3>1. p[1] \in A /\ q[1] \in C /\ p[2] \in B /\ q[2] \in D
      BY <1>7
    <3>2. p[1].at < q[1].at /\ p[2].at < q[2].at
      BY <3>1 DEF Precede
    <3>3. p[1].at \in Nat /\ q[1].at \in Nat /\ p[2].at \in Nat /\ q[2].at \in Nat
      BY <3>1, InstructionAt
    <3> QED
      BY <3>2, <3>3
  <2>2. ASSUME NEW p \in M \cup N, NEW q \in M \cup N
        PROVE  /\ p[1].at < q[1].at <=> p[2].at < q[2].at
               /\ InstructionKey(p[1]) = InstructionKey(p[2])
    <3>1. CASE p \in M /\ q \in M
      BY <1>7, <3>1 DEF Corresponds
    <3>2. CASE p \in N /\ q \in N
      BY <1>7, <3>2 DEF Corresponds
    <3>3. CASE p \in M /\ q \in N
      BY <1>7, <2>1, <3>3 DEF Corresponds
    <3>4. CASE p \in N /\ q \in M
      BY <1>7, <2>1, <3>4 DEF Corresponds
    <3> QED
      BY <3>1, <3>2, <3>3, <3>4
  <2> QED
    BY <2>2 DEF Corresponds
<1>9. M \cup N \subseteq (A \cup C) \X (B \cup D)
  BY <1>7
<1> QED
  BY <1>6, <1>8, <1>9 DEF Certifies

\* A run of instructions is told of, one by one.
LEMMA TellsAll ==
  ASSUME NEW n \in Nat, NEW s \in [1 .. n -> Instructions],
         \A j, k \in 1 .. n : j < k => s[j].at < s[k].at,
         NEW side, side = [k \in 1 .. n |-> <<s[k]>>]
  PROVE  Tells(side, {s[k] : k \in 1 .. n}, {})
<1>1. side \in Seq(Side) /\ Len(side) = n
  <2>1. \A k \in 1 .. n : <<s[k]>> \in Side
    BY DEF Side
  <2> QED
    BY <2>1
<1>2. \A k \in 1 .. n : side[k] # <<>> /\ side[k][1] = s[k]
  OBVIOUS
<1> DEFINE A == {s[k] : k \in 1 .. n}
<1>3. /\ \A k \in 1 .. n : side[k][1] \in A
      /\ \A x \in A : \E k \in 1 .. n : side[k][1] = x
  BY <1>2
<1>4. \A j, k \in 1 .. n : j < k => side[j][1].at < side[k][1].at
  BY <1>2
<1> HIDE DEF A
<1>5. {} \subseteq A /\ A \ {} = A
  OBVIOUS
<1>6. Tells(side, A, {})
  BY <1>1, <1>2, <1>3, <1>4, <1>5 DEF Tells
<1> QED
  BY <1>6 DEF A

LEMMA TellsNothing ==
  ASSUME NEW side, \A k \in 1 .. Len(side) : side[k] = <<>>
  PROVE  Tells(side, {}, {})
  BY DEF Tells

LEMMA CertifiesChanges ==
  ASSUME NEW ds, NEW A, NEW B, Tells(BeforeSide(ds), A, {}), Tells(AfterSide(ds), B, {})
  PROVE  Certifies({}, ds, A, B)
<1>1. {p[1] : p \in {}} = {} /\ {p[2] : p \in {}} = {}
  OBVIOUS
<1> QED
  BY <1>1 DEF Certifies, Corresponds

LEMMA DeltaTyped ==
  ASSUME NEW kind \in {"replaced", "removed", "added"}, NEW x \in Side, NEW y \in Side
  PROVE  /\ Delta(kind, x, y) \in Deltas
         /\ Delta(kind, x, y).before = x /\ Delta(kind, x, y).after = y
  BY DEF Delta, Deltas

\* What replaces, what removes and what adds.
LEMMA ReplacedCertified ==
  ASSUME NEW n \in Nat, NEW s \in [1 .. n -> Instructions], NEW t \in [1 .. n -> Instructions],
         \A j, k \in 1 .. n : j < k => s[j].at < s[k].at,
         \A j, k \in 1 .. n : j < k => t[j].at < t[k].at,
         NEW ds, ds = [k \in 1 .. n |-> Delta("replaced", <<s[k]>>, <<t[k]>>)]
  PROVE  /\ ds \in Seq(Deltas)
         /\ Certifies({}, ds, {s[k] : k \in 1 .. n}, {t[k] : k \in 1 .. n})
<1>1. \A k \in 1 .. n : <<s[k]>> \in Side /\ <<t[k]>> \in Side
  BY DEF Side
<1>2. ASSUME NEW k \in 1 .. n
      PROVE  ds[k] \in Deltas /\ ds[k].before = <<s[k]>> /\ ds[k].after = <<t[k]>>
  <2> DEFINE x == <<s[k]>>
             y == <<t[k]>>
  <2>1. ds[k] = Delta("replaced", x, y)
    OBVIOUS
  <2>2. x \in Side /\ y \in Side
    BY <1>1
  <2> HIDE DEF x, y
  <2>3. ds[k] \in Deltas /\ ds[k].before = x /\ ds[k].after = y
    BY <2>1, <2>2, DeltaTyped
  <2> QED
    BY <2>3 DEF x, y
<1>3. ds \in Seq(Deltas) /\ DOMAIN ds = 1 .. n
  BY <1>2
<1>4. /\ BeforeSide(ds) = [k \in 1 .. n |-> <<s[k]>>]
      /\ AfterSide(ds) = [k \in 1 .. n |-> <<t[k]>>]
  BY <1>2, <1>3 DEF BeforeSide, AfterSide
<1>5. /\ Tells(BeforeSide(ds), {s[k] : k \in 1 .. n}, {})
      /\ Tells(AfterSide(ds), {t[k] : k \in 1 .. n}, {})
  BY <1>4, TellsAll
<1> QED
  BY <1>3, <1>5, CertifiesChanges

LEMMA RemovedCertified ==
  ASSUME NEW n \in Nat, NEW s \in [1 .. n -> Instructions],
         \A j, k \in 1 .. n : j < k => s[j].at < s[k].at,
         NEW ds, ds = [k \in 1 .. n |-> Delta("removed", <<s[k]>>, <<>>)]
  PROVE  ds \in Seq(Deltas) /\ Certifies({}, ds, {s[k] : k \in 1 .. n}, {})
<1>1. \A k \in 1 .. n : <<s[k]>> \in Side /\ <<>> \in Side
  BY DEF Side
<1>2. \A k \in 1 .. n : ds[k] \in Deltas /\ ds[k].before = <<s[k]>> /\ ds[k].after = <<>>
  BY <1>1, DeltaTyped
<1>3. ds \in Seq(Deltas) /\ DOMAIN ds = 1 .. n /\ Len(ds) = n
  BY <1>2
<1>4. BeforeSide(ds) = [k \in 1 .. n |-> <<s[k]>>]
  BY <1>2, <1>3 DEF BeforeSide
<1>5. Tells(BeforeSide(ds), {s[k] : k \in 1 .. n}, {})
  BY <1>4, TellsAll
<1>6. \A k \in 1 .. Len(AfterSide(ds)) : AfterSide(ds)[k] = <<>>
  <2>1. ds \in Seq(Deltas)
    BY <1>3
  <2>2. Len(AfterSide(ds)) = Len(ds) /\ \A k \in 1 .. Len(ds) : AfterSide(ds)[k] = ds[k].after
    BY <2>1, SidesTyped
  <2>3. Len(ds) = n /\ \A k \in 1 .. n : ds[k].after = <<>>
    BY <1>2, <1>3
  <2> QED
    BY <2>2, <2>3
<1>7. Tells(AfterSide(ds), {}, {})
  BY <1>6, TellsNothing
<1> QED
  BY <1>3, <1>5, <1>7, CertifiesChanges

LEMMA AddedCertified ==
  ASSUME NEW n \in Nat, NEW s \in [1 .. n -> Instructions],
         \A j, k \in 1 .. n : j < k => s[j].at < s[k].at,
         NEW ds, ds = [k \in 1 .. n |-> Delta("added", <<>>, <<s[k]>>)]
  PROVE  ds \in Seq(Deltas) /\ Certifies({}, ds, {}, {s[k] : k \in 1 .. n})
<1>1. \A k \in 1 .. n : <<s[k]>> \in Side /\ <<>> \in Side
  BY DEF Side
<1>2. \A k \in 1 .. n : ds[k] \in Deltas /\ ds[k].before = <<>> /\ ds[k].after = <<s[k]>>
  BY <1>1, DeltaTyped
<1>3. ds \in Seq(Deltas) /\ DOMAIN ds = 1 .. n /\ Len(ds) = n
  BY <1>2
<1>4. AfterSide(ds) = [k \in 1 .. n |-> <<s[k]>>]
  BY <1>2, <1>3 DEF AfterSide
<1>5. Tells(AfterSide(ds), {s[k] : k \in 1 .. n}, {})
  BY <1>4, TellsAll
<1>6. \A k \in 1 .. Len(BeforeSide(ds)) : BeforeSide(ds)[k] = <<>>
  <2>1. ds \in Seq(Deltas)
    BY <1>3
  <2>2. Len(BeforeSide(ds)) = Len(ds) /\ \A k \in 1 .. Len(ds) : BeforeSide(ds)[k] = ds[k].before
    BY <2>1, SidesTyped
  <2>3. Len(ds) = n /\ \A k \in 1 .. n : ds[k].before = <<>>
    BY <1>2, <1>3
  <2> QED
    BY <2>2, <2>3
<1>7. Tells(BeforeSide(ds), {}, {})
  BY <1>6, TellsNothing
<1> QED
  BY <1>3, <1>5, <1>7, CertifiesChanges

\* Changes tells of everything on both sides.
LEMMA ChangesCertified ==
  ASSUME NEW a \in Seq(Instructions), NEW b \in Seq(Instructions), Ascends(a), Ascends(b)
  PROVE  Changes(a, b) \in Seq(Deltas) /\ Certifies({}, Changes(a, b), Range(a), Range(b))
<1> DEFINE p == Len(a)
           q == Len(b)
           m == Min({p, q})
           s1 == [k \in 1 .. m |-> a[k]]
           s2 == [k \in 1 .. p - m |-> a[m + k]]
           t1 == [k \in 1 .. m |-> b[k]]
           t2 == [k \in 1 .. q - m |-> b[m + k]]
           ds1 == [k \in 1 .. m |-> Delta("replaced", <<a[k]>>, <<b[k]>>)]
           ds2 == [k \in 1 .. p - m |-> Delta("removed", <<a[m + k]>>, <<>>)]
           ds3 == [k \in 1 .. q - m |-> Delta("added", <<>>, <<b[m + k]>>)]
           A1 == {s1[k] : k \in 1 .. m}
           A2 == {s2[k] : k \in 1 .. p - m}
           B1 == {t1[k] : k \in 1 .. m}
           B2 == {t2[k] : k \in 1 .. q - m}
<1>1. /\ p \in Nat /\ q \in Nat
      /\ \A k \in 1 .. p : a[k] \in Instructions
      /\ \A k \in 1 .. q : b[k] \in Instructions
      /\ Range(a) = {a[k] : k \in 1 .. p} /\ Range(b) = {b[k] : k \in 1 .. q}
  BY DEF Range
<1>2. m \in Nat /\ m <= p /\ m <= q
  BY <1>1, LeastOfTwo
<1>3. /\ \A j, k \in 1 .. p : j < k => a[j].at < a[k].at
      /\ \A j, k \in 1 .. q : j < k => b[j].at < b[k].at
  BY DEF Ascends
<1>4. Changes(a, b) = ds1 \o ds2 \o ds3
  BY DEF Changes
<1> HIDE DEF p, q, m
<1>5. /\ s1 \in [1 .. m -> Instructions] /\ t1 \in [1 .. m -> Instructions]
      /\ p - m \in Nat /\ s2 \in [1 .. p - m -> Instructions]
      /\ q - m \in Nat /\ t2 \in [1 .. q - m -> Instructions]
  BY <1>1, <1>2
<1>6. /\ \A j, k \in 1 .. m : j < k => s1[j].at < s1[k].at
      /\ \A j, k \in 1 .. m : j < k => t1[j].at < t1[k].at
  BY <1>1, <1>2, <1>3
<1>7. \A j, k \in 1 .. p - m : j < k => s2[j].at < s2[k].at
  <2> SUFFICES ASSUME NEW j \in 1 .. p - m, NEW k \in 1 .. p - m, j < k
               PROVE  s2[j].at < s2[k].at
    OBVIOUS
  <2>1. m + j \in 1 .. p /\ m + k \in 1 .. p /\ m + j < m + k
    BY <1>1, <1>2
  <2> QED
    BY <1>3, <2>1
<1>8. \A j, k \in 1 .. q - m : j < k => t2[j].at < t2[k].at
  <2> SUFFICES ASSUME NEW j \in 1 .. q - m, NEW k \in 1 .. q - m, j < k
               PROVE  t2[j].at < t2[k].at
    OBVIOUS
  <2>1. m + j \in 1 .. q /\ m + k \in 1 .. q /\ m + j < m + k
    BY <1>1, <1>2
  <2> QED
    BY <1>3, <2>1
<1>9. /\ ds1 = [k \in 1 .. m |-> Delta("replaced", <<s1[k]>>, <<t1[k]>>)]
      /\ ds2 = [k \in 1 .. p - m |-> Delta("removed", <<s2[k]>>, <<>>)]
      /\ ds3 = [k \in 1 .. q - m |-> Delta("added", <<>>, <<t2[k]>>)]
  OBVIOUS
<1>10. Precede(A1, A2) /\ Precede(B1, B2)
  <2>1. ASSUME NEW j \in 1 .. m, NEW k \in 1 .. p - m PROVE s1[j].at < s2[k].at
    <3>1. j \in 1 .. p /\ m + k \in 1 .. p /\ j < m + k
      BY <1>1, <1>2
    <3> QED
      BY <1>3, <3>1
  <2>2. ASSUME NEW j \in 1 .. m, NEW k \in 1 .. q - m PROVE t1[j].at < t2[k].at
    <3>1. j \in 1 .. q /\ m + k \in 1 .. q /\ j < m + k
      BY <1>1, <1>2
    <3> QED
      BY <1>3, <3>1
  <2> HIDE DEF s1, s2, t1, t2
  <2> QED
    BY <2>1, <2>2 DEF Precede
<1>11. /\ A1 \in SUBSET Instructions /\ A2 \in SUBSET Instructions
       /\ B1 \in SUBSET Instructions /\ B2 \in SUBSET Instructions
  <2> HIDE DEF s1, s2, t1, t2
  <2> QED
    BY <1>5
<1>12. A1 \cup A2 = Range(a)
  <2>1. ASSUME NEW k \in 1 .. p PROVE a[k] \in A1 \cup A2
    <3>1. CASE k <= m
      <4>1. k \in 1 .. m /\ s1[k] = a[k]
        BY <1>1, <1>2, <3>1
      <4> QED
        BY <4>1
    <3>2. CASE k > m
      <4>1. k - m \in 1 .. p - m /\ m + (k - m) = k
        BY <1>1, <1>2, <3>2
      <4>2. s2[k - m] = a[k]
        BY <4>1
      <4> HIDE DEF s2
      <4> QED
        BY <4>1, <4>2
    <3> QED
      BY <1>2, <3>1, <3>2
  <2>2. \A k \in 1 .. m : k \in 1 .. p /\ s1[k] = a[k]
    BY <1>1, <1>2
  <2>3. \A k \in 1 .. p - m : m + k \in 1 .. p /\ s2[k] = a[m + k]
    BY <1>1, <1>2
  <2> HIDE DEF s1, s2
  <2>4. Range(a) \subseteq A1 \cup A2
    <3> HIDE DEF A1, A2
    <3> QED
      BY <1>1, <2>1
  <2>5. A1 \subseteq Range(a)
    BY <1>1, <2>2
  <2>6. A2 \subseteq Range(a)
    BY <1>1, <2>3
  <2> HIDE DEF A1, A2
  <2> QED
    BY <2>4, <2>5, <2>6
<1>13. B1 \cup B2 = Range(b)
  <2>1. ASSUME NEW k \in 1 .. q PROVE b[k] \in B1 \cup B2
    <3>1. CASE k <= m
      <4>1. k \in 1 .. m /\ t1[k] = b[k]
        BY <1>1, <1>2, <3>1
      <4> QED
        BY <4>1
    <3>2. CASE k > m
      <4>1. k - m \in 1 .. q - m /\ m + (k - m) = k
        BY <1>1, <1>2, <3>2
      <4>2. t2[k - m] = b[k]
        BY <4>1
      <4> HIDE DEF t2
      <4> QED
        BY <4>1, <4>2
    <3> QED
      BY <1>2, <3>1, <3>2
  <2>2. \A k \in 1 .. m : k \in 1 .. q /\ t1[k] = b[k]
    BY <1>1, <1>2
  <2>3. \A k \in 1 .. q - m : m + k \in 1 .. q /\ t2[k] = b[m + k]
    BY <1>1, <1>2
  <2> HIDE DEF t1, t2
  <2>4. Range(b) \subseteq B1 \cup B2
    <3> HIDE DEF B1, B2
    <3> QED
      BY <1>1, <2>1
  <2>5. B1 \subseteq Range(b)
    BY <1>1, <2>2
  <2>6. B2 \subseteq Range(b)
    BY <1>1, <2>3
  <2> HIDE DEF B1, B2
  <2> QED
    BY <2>4, <2>5, <2>6
<1> HIDE DEF s1, s2, t1, t2, ds1, ds2, ds3
<1>14. ds1 \in Seq(Deltas) /\ Certifies({}, ds1, A1, B1)
  BY <1>2, <1>5, <1>6, <1>9, ReplacedCertified
<1>15. ds2 \in Seq(Deltas) /\ Certifies({}, ds2, A2, {})
  BY <1>5, <1>7, <1>9, RemovedCertified
<1>16. ds3 \in Seq(Deltas) /\ Certifies({}, ds3, {}, B2)
  BY <1>5, <1>8, <1>9, AddedCertified
<1> HIDE DEF A1, A2, B1, B2
<1>17. ds1 \o ds2 \in Seq(Deltas) /\ ds1 \o ds2 \o ds3 \in Seq(Deltas)
  BY <1>14, <1>15, <1>16, ConcatElements
<1>18. /\ Precede(B1, {}) /\ Precede(A1 \cup A2, {}) /\ B1 \cup {} = B1
       /\ (A1 \cup A2) \cup {} = A1 \cup A2 /\ {} \cup {} = {}
       /\ {} \in SUBSET Instructions /\ A1 \cup A2 \in SUBSET Instructions
  BY <1>11 DEF Precede
<1>19. Certifies({} \cup {}, ds1 \o ds2, A1 \cup A2, B1 \cup {})
  BY <1>10, <1>11, <1>14, <1>15, <1>18, CertifiesConcat
<1>20. Certifies({}, ds1 \o ds2, A1 \cup A2, B1)
  BY <1>18, <1>19
<1>21. Certifies({} \cup {}, (ds1 \o ds2) \o ds3, (A1 \cup A2) \cup {}, B1 \cup B2)
  BY <1>10, <1>11, <1>16, <1>17, <1>18, <1>20, CertifiesConcat
<1> QED
  BY <1>4, <1>12, <1>13, <1>17, <1>18, <1>21

(***************************************************************************)
(* The windows of the matcher.                                             *)
(***************************************************************************)
LEMMA WindowBounds ==
  ASSUME NEW a \in Seq(Instructions), NEW b \in Seq(Instructions), NEW w \in Windows(a, b)
  PROVE  /\ Len(a) \in Nat /\ Len(b) \in Nat
         /\ w.alo \in 1 .. Len(a) + 1 /\ w.ahi \in 1 .. Len(a) + 1
         /\ w.blo \in 1 .. Len(b) + 1 /\ w.bhi \in 1 .. Len(b) + 1
  BY DEF Windows

LEMMA MatchPlace ==
  ASSUME NEW a \in Seq(Instructions), NEW b \in Seq(Instructions), NEW w \in Windows(a, b),
         NEW m \in Matches(a, b, w)
  PROVE  /\ m[1] \in w.alo .. w.ahi - 1 /\ m[2] \in w.blo .. w.bhi - 1
         /\ m[3] \in 1 .. w.ahi - w.alo /\ m[1] + m[3] <= w.ahi /\ m[2] + m[3] <= w.bhi
         /\ \A d \in 0 .. m[3] - 1 : InstructionKey(a[m[1] + d]) = InstructionKey(b[m[2] + d])
  BY DEF Matches

\* As long as any, the first one of a, then of b.
LongestFirst(m, S) ==
  \A l \in S : \/ l[3] < m[3]
               \/ l[3] = m[3] /\ m[1] < l[1]
               \/ l[3] = m[3] /\ m[1] = l[1] /\ m[2] <= l[2]

LEMMA LongestMatchIs ==
  ASSUME NEW a \in Seq(Instructions), NEW b \in Seq(Instructions), NEW w \in Windows(a, b),
         Matches(a, b, w) # {}
  PROVE  /\ LongestMatch(a, b, w) \in Matches(a, b, w)
         /\ LongestFirst(LongestMatch(a, b, w), Matches(a, b, w))
<1> DEFINE S == Matches(a, b, w)
           n == Len(a) + 1
           tops == {l[3] : l \in S}
           top == Max(tops)
           firsts == {l[1] : l \in {m \in S : m[3] = top}}
           first == Min(firsts)
           seconds == {l[2] : l \in {m \in S : m[3] = top /\ m[1] = first}}
           second == Min(seconds)
<1>0. n \in Nat
  OBVIOUS
<1>1. /\ n \in Nat
      /\ \A l \in S : l[3] \in 0 .. n /\ l[1] \in Nat /\ l[2] \in Nat
  <2>1. Len(a) \in Nat /\ w.alo \in 1 .. n /\ w.ahi \in 1 .. n /\ w.blo \in Nat
    BY WindowBounds
  <2> HIDE DEF n
  <2>2. ASSUME NEW l \in S PROVE l[3] \in 0 .. n /\ l[1] \in Nat /\ l[2] \in Nat
    <3>1. l[1] \in w.alo .. w.ahi - 1 /\ l[2] \in w.blo .. w.bhi - 1 /\ l[3] \in 1 .. w.ahi - w.alo
      BY MatchPlace
    <3> DEFINE g == w.alo
               h == w.ahi
               k == w.blo
               x == l[1]
               y == l[2]
               z == l[3]
    <3>2. /\ x \in g .. h - 1 /\ y \in k .. w.bhi - 1 /\ z \in 1 .. h - g
          /\ g \in 1 .. n /\ h \in 1 .. n /\ k \in Nat
      BY <2>1, <3>1
    <3> HIDE DEF g, h, k, x, y, z
    <3>3. z \in 0 .. n /\ x \in Nat /\ y \in Nat
      BY <1>0, <3>2
    <3> QED
      BY <3>3 DEF x, y, z
  <2> QED
    BY <1>0, <2>2
<1>2. S # {}
  OBVIOUS
<1> HIDE DEF S, n
<1>3. tops \in SUBSET (0 .. n) /\ tops # {}
  BY <1>1, <1>2
<1>4. top \in tops /\ \A x \in tops : x <= top
  <2> HIDE DEF tops
  <2> QED
    BY <1>1, <1>3, MaxIsGreatest
<1> HIDE DEF top
<1>5. firsts \in SUBSET Nat /\ firsts # {}
  BY <1>1, <1>4
<1>6. first \in firsts /\ \A x \in firsts : first <= x
  <2> HIDE DEF firsts
  <2> QED
    BY <1>5, MinIsLeast
<1> HIDE DEF first
<1>7. seconds \in SUBSET Nat /\ seconds # {}
  BY <1>1, <1>6
<1>8. second \in seconds /\ \A x \in seconds : second <= x
  <2> HIDE DEF seconds
  <2> QED
    BY <1>7, MinIsLeast
<1> HIDE DEF second
<1>9. PICK m \in S : m[3] = top /\ m[1] = first /\ m[2] = second
  BY <1>8
<1>10. ASSUME NEW l \in S
       PROVE  \/ l[3] < m[3]
              \/ l[3] = m[3] /\ m[1] < l[1]
              \/ l[3] = m[3] /\ m[1] = l[1] /\ m[2] <= l[2]
  <2>1. l[3] <= top /\ l[3] \in Nat /\ top \in Nat
    BY <1>1, <1>4, <1>9
  <2>2. CASE l[3] # top
    BY <1>9, <2>1, <2>2
  <2>3. CASE l[3] = top
    <3>1. first <= l[1] /\ l[1] \in Nat /\ first \in Nat
      BY <1>1, <1>5, <1>6, <2>3
    <3>2. CASE l[1] # first
      BY <1>9, <2>3, <3>1, <3>2
    <3>3. CASE l[1] = first
      <4>1. second <= l[2]
        BY <1>8, <2>3, <3>3
      <4> QED
        BY <1>9, <2>3, <3>3, <4>1
    <3> QED
      BY <3>2, <3>3
  <2> QED
    BY <2>2, <2>3
<1>11. LongestFirst(m, S)
  BY <1>10 DEF LongestFirst
<1>12. LongestMatch(a, b, w) = CHOOSE l \in S : LongestFirst(l, S)
  BY DEF LongestMatch, LongestFirst, S
<1>13. LongestMatch(a, b, w) \in S /\ LongestFirst(LongestMatch(a, b, w), S)
  BY <1>11, <1>12
<1> QED
  BY <1>13 DEF S

\* What is left of a window on either side of a match.
LEMMA AroundMatch ==
  ASSUME NEW a \in Seq(Instructions), NEW b \in Seq(Instructions), NEW w \in Windows(a, b),
         NEW m \in Matches(a, b, w)
  PROVE  /\ BeforeMatch(w, m) \in Windows(a, b)
         /\ BeforeMatch(w, m).alo = w.alo /\ BeforeMatch(w, m).ahi = m[1]
         /\ BeforeMatch(w, m).blo = w.blo /\ BeforeMatch(w, m).bhi = m[2]
         /\ AfterMatch(w, m) \in Windows(a, b)
         /\ AfterMatch(w, m).alo = m[1] + m[3] /\ AfterMatch(w, m).ahi = w.ahi
         /\ AfterMatch(w, m).blo = m[2] + m[3] /\ AfterMatch(w, m).bhi = w.bhi
<1> DEFINE p == Len(a) + 1
           q == Len(b) + 1
<1>1. /\ p \in Nat /\ q \in Nat /\ w.alo \in 1 .. p /\ w.ahi \in 1 .. p
      /\ w.blo \in 1 .. q /\ w.bhi \in 1 .. q
  BY WindowBounds
<1>2. /\ m[1] \in w.alo .. w.ahi - 1 /\ m[2] \in w.blo .. w.bhi - 1
      /\ m[3] \in 1 .. w.ahi - w.alo /\ m[1] + m[3] <= w.ahi /\ m[2] + m[3] <= w.bhi
  BY MatchPlace
<1>3. Windows(a, b) = [alo : 1 .. p, ahi : 1 .. p, blo : 1 .. q, bhi : 1 .. q]
  BY DEF Windows
<1> HIDE DEF p, q
<1>4. m[1] \in 1 .. p /\ m[2] \in 1 .. q /\ m[1] + m[3] \in 1 .. p /\ m[2] + m[3] \in 1 .. q
  <2> DEFINE x == m[1]
             y == m[2]
             z == m[3]
             g == w.alo
             h == w.ahi
             k == w.blo
             l == w.bhi
  <2>1. /\ x \in g .. h - 1 /\ y \in k .. l - 1 /\ z \in 1 .. h - g /\ x + z <= h /\ y + z <= l
        /\ p \in Nat /\ q \in Nat /\ g \in 1 .. p /\ h \in 1 .. p /\ k \in 1 .. q /\ l \in 1 .. q
    BY <1>1, <1>2
  <2> HIDE DEF x, y, z, g, h, k, l
  <2>2. x \in 1 .. p /\ y \in 1 .. q /\ x + z \in 1 .. p /\ y + z \in 1 .. q
    BY <2>1
  <2> QED
    BY <2>2 DEF x, y, z
<1>5. /\ BeforeMatch(w, m) = [alo |-> w.alo, ahi |-> m[1], blo |-> w.blo, bhi |-> m[2]]
      /\ AfterMatch(w, m) = [alo |-> m[1] + m[3], ahi |-> w.ahi, blo |-> m[2] + m[3],
                             bhi |-> w.bhi]
  BY DEF BeforeMatch, AfterMatch, Window
<1> QED
  BY <1>1, <1>3, <1>4, <1>5

\* The instructions of a window on one side.
Part(s, lo, hi) == {s[k] : k \in lo .. hi - 1}

LEMMA WindowPart ==
  ASSUME NEW s \in Seq(Instructions), Ascends(s),
         NEW lo \in 1 .. Len(s) + 1, NEW hi \in 1 .. Len(s) + 1
  PROVE  /\ SubSeq(s, lo, hi - 1) \in Seq(Instructions)
         /\ Ascends(SubSeq(s, lo, hi - 1))
         /\ Range(SubSeq(s, lo, hi - 1)) = Part(s, lo, hi)
         /\ Part(s, lo, hi) \in SUBSET Instructions
<1> DEFINE t == SubSeq(s, lo, hi - 1)
           n == Len(s)
           m == hi - lo
<1>1. n \in Nat /\ lo \in 1 .. n + 1 /\ hi \in 1 .. n + 1 /\ \A k \in 1 .. n : s[k] \in Instructions
  OBVIOUS
<1>2. \A j, k \in 1 .. n : j < k => s[j].at < s[k].at
  BY DEF Ascends
<1>3. CASE lo < hi
  <2>1. lo \in 1 .. n /\ hi - 1 \in lo .. n /\ m \in Nat /\ (hi - 1) - lo + 1 = m
    BY <1>1, <1>3
  <2>2. /\ t \in Seq(Instructions) /\ Len(t) = (hi - 1) - lo + 1
        /\ \A k \in 1 .. (hi - 1) - lo + 1 : t[k] = s[lo + k - 1]
    BY <2>1, PartOf
  <2> HIDE DEF t, n, m
  <2>3. t \in Seq(Instructions) /\ Len(t) = m /\ \A k \in 1 .. m : t[k] = s[lo + k - 1]
    BY <2>1, <2>2
  <2>4. Ascends(t)
    <3> SUFFICES ASSUME NEW j \in 1 .. m, NEW k \in 1 .. m, j < k PROVE t[j].at < t[k].at
      BY <2>3 DEF Ascends
    <3>1. lo + j - 1 \in 1 .. n /\ lo + k - 1 \in 1 .. n /\ lo + j - 1 < lo + k - 1
      BY <1>1, <2>1 DEF m
    <3> QED
      BY <1>2, <2>3, <3>1
  <2>5. Range(t) = {t[k] : k \in 1 .. m}
    BY <2>3 DEF Range
  <2>6. ASSUME NEW k \in 1 .. m PROVE t[k] \in Part(s, lo, hi)
    <3>1. lo + k - 1 \in lo .. hi - 1
      BY <1>1, <2>1 DEF m
    <3> QED
      BY <2>3, <3>1 DEF Part
  <2>7. ASSUME NEW k \in lo .. hi - 1 PROVE \E j \in 1 .. m : t[j] = s[k]
    <3>1. k - lo + 1 \in 1 .. m /\ lo + (k - lo + 1) - 1 = k
      BY <1>1, <2>1 DEF m
    <3> QED
      BY <2>3, <3>1
  <2>8. Range(t) = Part(s, lo, hi)
    BY <2>5, <2>6, <2>7 DEF Part
  <2>9. Part(s, lo, hi) \subseteq Instructions
    <3>1. \A k \in lo .. hi - 1 : k \in 1 .. n
      BY <1>1
    <3> QED
      BY <1>1, <3>1 DEF Part
  <2> QED
    BY <2>3, <2>4, <2>8, <2>9 DEF t
<1>4. CASE ~(lo < hi)
  <2>1. t = <<>> /\ lo .. hi - 1 = {}
    BY <1>1, <1>4
  <2> QED
    BY <2>1 DEF Ascends, Range, Part
<1> QED
  BY <1>3, <1>4

Unmatched(a, b, w) == Changes(SubSeq(a, w.alo, w.ahi - 1), SubSeq(b, w.blo, w.bhi - 1))

\* The diff of every window.
WithinBy(f, a, b) ==
  f = [w \in Windows(a, b) |->
         IF Matches(a, b, w) = {} THEN Unmatched(a, b, w)
         ELSE f[BeforeMatch(w, LongestMatch(a, b, w))]
                \o f[AfterMatch(w, LongestMatch(a, b, w))]]

LEMMA UnmatchedCertified ==
  ASSUME NEW a \in Seq(Instructions), NEW b \in Seq(Instructions), Ascends(a), Ascends(b),
         NEW w \in Windows(a, b)
  PROVE  /\ Unmatched(a, b, w) \in Seq(Deltas)
         /\ Certifies({}, Unmatched(a, b, w), Part(a, w.alo, w.ahi), Part(b, w.blo, w.bhi))
<1>1. /\ w.alo \in 1 .. Len(a) + 1 /\ w.ahi \in 1 .. Len(a) + 1
      /\ w.blo \in 1 .. Len(b) + 1 /\ w.bhi \in 1 .. Len(b) + 1
  BY WindowBounds
<1> DEFINE s == SubSeq(a, w.alo, w.ahi - 1)
           t == SubSeq(b, w.blo, w.bhi - 1)
<1>2. s \in Seq(Instructions) /\ Ascends(s) /\ Range(s) = Part(a, w.alo, w.ahi)
  BY <1>1, WindowPart
<1>3. t \in Seq(Instructions) /\ Ascends(t) /\ Range(t) = Part(b, w.blo, w.bhi)
  BY <1>1, WindowPart
<1>4. Unmatched(a, b, w) = Changes(s, t)
  BY DEF Unmatched
<1> HIDE DEF s, t
<1> QED
  BY <1>2, <1>3, <1>4, ChangesCertified

\* The number of instructions of the baseline in a window.
Width(w) == IF w.alo <= w.ahi THEN w.ahi - w.alo ELSE 0

LEMMA WidthFalls ==
  ASSUME NEW a \in Seq(Instructions), NEW b \in Seq(Instructions), NEW w \in Windows(a, b),
         NEW m \in Matches(a, b, w)
  PROVE  /\ Width(w) \in 0 .. Len(a)
         /\ Width(BeforeMatch(w, m)) < Width(w) /\ Width(AfterMatch(w, m)) < Width(w)
<1> DEFINE x == m[1]
           z == m[3]
           g == w.alo
           h == w.ahi
           n == Len(a)
<1>1. n \in Nat /\ g \in 1 .. n + 1 /\ h \in 1 .. n + 1
  BY WindowBounds
<1>2. x \in g .. h - 1 /\ z \in 1 .. h - g /\ x + z <= h
  BY MatchPlace
<1>3. /\ Width(w) = IF g <= h THEN h - g ELSE 0
      /\ Width(BeforeMatch(w, m)) = IF g <= x THEN x - g ELSE 0
      /\ Width(AfterMatch(w, m)) = IF x + z <= h THEN h - (x + z) ELSE 0
  BY AroundMatch DEF Width
<1> HIDE DEF x, z, g, h, n
<1>4. /\ Width(w) = h - g /\ Width(BeforeMatch(w, m)) = x - g
      /\ Width(AfterMatch(w, m)) = h - (x + z)
  BY <1>1, <1>2, <1>3
<1> QED
  BY <1>1, <1>2, <1>4 DEF n

LEMMA WidthTyped ==
  ASSUME NEW a \in Seq(Instructions), NEW b \in Seq(Instructions), NEW w \in Windows(a, b)
  PROVE  Width(w) \in 0 .. Len(a)
<1> DEFINE g == w.alo
           h == w.ahi
           n == Len(a)
<1>1. n \in Nat /\ g \in 1 .. n + 1 /\ h \in 1 .. n + 1
  BY WindowBounds
<1>2. Width(w) = IF g <= h THEN h - g ELSE 0
  BY DEF Width
<1> HIDE DEF g, h, n
<1>3. Width(w) \in 0 .. n
  BY <1>1, <1>2
<1> QED
  BY <1>3 DEF n

LEMMA WithinDefined ==
  ASSUME NEW a \in Seq(Instructions), NEW b \in Seq(Instructions), Ascends(a), Ascends(b)
  PROVE  \E f \in [Windows(a, b) -> Seq(Deltas)] : WithinBy(f, a, b)
<1> DEFINE D == Windows(a, b)
           V == Seq(Deltas)
           n == Len(a)
           rank == [w \in D |-> Width(w)]
           ends == {w \in D : Matches(a, b, w) = {}}
           left == [w \in D |-> BeforeMatch(w, LongestMatch(a, b, w))]
           right == [w \in D |-> AfterMatch(w, LongestMatch(a, b, w))]
           start == [w \in D |-> Unmatched(a, b, w)]
           join == [p \in V \X V |-> p[1] \o p[2]]
<1>1. n \in Nat /\ rank \in [D -> 0 .. n]
  BY WidthTyped
<1>2. ASSUME NEW w \in D, w \notin ends
      PROVE  /\ left[w] \in D /\ rank[left[w]] < rank[w]
             /\ right[w] \in D /\ rank[right[w]] < rank[w]
  <2> DEFINE m == LongestMatch(a, b, w)
  <2>1. m \in Matches(a, b, w)
    BY <1>2, LongestMatchIs
  <2> HIDE DEF m
  <2>2. /\ BeforeMatch(w, m) \in D /\ Width(BeforeMatch(w, m)) < Width(w)
        /\ AfterMatch(w, m) \in D /\ Width(AfterMatch(w, m)) < Width(w)
    BY <2>1, AroundMatch, WidthFalls
  <2>3. left[w] = BeforeMatch(w, m) /\ right[w] = AfterMatch(w, m)
    BY DEF m
  <2> HIDE DEF D, left, right
  <2> QED
    BY <2>2, <2>3
<1>3. Descends(left, rank, D, ends) /\ Descends(right, rank, D, ends)
  <2> HIDE DEF D, rank, ends, left, right
  <2> QED
    BY <1>2 DEF Descends
<1>4. start \in [D -> V]
  BY UnmatchedCertified
<1>5. join \in [V \X V -> V]
  BY ConcatElements
<1> HIDE DEF rank, ends, left, right, start, join, n, V
<1>6. PICK f \in [D -> V] : Splits(f, D, ends, start, left, right, join)
  <2> HIDE DEF D
  <2> QED
    BY <1>1, <1>3, <1>4, <1>5, SplitDefined
<1>7. ASSUME NEW w \in D
      PROVE  f[w] = IF Matches(a, b, w) = {} THEN Unmatched(a, b, w)
                    ELSE f[BeforeMatch(w, LongestMatch(a, b, w))]
                           \o f[AfterMatch(w, LongestMatch(a, b, w))]
  <2>1. CASE Matches(a, b, w) = {}
    <3>1. w \in ends /\ start[w] = Unmatched(a, b, w)
      BY <2>1 DEF ends, start
    <3> QED
      BY <1>6, <2>1, <3>1 DEF Splits
  <2>2. CASE Matches(a, b, w) # {}
    <3>1. w \notin ends
      BY <2>2 DEF ends
    <3>2. left[w] \in D /\ right[w] \in D
      BY <1>2, <3>1
    <3>3. f[w] = join[<<f[left[w]], f[right[w]]>>]
      BY <1>6, <3>1 DEF Splits
    <3>4. <<f[left[w]], f[right[w]]>> \in V \X V
      BY <1>6, <3>2
    <3>5. f[w] = f[left[w]] \o f[right[w]]
      BY <3>3, <3>4 DEF join
    <3>6. /\ left[w] = BeforeMatch(w, LongestMatch(a, b, w))
          /\ right[w] = AfterMatch(w, LongestMatch(a, b, w))
      BY DEF left, right
    <3> QED
      BY <2>2, <3>5, <3>6
  <2> QED
    BY <2>1, <2>2
<1>8. WithinBy(f, a, b)
  BY <1>6, <1>7 DEF WithinBy
<1> QED
  BY <1>6, <1>8 DEF V

LEMMA PartsJoin ==
  ASSUME NEW s \in Seq(Instructions), Ascends(s),
         NEW x \in 1 .. Len(s) + 1, NEW y \in 1 .. Len(s) + 1, NEW z \in 1 .. Len(s) + 1,
         x <= y, y <= z
  PROVE  /\ Part(s, x, y) \cup Part(s, y, z) = Part(s, x, z)
         /\ Precede(Part(s, x, y), Part(s, y, z))
<1> DEFINE n == Len(s)
<1>1. n \in Nat /\ x \in 1 .. n + 1 /\ y \in 1 .. n + 1 /\ z \in 1 .. n + 1
  OBVIOUS
<1>2. \A j, k \in 1 .. n : j < k => s[j].at < s[k].at
  BY DEF Ascends
<1> HIDE DEF n
<1>3. /\ \A k \in x .. y - 1 : k \in x .. z - 1
      /\ \A k \in y .. z - 1 : k \in x .. z - 1
      /\ \A k \in x .. z - 1 : k \in x .. y - 1 \/ k \in y .. z - 1
  BY <1>1
<1>4. Part(s, x, y) \cup Part(s, y, z) = Part(s, x, z)
  BY <1>3 DEF Part
<1>5. \A j \in x .. y - 1 : \A k \in y .. z - 1 : j \in 1 .. n /\ k \in 1 .. n /\ j < k
  BY <1>1
<1>6. Precede(Part(s, x, y), Part(s, y, z))
  BY <1>2, <1>5 DEF Part, Precede
<1> QED
  BY <1>4, <1>6

\* A common block is kept on both sides.
LEMMA BlockCertified ==
  ASSUME NEW a \in Seq(Instructions), NEW b \in Seq(Instructions), Ascends(a), Ascends(b),
         NEW w \in Windows(a, b), NEW m \in Matches(a, b, w)
  PROVE  \E M : Certifies(M, <<>>, Part(a, m[1], m[1] + m[3]), Part(b, m[2], m[2] + m[3]))
<1> DEFINE x == m[1]
           y == m[2]
           z == m[3]
           p == Len(a)
           q == Len(b)
           M == {<<a[x + d], b[y + d]>> : d \in 0 .. z - 1}
           A == Part(a, x, x + z)
           B == Part(b, y, y + z)
<1>1. /\ p \in Nat /\ q \in Nat /\ x \in Nat \ {0} /\ y \in Nat \ {0} /\ z \in Nat \ {0}
      /\ x + z <= p + 1 /\ y + z <= q + 1
  <2> DEFINE g == w.alo
             h == w.ahi
             k == w.blo
             l == w.bhi
  <2>1. /\ p \in Nat /\ q \in Nat
        /\ g \in 1 .. p + 1 /\ h \in 1 .. p + 1 /\ k \in 1 .. q + 1 /\ l \in 1 .. q + 1
    BY WindowBounds
  <2>2. /\ x \in g .. h - 1 /\ y \in k .. l - 1
        /\ z \in 1 .. h - g /\ x + z <= h /\ y + z <= l
    BY MatchPlace
  <2> HIDE DEF g, h, k, l, p, q, x, y, z
  <2> QED
    BY <2>1, <2>2
<1>2. \A d \in 0 .. z - 1 : InstructionKey(a[x + d]) = InstructionKey(b[y + d])
  BY MatchPlace
<1>3. /\ \A j, k \in 1 .. p : j < k => a[j].at < a[k].at
      /\ \A j, k \in 1 .. q : j < k => b[j].at < b[k].at
  BY DEF Ascends
<1>4. /\ \A k \in 1 .. p : a[k].at \in Nat
      /\ \A k \in 1 .. q : b[k].at \in Nat
  <2>1. /\ \A k \in 1 .. p : a[k] \in Instructions
        /\ \A k \in 1 .. q : b[k] \in Instructions
    OBVIOUS
  <2> QED
    BY <2>1, InstructionAt
<1> HIDE DEF p, q, x, y, z
<1>5. ASSUME NEW d \in 0 .. z - 1
      PROVE  x + d \in 1 .. p /\ y + d \in 1 .. q /\ x + d \in x .. x + z - 1
             /\ y + d \in y .. y + z - 1
  BY <1>1
<1>6. ASSUME NEW d \in 0 .. z - 1, NEW e \in 0 .. z - 1
      PROVE  /\ a[x + d].at < a[x + e].at <=> d < e
             /\ b[y + d].at < b[y + e].at <=> d < e
  <2> DEFINE s == a[x + d].at
             t == a[x + e].at
             u == b[y + d].at
             v == b[y + e].at
  <2>1. s \in Nat /\ t \in Nat /\ u \in Nat /\ v \in Nat
    BY <1>4, <1>5
  <2>2. /\ d < e => x + d < x + e /\ y + d < y + e
        /\ e < d => x + e < x + d /\ y + e < y + d
        /\ d < e \/ e < d \/ d = e
    BY <1>1
  <2>3. (d < e => s < t /\ u < v) /\ (e < d => t < s /\ v < u)
    BY <1>3, <1>5, <2>2
  <2>4. d = e => s = t /\ u = v
    OBVIOUS
  <2> HIDE DEF s, t, u, v
  <2>5. (s < t <=> d < e) /\ (u < v <=> d < e)
    BY <2>1, <2>2, <2>3, <2>4
  <2> QED
    BY <2>5 DEF s, t, u, v
<1>7. Corresponds(M)
  BY <1>2, <1>6 DEF Corresponds
<1>8. A = {a[x + d] : d \in 0 .. z - 1}
  <2>1. \A k \in x .. x + z - 1 : k - x \in 0 .. z - 1 /\ x + (k - x) = k
    BY <1>1
  <2>2. \A k \in x .. x + z - 1 : \E d \in 0 .. z - 1 : a[k] = a[x + d]
    BY <2>1
  <2>3. \A d \in 0 .. z - 1 : x + d \in x .. x + z - 1
    BY <1>5
  <2> DEFINE K == x .. x + z - 1
             L == 0 .. z - 1
             T == {a[x + d] : d \in L}
  <2>4. /\ \A e \in A : \E k \in K : e = a[k]
        /\ \A k \in K : a[k] \in A
    BY <1>1 DEF Part
  <2> HIDE DEF K, L, A
  <2>5. \A k \in K : a[k] \in T
    BY <2>2 DEF K, L
  <2>6. \A d \in L : a[x + d] \in A
    BY <2>3, <2>4 DEF K, L
  <2>7. A \subseteq T
    <3> HIDE DEF T
    <3> QED
      BY <2>4, <2>5
  <2>8. T \subseteq A
    BY <2>6
  <2> QED
    BY <2>7, <2>8 DEF L
<1>9. B = {b[y + d] : d \in 0 .. z - 1}
  <2>1. \A k \in y .. y + z - 1 : k - y \in 0 .. z - 1 /\ y + (k - y) = k
    BY <1>1
  <2>2. \A k \in y .. y + z - 1 : \E d \in 0 .. z - 1 : b[k] = b[y + d]
    BY <2>1
  <2>3. \A d \in 0 .. z - 1 : y + d \in y .. y + z - 1
    BY <1>5
  <2> DEFINE K == y .. y + z - 1
             L == 0 .. z - 1
             T == {b[y + d] : d \in L}
  <2>4. /\ \A e \in B : \E k \in K : e = b[k]
        /\ \A k \in K : b[k] \in B
    BY <1>1 DEF Part
  <2> HIDE DEF K, L, B
  <2>5. \A k \in K : b[k] \in T
    BY <2>2 DEF K, L
  <2>6. \A d \in L : b[y + d] \in B
    BY <2>3, <2>4 DEF K, L
  <2>7. B \subseteq T
    <3> HIDE DEF T
    <3> QED
      BY <2>4, <2>5
  <2>8. T \subseteq B
    BY <2>6
  <2> QED
    BY <2>7, <2>8 DEF L
<1>10. /\ {e[1] : e \in M} = {a[x + d] : d \in 0 .. z - 1}
       /\ {e[2] : e \in M} = {b[y + d] : d \in 0 .. z - 1}
  <2> DEFINE L == 0 .. z - 1
             f(d) == a[x + d]
             g(d) == b[y + d]
             S == {e[1] : e \in M}
             T == {e[2] : e \in M}
             G == {f(d) : d \in L}
             H == {g(d) : d \in L}
  <2> HIDE DEF L
  <2>1. /\ \A e \in M : \E d \in L : e[1] = f(d) /\ e[2] = g(d)
        /\ \A d \in L : \E e \in M : e[1] = f(d) /\ e[2] = g(d)
    <3>1. \A e \in M : \E d \in L : e = <<f(d), g(d)>>
      BY <1>1 DEF L
    <3>2. \A d \in L : <<f(d), g(d)>> \in M
      BY <1>1 DEF L
    <3> HIDE DEF M, f, g
    <3>3. ASSUME NEW e \in M PROVE \E d \in L : e[1] = f(d) /\ e[2] = g(d)
      <4>1. PICK d \in L : e = <<f(d), g(d)>>
        BY <3>1
      <4>2. e[1] = f(d) /\ e[2] = g(d)
        BY <4>1
      <4> QED
        BY <4>2
    <3>4. ASSUME NEW d \in L PROVE \E e \in M : e[1] = f(d) /\ e[2] = g(d)
      <4> DEFINE e == <<f(d), g(d)>>
      <4>1. e \in M
        BY <3>2
      <4>2. e[1] = f(d) /\ e[2] = g(d)
        OBVIOUS
      <4> HIDE DEF e
      <4> QED
        BY <4>1, <4>2
    <3> QED
      BY <3>3, <3>4
  <2> HIDE DEF M, f, g
  <2>2. S \subseteq G /\ G \subseteq S
    BY <2>1
  <2>3. T \subseteq H /\ H \subseteq T
    BY <2>1
  <2>4. S = G /\ T = H
    <3> HIDE DEF S, T, G, H
    <3> QED
      BY <2>2, <2>3
  <2> QED
    BY <2>4 DEF f, g, L
<1>11. M \subseteq A \X B
  BY <1>8, <1>9
<1> HIDE DEF M, A, B
<1>12. {e[1] : e \in M} = A /\ {e[2] : e \in M} = B
  BY <1>8, <1>9, <1>10
<1>13. Len(BeforeSide(<<>>)) = 0 /\ Len(AfterSide(<<>>)) = 0
  BY DEF BeforeSide, AfterSide
<1>14. Tells(BeforeSide(<<>>), A, A) /\ Tells(AfterSide(<<>>), B, B)
  BY <1>13 DEF Tells
<1>15. Certifies(M, <<>>, A, B)
  BY <1>7, <1>11, <1>12, <1>14 DEF Certifies
<1> QED
  BY <1>15 DEF A, B, x, y, z

\* What a window's diff tells of: it is certified by what the window keeps.
Certified(ds, a, b, w) ==
  ds \in Seq(Deltas)
    /\ \E M : Certifies(M, ds, Part(a, w.alo, w.ahi), Part(b, w.blo, w.bhi))

LEMMA AroundCertified ==
  ASSUME NEW a \in Seq(Instructions), NEW b \in Seq(Instructions), Ascends(a), Ascends(b),
         NEW w \in Windows(a, b), NEW m \in Matches(a, b, w), NEW ds, NEW es,
         Certified(ds, a, b, BeforeMatch(w, m)), Certified(es, a, b, AfterMatch(w, m))
  PROVE  Certified(ds \o es, a, b, w)
<1> DEFINE x == m[1]
           y == m[2]
           z == m[3]
           p == Len(a)
           q == Len(b)
           g == w.alo
           h == w.ahi
           k == w.blo
           l == w.bhi
           A1 == Part(a, g, x)
           A2 == Part(a, x, x + z)
           A3 == Part(a, x + z, h)
           B1 == Part(b, k, y)
           B2 == Part(b, y, y + z)
           B3 == Part(b, y + z, l)
<1>1. /\ p \in Nat /\ q \in Nat
      /\ g \in 1 .. p + 1 /\ h \in 1 .. p + 1 /\ k \in 1 .. q + 1 /\ l \in 1 .. q + 1
  BY WindowBounds
<1>2. /\ x \in g .. h - 1 /\ y \in k .. l - 1
      /\ z \in 1 .. h - g /\ x + z <= h /\ y + z <= l
  BY MatchPlace
<1>3. /\ ds \in Seq(Deltas) /\ \E M : Certifies(M, ds, A1, B1)
      /\ es \in Seq(Deltas) /\ \E M : Certifies(M, es, A3, B3)
  BY AroundMatch DEF Certified
<1>4. \E M : Certifies(M, <<>>, A2, B2)
  BY BlockCertified
<1> HIDE DEF x, y, z, g, h, k, l
<1>5. /\ g \in 1 .. p + 1 /\ x \in 1 .. p + 1 /\ x + z \in 1 .. p + 1 /\ h \in 1 .. p + 1
      /\ g <= x /\ x <= x + z /\ g <= x + z /\ x + z <= h
      /\ k \in 1 .. q + 1 /\ y \in 1 .. q + 1 /\ y + z \in 1 .. q + 1 /\ l \in 1 .. q + 1
      /\ k <= y /\ y <= y + z /\ k <= y + z /\ y + z <= l
  <2> HIDE DEF p, q
  <2> QED
    BY <1>1, <1>2
<1>6. /\ A1 \cup A2 = Part(a, g, x + z) /\ Precede(A1, A2)
      /\ Part(a, g, x + z) \cup A3 = Part(a, g, h) /\ Precede(Part(a, g, x + z), A3)
  BY <1>5, PartsJoin
<1>7. /\ B1 \cup B2 = Part(b, k, y + z) /\ Precede(B1, B2)
      /\ Part(b, k, y + z) \cup B3 = Part(b, k, l) /\ Precede(Part(b, k, y + z), B3)
  BY <1>5, PartsJoin
<1>8. /\ A1 \in SUBSET Instructions /\ A2 \in SUBSET Instructions /\ A3 \in SUBSET Instructions
      /\ Part(a, g, x + z) \in SUBSET Instructions
  BY <1>5, WindowPart
<1>9. /\ B1 \in SUBSET Instructions /\ B2 \in SUBSET Instructions /\ B3 \in SUBSET Instructions
      /\ Part(b, k, y + z) \in SUBSET Instructions
  BY <1>5, WindowPart
<1> HIDE DEF A1, A2, A3, B1, B2, B3
<1>10. PICK M1, M2, M3 : /\ Certifies(M1, ds, A1, B1) /\ Certifies(M2, <<>>, A2, B2)
                         /\ Certifies(M3, es, A3, B3)
  BY <1>3, <1>4
<1>11. <<>> \in Seq(Deltas) /\ ds \o <<>> = ds
  BY <1>3
<1>12. Certifies(M1 \cup M2, ds \o <<>>, A1 \cup A2, B1 \cup B2)
  BY <1>3, <1>6, <1>7, <1>8, <1>9, <1>10, <1>11, CertifiesConcat
<1>13. Certifies(M1 \cup M2, ds, Part(a, g, x + z), Part(b, k, y + z))
  BY <1>6, <1>7, <1>11, <1>12
<1>14. Certifies((M1 \cup M2) \cup M3, ds \o es, Part(a, g, x + z) \cup A3, Part(b, k, y + z) \cup B3)
  BY <1>3, <1>6, <1>7, <1>8, <1>9, <1>10, <1>13, CertifiesConcat
<1>15. \E M : Certifies(M, ds \o es, Part(a, g, h), Part(b, k, l))
  BY <1>6, <1>7, <1>14
<1>16. ds \o es \in Seq(Deltas)
  BY <1>3, ConcatElements
<1> QED
  BY <1>15, <1>16 DEF Certified, g, h, k, l

LEMMA WithinCertified ==
  ASSUME NEW a \in Seq(Instructions), NEW b \in Seq(Instructions), Ascends(a), Ascends(b),
         NEW f, WithinBy(f, a, b), NEW w \in Windows(a, b)
  PROVE  Certified(f[w], a, b, w)
<1> DEFINE D == Windows(a, b)
           rank == [v \in D |-> Width(v)]
           Q == {v \in D : Certified(f[v], a, b, v)}
<1>1. rank \in [D -> Nat]
  <2>1. \A v \in D : Width(v) \in 0 .. Len(a) /\ Len(a) \in Nat
    BY WidthTyped, WindowBounds
  <2> HIDE DEF D
  <2> QED
    BY <2>1
<1>2. ASSUME NEW v \in D, \A e \in D : rank[e] < rank[v] => e \in Q
      PROVE  v \in Q
  <2>1. CASE Matches(a, b, v) = {}
    <3>1. f[v] = Unmatched(a, b, v)
      BY <2>1 DEF WithinBy
    <3>2. Certified(Unmatched(a, b, v), a, b, v)
      BY UnmatchedCertified DEF Certified
    <3> QED
      BY <3>1, <3>2
  <2>2. CASE Matches(a, b, v) # {}
    <3> DEFINE m == LongestMatch(a, b, v)
    <3>1. m \in Matches(a, b, v)
      BY <2>2, LongestMatchIs
    <3>2. f[v] = f[BeforeMatch(v, m)] \o f[AfterMatch(v, m)]
      BY <2>2 DEF WithinBy
    <3> HIDE DEF m
    <3>3. /\ BeforeMatch(v, m) \in D /\ Width(BeforeMatch(v, m)) < Width(v)
          /\ AfterMatch(v, m) \in D /\ Width(AfterMatch(v, m)) < Width(v)
      BY <3>1, AroundMatch, WidthFalls
    <3>4. BeforeMatch(v, m) \in Q /\ AfterMatch(v, m) \in Q
      <4> HIDE DEF D, Q
      <4> QED
        BY <1>2, <3>3
    <3>5. Certified(f[BeforeMatch(v, m)], a, b, BeforeMatch(v, m))
          /\ Certified(f[AfterMatch(v, m)], a, b, AfterMatch(v, m))
      BY <3>4
    <3>6. Certified(f[BeforeMatch(v, m)] \o f[AfterMatch(v, m)], a, b, v)
      BY <3>1, <3>5, AroundCertified
    <3> QED
      BY <3>2, <3>6
  <2> QED
    BY <2>1, <2>2
<1>3. D \subseteq Q
  <2> HIDE DEF D, Q, rank
  <2> QED
    BY <1>1, <1>2, RankInduction
<1> QED
  BY <1>3

Whole(a, b) == Window(1, Len(a) + 1, 1, Len(b) + 1)

LEMMA InstructionDiffIs ==
  ASSUME NEW a \in Seq(Instructions), NEW b \in Seq(Instructions), Ascends(a), Ascends(b)
  PROVE  /\ Whole(a, b) \in Windows(a, b)
         /\ \E f : WithinBy(f, a, b) /\ InstructionDiff(a, b) = f[Whole(a, b)]
<1> DEFINE within == CHOOSE f : WithinBy(f, a, b)
<1>1. InstructionDiff(a, b) = within[Whole(a, b)]
  BY DEF InstructionDiff, WithinBy, Unmatched, Whole
<1>2. \E f : WithinBy(f, a, b)
  BY WithinDefined
<1>3. WithinBy(within, a, b)
  BY <1>2
<1>4. Whole(a, b) \in Windows(a, b)
  <2> DEFINE p == Len(a) + 1
             q == Len(b) + 1
  <2>1. p \in Nat /\ q \in Nat /\ p >= 1 /\ q >= 1
    OBVIOUS
  <2>2. Whole(a, b) = [alo |-> 1, ahi |-> p, blo |-> 1, bhi |-> q]
    BY DEF Whole, Window
  <2>3. Windows(a, b) = [alo : 1 .. p, ahi : 1 .. p, blo : 1 .. q, bhi : 1 .. q]
    BY DEF Windows
  <2> HIDE DEF p, q
  <2> QED
    BY <2>1, <2>2, <2>3
<1> QED
  BY <1>1, <1>3, <1>4

\* The diff of two functions tells of everything it does not keep.
LEMMA InstructionDiffCertified ==
  ASSUME NEW a \in Seq(Instructions), NEW b \in Seq(Instructions), Ascends(a), Ascends(b)
  PROVE  /\ InstructionDiff(a, b) \in Seq(Deltas)
         /\ \E M : Certifies(M, InstructionDiff(a, b), Range(a), Range(b))
<1> DEFINE w == Whole(a, b)
<1>1. PICK f : WithinBy(f, a, b) /\ InstructionDiff(a, b) = f[w]
  BY InstructionDiffIs
<1>2. Certified(f[w], a, b, w)
  BY <1>1, InstructionDiffIs, WithinCertified
<1>3. w.alo = 1 /\ w.ahi = Len(a) + 1 /\ w.blo = 1 /\ w.bhi = Len(b) + 1
  BY DEF Whole, Window
<1>4. Part(a, 1, Len(a) + 1) = Range(a) /\ Part(b, 1, Len(b) + 1) = Range(b)
  <2>1. (Len(a) + 1) - 1 = Len(a) /\ (Len(b) + 1) - 1 = Len(b)
    OBVIOUS
  <2>2. Range(a) = {a[k] : k \in 1 .. Len(a)} /\ Range(b) = {b[k] : k \in 1 .. Len(b)}
    BY DEF Range
  <2> QED
    BY <2>1, <2>2 DEF Part
<1> HIDE DEF w
<1> QED
  BY <1>1, <1>2, <1>3, <1>4 DEF Certified

LEMMA NothingChanges == Changes(<<>>, <<>>) = <<>>
<1>1. Len(<<>>) = 0 /\ Min({0, 0}) = 0
  BY LeastOfTwo
<1>2. /\ [k \in 1 .. 0 |-> Delta("replaced", <<(<<>>)[k]>>, <<(<<>>)[k]>>)] = <<>>
      /\ [k \in 1 .. 0 - 0 |-> Delta("removed", <<(<<>>)[0 + k]>>, <<>>)] = <<>>
      /\ [k \in 1 .. 0 - 0 |-> Delta("added", <<>>, <<(<<>>)[0 + k]>>)] = <<>>
  OBVIOUS
<1>3. <<>> \o <<>> \o <<>> = <<>>
  OBVIOUS
<1> QED
  BY <1>1, <1>2, <1>3 DEF Changes

LEMMA EmptyPart ==
  ASSUME NEW s \in Seq(Instructions),
         NEW lo \in 1 .. Len(s) + 1, NEW hi \in 1 .. Len(s) + 1, hi <= lo
  PROVE  SubSeq(s, lo, hi - 1) = <<>>
  OBVIOUS

LEMMA EmptyWindow ==
  ASSUME NEW a \in Seq(Instructions), NEW b \in Seq(Instructions), NEW f, WithinBy(f, a, b),
         NEW w \in Windows(a, b), w.ahi <= w.alo, w.bhi <= w.blo
  PROVE  f[w] = <<>>
<1>1. /\ Len(a) \in Nat /\ Len(b) \in Nat
      /\ w.alo \in 1 .. Len(a) + 1 /\ w.ahi \in 1 .. Len(a) + 1
      /\ w.blo \in 1 .. Len(b) + 1 /\ w.bhi \in 1 .. Len(b) + 1
  BY WindowBounds
<1>2. Matches(a, b, w) = {}
  <2> SUFFICES ASSUME NEW m \in Matches(a, b, w) PROVE FALSE
    OBVIOUS
  <2>1. m[1] \in w.alo .. w.ahi - 1
    BY MatchPlace
  <2> QED
    BY <1>1, <2>1
<1>3. f[w] = Unmatched(a, b, w)
  BY <1>2 DEF WithinBy
<1>4. SubSeq(a, w.alo, w.ahi - 1) = <<>> /\ SubSeq(b, w.blo, w.bhi - 1) = <<>>
  BY <1>1, EmptyPart
<1> QED
  BY <1>3, <1>4, NothingChanges DEF Unmatched

\* A function has no difference with itself: the longest common block is all of it.
LEMMA DiffOfSame ==
  ASSUME NEW a \in Seq(Instructions), Ascends(a)
  PROVE  InstructionDiff(a, a) = <<>>
<1> DEFINE w == Whole(a, a)
           n == Len(a)
<1>1. PICK f : WithinBy(f, a, a) /\ InstructionDiff(a, a) = f[w]
  BY InstructionDiffIs
<1>2. w \in Windows(a, a)
  BY InstructionDiffIs
<1>3. w.alo = 1 /\ w.ahi = n + 1 /\ w.blo = 1 /\ w.bhi = n + 1 /\ n \in Nat
  BY DEF Whole, Window
<1> HIDE DEF w, n
<1>4. CASE n = 0
  <2>1. w.ahi <= w.alo /\ w.bhi <= w.blo
    BY <1>3, <1>4
  <2>2. f[w] = <<>>
    BY <1>1, <1>2, <2>1, EmptyWindow
  <2> QED
    BY <1>1, <2>2
<1>5. CASE n # 0
  <2> DEFINE m == LongestMatch(a, a, w)
             l == <<1, 1, n>>
  <2>1. l \in Matches(a, a, w)
    <3>1. 1 \in w.alo .. w.ahi - 1 /\ 1 \in w.blo .. w.bhi - 1 /\ n \in 1 .. w.ahi - w.alo
          /\ 1 + n <= w.ahi /\ 1 + n <= w.bhi
      BY <1>3, <1>5
    <3>2. l \in (w.alo .. w.ahi - 1) \X (w.blo .. w.bhi - 1) \X (1 .. w.ahi - w.alo)
      BY <3>1
    <3>3. l[1] = 1 /\ l[2] = 1 /\ l[3] = n
      OBVIOUS
    <3> HIDE DEF l
    <3>4. \A d \in 0 .. l[3] - 1 : InstructionKey(a[l[1] + d]) = InstructionKey(a[l[2] + d])
      BY <3>3
    <3> QED
      BY <3>1, <3>2, <3>3, <3>4 DEF Matches
  <2>2. m \in Matches(a, a, w) /\ LongestFirst(m, Matches(a, a, w))
    BY <1>2, <2>1, LongestMatchIs
  <2>3. l[3] = n
    OBVIOUS
  <2> HIDE DEF l, m
  <2>4. l[3] <= m[3]
    <3>1. l[3] < m[3] \/ l[3] = m[3]
      BY <2>1, <2>2 DEF LongestFirst
    <3>2. m[3] \in 1 .. w.ahi - w.alo
      BY <1>2, <2>2, MatchPlace
    <3> QED
      BY <1>3, <2>3, <3>1, <3>2
  <2>5. m[1] \in w.alo .. w.ahi - 1 /\ m[2] \in w.blo .. w.bhi - 1
        /\ m[3] \in 1 .. w.ahi - w.alo /\ m[1] + m[3] <= w.ahi /\ m[2] + m[3] <= w.bhi
    BY <1>2, <2>2, MatchPlace
  <2>6. m[1] = 1 /\ m[2] = 1 /\ m[3] = n
    BY <1>3, <2>3, <2>4, <2>5
  <2>7. f[w] = f[BeforeMatch(w, m)] \o f[AfterMatch(w, m)]
    <3>1. Matches(a, a, w) # {}
      BY <2>1
    <3>2. f[w] = f[BeforeMatch(w, LongestMatch(a, a, w))] \o f[AfterMatch(w, LongestMatch(a, a, w))]
      BY <1>1, <1>2, <3>1 DEF WithinBy
    <3> QED
      BY <3>2 DEF m
  <2>8. /\ BeforeMatch(w, m) \in Windows(a, a)
        /\ BeforeMatch(w, m).ahi <= BeforeMatch(w, m).alo
        /\ BeforeMatch(w, m).bhi <= BeforeMatch(w, m).blo
    BY <1>2, <1>3, <2>2, <2>6, AroundMatch
  <2>9. /\ AfterMatch(w, m) \in Windows(a, a)
        /\ AfterMatch(w, m).ahi <= AfterMatch(w, m).alo
        /\ AfterMatch(w, m).bhi <= AfterMatch(w, m).blo
    BY <1>2, <1>3, <2>2, <2>6, AroundMatch
  <2>10. f[BeforeMatch(w, m)] = <<>> /\ f[AfterMatch(w, m)] = <<>>
    BY <1>1, <2>8, <2>9, EmptyWindow
  <2> QED
    BY <1>1, <2>7, <2>10
<1> QED
  BY <1>4, <1>5

-----------------------------------------------------------------------------
(***************************************************************************)
(* What the deltas of a function tell of, as a sequence of instructions.   *)
(***************************************************************************)
Earlier == {p \in Instructions \X Instructions : p[1].at < p[2].at}

LEMMA SideFlattened ==
  ASSUME NEW side \in Seq(Side), NEW A \in SUBSET Instructions, NEW S, Tells(side, A, S)
  PROVE  /\ FlattenSeq(side) \in Seq(Instructions) /\ Ordered(FlattenSeq(side), Earlier)
         /\ Range(FlattenSeq(side)) = A \ S
<1> DEFINE n == Len(side)
           s == FlattenSeq(side)
<1>1. n \in Nat /\ \A k \in 1 .. n : side[k] \in Side
  OBVIOUS
<1>2. ASSUME NEW x \in Side
      PROVE  /\ x \in Seq(Instructions) /\ Len(x) \in 0 .. 1
             /\ \A d \in 1 .. Len(x) : d = 1 /\ x # <<>> /\ x[1] \in Instructions
             /\ x # <<>> => 1 \in 1 .. Len(x)
  <2>1. CASE x = <<>>
    BY <2>1
  <2>2. CASE x # <<>>
    <3>1. PICK y \in Instructions : x = <<y>>
      BY <2>2 DEF Side
    <3> QED
      BY <3>1
  <2> QED
    BY <2>1, <2>2
<1>3. side \in [1 .. n -> Seq(Instructions)]
  <2>1. side \in [1 .. n -> Side]
    OBVIOUS
  <2> HIDE DEF n
  <2> QED
    BY <1>2, <2>1
<1>4. /\ \A d \in 1 .. n : side[d] # <<>> => side[d][1] \in A \ S
      /\ \A x \in A \ S : \E d \in 1 .. n : side[d] # <<>> /\ side[d][1] = x
      /\ \A d, e \in 1 .. n :
           d < e /\ side[d] # <<>> /\ side[e] # <<>> => side[d][1].at < side[e][1].at
  BY DEF Tells
<1> HIDE DEF n, s
<1>5. s \in Seq(Instructions) /\ Holds(s, side, n)
  BY <1>1, <1>3, FlattenElements DEF s
<1>6. ASSUME NEW k \in 1 .. n PROVE Ordered(side[k], Earlier)
  <2>1. Len(side[k]) \in 0 .. 1
    BY <1>1, <1>2
  <2> QED
    BY <2>1 DEF Ordered
<1>7. ASSUME NEW j \in 1 .. n, NEW k \in 1 .. n, j < k PROVE Follows(side[j], side[k], Earlier)
  <2> SUFFICES ASSUME NEW d \in 1 .. Len(side[j]), NEW e \in 1 .. Len(side[k])
               PROVE  <<side[j][d], side[k][e]>> \in Earlier
    BY DEF Follows
  <2>1. /\ d = 1 /\ side[j] # <<>> /\ side[j][1] \in Instructions
        /\ e = 1 /\ side[k] # <<>> /\ side[k][1] \in Instructions
    BY <1>1, <1>2
  <2>2. side[j][1].at < side[k][1].at
    BY <1>4, <1>7, <2>1
  <2> QED
    BY <2>1, <2>2 DEF Earlier
<1>8. Ordered(s, Earlier)
  BY <1>1, <1>3, <1>6, <1>7, FlattenOrdered DEF s, n
<1>9. ASSUME NEW e \in 1 .. Len(s) PROVE s[e] \in A \ S
  <2>1. PICK k \in 1 .. n : \E d \in 1 .. Len(side[k]) : s[e] = side[k][d]
    BY <1>5 DEF Holds
  <2>2. s[e] = side[k][1] /\ side[k] # <<>>
    BY <1>1, <1>2, <2>1
  <2> QED
    BY <1>4, <2>2
<1>10. ASSUME NEW x \in A \ S PROVE \E e \in 1 .. Len(s) : s[e] = x
  <2>1. PICK d \in 1 .. n : side[d] # <<>> /\ side[d][1] = x
    BY <1>4
  <2>2. 1 \in 1 .. Len(side[d])
    BY <1>1, <1>2, <2>1
  <2>3. \E e \in 1 .. Len(s) : s[e] = side[d][1]
    BY <1>5, <2>2 DEF Holds
  <2> QED
    BY <2>1, <2>3
<1>11. Range(s) = A \ S
  <2>1. Range(s) = {s[e] : e \in 1 .. Len(s)}
    BY <1>5 DEF Range
  <2> QED
    BY <1>9, <1>10, <2>1
<1> QED
  BY <1>5, <1>8, <1>11 DEF s

\* What the functions hold together.
Together(A, n) == UNION {A[k] : k \in 1 .. n}

LEMMA TogetherHolds ==
  ASSUME NEW A, NEW n, NEW x
  PROVE  x \in Together(A, n) <=> \E k \in 1 .. n : x \in A[k]
  BY DEF Together

\* The functions one after the other.
LEMMA FunctionsFlattened ==
  ASSUME NEW n \in Nat, NEW X \in [1 .. n -> Seq(Instructions)], NEW C,
         \A k \in 1 .. n : Ordered(X[k], Earlier) /\ Range(X[k]) = C[k],
         \A j, k \in 1 .. n : j < k => Precede(C[j], C[k])
  PROVE  /\ FlattenSeq(X) \in Seq(Instructions) /\ Ordered(FlattenSeq(X), Earlier)
         /\ Range(FlattenSeq(X)) = Together(C, n)
<1> DEFINE s == FlattenSeq(X)
<1>1. s \in Seq(Instructions) /\ Holds(s, X, n)
  BY FlattenElements
<1>2. ASSUME NEW k \in 1 .. n, NEW d \in 1 .. Len(X[k])
      PROVE  X[k][d] \in C[k] /\ X[k][d] \in Instructions
  <2>1. X[k] \in Seq(Instructions)
    OBVIOUS
  <2>2. X[k][d] \in Range(X[k]) /\ X[k][d] \in Instructions
    BY <2>1 DEF Range
  <2> QED
    BY <2>2
<1>3. ASSUME NEW j \in 1 .. n, NEW k \in 1 .. n, j < k PROVE Follows(X[j], X[k], Earlier)
  BY <1>2, <1>3 DEF Follows, Precede, Earlier
<1>4. Ordered(s, Earlier)
  BY <1>3, FlattenOrdered
<1> HIDE DEF s
<1>5. ASSUME NEW e \in 1 .. Len(s) PROVE s[e] \in Together(C, n)
  <2>1. PICK k \in 1 .. n : \E d \in 1 .. Len(X[k]) : s[e] = X[k][d]
    BY <1>1 DEF Holds
  <2> QED
    BY <1>2, <2>1, TogetherHolds
<1>6. ASSUME NEW k \in 1 .. n, NEW x \in C[k] PROVE \E e \in 1 .. Len(s) : s[e] = x
  <2>1. X[k] \in Seq(Instructions) /\ Range(X[k]) = C[k]
    OBVIOUS
  <2>2. PICK d \in 1 .. Len(X[k]) : X[k][d] = x
    BY <2>1 DEF Range
  <2>3. \E e \in 1 .. Len(s) : s[e] = X[k][d]
    BY <1>1 DEF Holds
  <2> QED
    BY <2>2, <2>3
<1>7. Range(s) = {s[e] : e \in 1 .. Len(s)}
  BY <1>1 DEF Range
<1>8. Range(s) \subseteq Together(C, n)
  BY <1>5, <1>7
<1>9. Together(C, n) \subseteq Range(s)
  <2> SUFFICES ASSUME NEW x \in Together(C, n) PROVE x \in Range(s)
    OBVIOUS
  <2>1. PICK k \in 1 .. n : x \in C[k]
    BY TogetherHolds
  <2>2. PICK e \in 1 .. Len(s) : s[e] = x
    BY <1>6, <2>1
  <2> QED
    BY <1>7, <2>2
<1>10. Range(s) = Together(C, n)
  BY <1>8, <1>9
<1> QED
  BY <1>1, <1>4, <1>10 DEF s

-----------------------------------------------------------------------------
(***************************************************************************)
(* The functions of a listing: cut after every return and at the end.      *)
(***************************************************************************)
CutAtReturns(runs, s) ==
  /\ runs \in Seq(Runs) /\ (s = <<>> => runs = <<>>) /\ (s # <<>> => Covers(runs, Len(s)))
  /\ \A f \in DOMAIN runs :
       /\ EndsFunction(s[runs[f].last]) \/ runs[f].last = Len(s)
       /\ \A k \in runs[f].first .. runs[f].last - 1 : ~EndsFunction(s[k])

Cuts(s) == {k \in DOMAIN s : EndsFunction(s[k]) \/ k = Len(s)}

LEMMA LengthOf ==
  ASSUME NEW V, NEW s \in Seq(V)
  PROVE  Len(s) \in Nat /\ DOMAIN s = 1 .. Len(s) /\ (s = <<>> <=> Len(s) = 0)
  OBVIOUS

LEMMA CutsListed ==
  ASSUME NEW s \in Seq(Instructions)
  PROVE  /\ Cuts(s) \in SUBSET Int /\ Cuts(s) \subseteq 1 .. Len(s) /\ Cardinality(Cuts(s)) \in Nat
         /\ Enumerates(Ascending(Cuts(s)), Cardinality(Cuts(s)), Cuts(s))
<1> DEFINE D == 1 .. Len(s)
<1>0. Len(s) \in Nat /\ DOMAIN s = D
  BY LengthOf
<1>1. D \in SUBSET Int /\ IsFiniteSet(D)
  BY <1>0, FS_Interval
<1> HIDE DEF D
<1>4. Cuts(s) \subseteq D
  BY <1>0 DEF Cuts
<1>2. IsFiniteSet(Cuts(s)) /\ Cuts(s) \in SUBSET Int
  BY <1>1, <1>4, FS_Subset
<1>3. Cardinality(Cuts(s)) \in Nat
       /\ Enumerates(Ascending(Cuts(s)), Cardinality(Cuts(s)), Cuts(s))
  BY <1>2, AscendingEnumerates
<1> QED
  BY <1>2, <1>3, <1>4 DEF D

LEMMA CoverBounds ==
  ASSUME NEW runs \in Seq(Runs), NEW n \in Nat, Covers(runs, n)
  PROVE  /\ Len(runs) \in Nat \ {0} /\ DOMAIN runs = 1 .. Len(runs)
         /\ \A f \in 1 .. Len(runs) : /\ runs[f].first \in 1 .. n /\ runs[f].last \in 1 .. n
                                      /\ runs[f].first <= runs[f].last
<1> DEFINE m == Len(runs)
<1>1. m \in Nat \ {0} /\ DOMAIN runs = 1 .. m
  BY DEF Covers
<1>2. \A f \in 1 .. m : runs[f].first \in Nat /\ runs[f].last \in Nat
                          /\ runs[f].first <= runs[f].last
  <2>1. \A f \in 1 .. m : runs[f] \in Runs
    BY <1>1
  <2> QED
    BY <1>1, <2>1 DEF Covers, Runs
<1>3. runs[1].first = 1 /\ runs[m].last = n
  BY DEF Covers
<1>4. \A r, t \in 1 .. m : r < t => runs[r].last < runs[t].first
  BY <1>1, CoversOrdered
<1> HIDE DEF m
<1>5. ASSUME NEW f \in 1 .. m
      PROVE  runs[f].first \in 1 .. n /\ runs[f].last \in 1 .. n
  <2>1. runs[f].first >= 1
    <3>1. CASE f = 1
      BY <1>3, <3>1
    <3>2. CASE f # 1
      <4>1. runs[1].last < runs[f].first
        BY <1>1, <1>4, <3>2
      <4> QED
        BY <1>1, <1>2, <1>3, <4>1
    <3> QED
      BY <3>1, <3>2
  <2>2. runs[f].last <= n
    <3>1. CASE f = m
      BY <1>3, <3>1
    <3>2. CASE f # m
      <4>1. runs[f].last < runs[m].first
        BY <1>1, <1>4, <3>2
      <4> QED
        BY <1>1, <1>2, <1>3, <4>1
    <3> QED
      BY <3>1, <3>2
  <2> QED
    BY <1>2, <2>1, <2>2
<1> QED
  BY <1>1, <1>2, <1>5 DEF m

\* There is one way to cut a listing.
LEMMA CutIsBoundaries ==
  ASSUME NEW s \in Seq(Instructions), NEW runs, CutAtReturns(runs, s)
  PROVE  runs = BoundariesOf(s)
<1> DEFINE K == Cuts(s)
           c == Cardinality(K)
           last == Ascending(K)
           m == Len(runs)
           ends == [f \in 1 .. m |-> runs[f].last]
           n == Len(s)
<1>1. K \in SUBSET Int /\ K \subseteq 1 .. n /\ c \in Nat /\ Enumerates(last, c, K)
  BY CutsListed
<1>2. n \in Nat /\ DOMAIN s = 1 .. n /\ m \in Nat /\ DOMAIN runs = 1 .. m /\ runs \in Seq(Runs)
  <2>1. runs \in Seq(Runs)
    BY DEF CutAtReturns
  <2> QED
    BY <2>1, LengthOf
<1>3. \A k \in 1 .. n : k \in K <=> EndsFunction(s[k]) \/ k = n
  BY <1>2, Zenon DEF Cuts
<1>4. \A f \in 1 .. m :
        /\ EndsFunction(s[runs[f].last]) \/ runs[f].last = n
        /\ \A k \in runs[f].first .. runs[f].last - 1 : ~EndsFunction(s[k])
  BY <1>2 DEF CutAtReturns
<1>5. BoundariesOf(s) = [f \in DOMAIN last |-> Run(IF f = 1 THEN 1 ELSE last[f - 1] + 1, last[f])]
  BY DEF BoundariesOf, Cuts
<1>6. CASE s = <<>>
  <2>1. runs = <<>> /\ K = {}
    BY <1>6 DEF CutAtReturns, Cuts
  <2>2. last \in [1 .. c -> K]
    BY <1>1 DEF Enumerates
  <2>3. c = 0
    BY <2>1, FS_EmptySet
  <2> HIDE DEF last, K, c
  <2>4. DOMAIN last = {}
    BY <2>2, <2>3
  <2>5. BoundariesOf(s) = <<>>
    BY <1>5, <2>4
  <2> QED
    BY <2>1, <2>5
<1>7. CASE s # <<>>
  <2>1. Covers(runs, n)
    BY <1>7 DEF CutAtReturns
  <2>2. \A f \in 1 .. m : /\ runs[f].first \in 1 .. n /\ runs[f].last \in 1 .. n
                          /\ runs[f].first <= runs[f].last
    BY <1>2, <2>1, CoverBounds
  <2>3. Reached(runs, n + 1)
    BY <1>2, <2>1, CoversReached
  <2>4. \A r, t \in 1 .. m : r < t => runs[r].last < runs[t].first
    BY <1>2, <2>1, CoversOrdered
  <2> HIDE DEF K, c, last, n
  <2>5. ASSUME NEW f \in 1 .. m PROVE ends[f] \in K /\ ends[f] = runs[f].last
    BY <1>3, <1>4, <2>2
  <2>6. ASSUME NEW k \in K PROVE \E f \in 1 .. m : ends[f] = k
    <3>1. k \in 1 .. n /\ k \in 1 .. (n + 1) - 1
      BY <1>1, <1>2
    <3>2. PICK f \in 1 .. m : k \in runs[f].first .. runs[f].last
      BY <1>2, <2>3, <3>1 DEF Reached
    <3>3. k = runs[f].last
      <4>1. runs[f].first \in Nat /\ runs[f].last \in Nat /\ runs[f].last <= n
        BY <1>2, <2>2
      <4>2. CASE EndsFunction(s[k])
        <5>1. k \notin runs[f].first .. runs[f].last - 1
          BY <1>4, <4>2
        <5> QED
          BY <3>2, <4>1, <5>1
      <4>3. CASE k = n
        BY <1>2, <3>2, <4>1, <4>3
      <4> QED
        BY <1>3, <3>1, <4>2, <4>3
    <3> QED
      BY <2>5, <3>3
  <2>7. ASSUME NEW p \in 1 .. m, NEW q \in 1 .. m, p < q PROVE ends[p] < ends[q]
    <3>1. runs[p].last < runs[q].first /\ runs[q].first <= runs[q].last
          /\ runs[p].last \in Nat /\ runs[q].first \in Nat /\ runs[q].last \in Nat
      BY <2>2, <2>4, <2>7
    <3> QED
      BY <2>5, <3>1
  <2>8. Enumerates(ends, m, K)
    <3>1. ends \in [1 .. m -> K]
      BY <2>5
    <3> HIDE DEF ends
    <3> QED
      BY <2>6, <2>7, <3>1 DEF Enumerates
  <2>9. m = c /\ ends = last
    <3> HIDE DEF m, ends
    <3> QED
      BY <1>1, <1>2, <2>8, EnumerationUnique
  <2>10. DOMAIN last = 1 .. m
    BY <2>9
  <2> HIDE DEF m
  <2>11. \A f \in 1 .. m : last[f] = runs[f].last
    BY <2>9
  <2>12. ASSUME NEW f \in 1 .. m
         PROVE  runs[f] = Run(IF f = 1 THEN 1 ELSE last[f - 1] + 1, last[f])
    <3>1. runs[f].first = IF f = 1 THEN 1 ELSE last[f - 1] + 1
      <4>1. CASE f = 1
        BY <2>1, <4>1 DEF Covers
      <4>2. CASE f # 1
        <5>1. f - 1 \in 1 .. m /\ f - 1 < m /\ (f - 1) + 1 = f
          BY <1>2, <4>2
        <5>2. runs[(f - 1) + 1].first = runs[f - 1].last + 1
          BY <1>2, <2>1, <5>1 DEF Covers, m
        <5> QED
          BY <2>11, <4>2, <5>1, <5>2
      <4> QED
        BY <4>1, <4>2
    <3>2. runs[f] \in Runs
      BY <1>2
    <3>3. runs[f] = [first |-> runs[f].first, last |-> runs[f].last]
      BY <3>2 DEF Runs
    <3> QED
      BY <2>11, <3>1, <3>3 DEF Run
  <2> DEFINE b == [f \in 1 .. m |-> Run(IF f = 1 THEN 1 ELSE last[f - 1] + 1, last[f])]
  <2>13. BoundariesOf(s) = b
    BY <1>5, <2>10
  <2>14. runs = [f \in 1 .. m |-> runs[f]]
    BY <1>2
  <2>15. runs = b
    BY <2>12, <2>14
  <2> QED
    BY <2>13, <2>15
<1> QED
  BY <1>6, <1>7

LEMMA BoundariesCut ==
  ASSUME NEW s \in Seq(Instructions)
  PROVE  CutAtReturns(BoundariesOf(s), s)
<1> DEFINE K == Cuts(s)
           c == Cardinality(K)
           last == Ascending(K)
           n == Len(s)
           runs == BoundariesOf(s)
           first(f) == IF f = 1 THEN 1 ELSE last[f - 1] + 1
<1>1. K \subseteq 1 .. n /\ c \in Nat /\ Enumerates(last, c, K)
  BY CutsListed
<1>2. n \in Nat /\ DOMAIN s = 1 .. n /\ (s = <<>> <=> n = 0)
  BY LengthOf
<1>3. \A k \in 1 .. n : k \in K <=> EndsFunction(s[k]) \/ k = n
  BY <1>2, Zenon DEF Cuts
<1>4. runs = [f \in DOMAIN last |-> Run(first(f), last[f])]
  BY DEF BoundariesOf, Cuts
<1> HIDE DEF K, c, last, n, runs
<1>5. /\ last \in [1 .. c -> K]
      /\ \A k \in K : \E f \in 1 .. c : last[f] = k
      /\ \A p, q \in 1 .. c : p < q => last[p] < last[q]
  BY <1>1 DEF Enumerates
<1>6. \A f \in 1 .. c : last[f] \in 1 .. n
  BY <1>1, <1>5
<1>7. \A f \in 1 .. c : f # 1 => f - 1 \in 1 .. c /\ f - 1 < f /\ last[f - 1] < last[f]
                                  /\ last[f - 1] \in 1 .. n
  BY <1>1, <1>5, <1>6
<1>8. \A f \in 1 .. c : first(f) \in 1 .. n /\ first(f) <= last[f]
  BY <1>2, <1>6, <1>7
<1> HIDE DEF first
<1>9. ASSUME NEW f \in 1 .. c
      PROVE  runs[f] \in Runs /\ runs[f].first = first(f) /\ runs[f].last = last[f]
  <2>1. runs[f] = Run(first(f), last[f])
    BY <1>4, <1>5
  <2>2. first(f) \in Nat /\ last[f] \in Nat
    BY <1>2, <1>6, <1>8
  <2> QED
    BY <2>1, <2>2 DEF Run, Runs
<1>10. runs \in Seq(Runs) /\ Len(runs) = c /\ DOMAIN runs = 1 .. c
  <2>1. runs \in [1 .. c -> Runs]
    BY <1>4, <1>5, <1>9
  <2> QED
    BY <1>1, <2>1
<1>11. ASSUME n = 0 PROVE c = 0
  <2>1. 1 .. n = {}
    BY <1>11
  <2>2. 1 .. c = {}
    BY <1>6, <2>1
  <2> QED
    BY <1>1, <2>2
<1>12. ASSUME n # 0 PROVE Covers(runs, n)
  <2>1. n \in K
    BY <1>2, <1>3, <1>12
  <2>2. PICK f \in 1 .. c : last[f] = n
    BY <1>5, <2>1
  <2>3. c \in 1 .. c /\ 1 \in 1 .. c
    BY <1>1, <2>2
  <2>4. f = c
    <3> SUFFICES ASSUME f # c PROVE FALSE
      OBVIOUS
    <3>1. f < c
      BY <1>1
    <3>2. last[f] < last[c]
      BY <1>5, <2>3, <3>1
    <3> QED
      BY <1>2, <1>6, <2>2, <2>3, <3>2
  <2>5. runs # <<>> /\ runs[1].first = 1 /\ runs[Len(runs)].last = n
    <3>1. runs[1].first = first(1) /\ runs[c].last = last[c]
      BY <1>9, <2>3
    <3>2. runs # <<>>
      BY <1>10, <2>3
    <3> QED
      BY <1>10, <2>2, <2>4, <3>1, <3>2 DEF first
  <2>6. ASSUME NEW k \in 1 .. c
        PROVE  /\ runs[k].first <= runs[k].last
               /\ k < c => runs[k + 1].first = runs[k].last + 1
    <3>1. runs[k].first <= runs[k].last
      BY <1>8, <1>9
    <3>2. ASSUME k < c PROVE runs[k + 1].first = runs[k].last + 1
      <4>1. k + 1 \in 1 .. c /\ k + 1 # 1 /\ (k + 1) - 1 = k
        BY <1>1, <3>2
      <4>2. runs[k + 1].first = last[k] + 1
        BY <1>9, <4>1 DEF first
      <4> QED
        BY <1>9, <4>2
    <3> QED
      BY <3>1, <3>2
  <2> QED
    BY <1>10, <2>5, <2>6 DEF Covers
<1>13. ASSUME NEW f \in 1 .. c, NEW k \in first(f) .. last[f] - 1 PROVE ~EndsFunction(s[k])
  <2>1. k \in 1 .. n /\ k < last[f] /\ k >= first(f) /\ last[f] \in 1 .. n
    BY <1>2, <1>6, <1>8
  <2>2. k \notin K
    <3> SUFFICES ASSUME k \in K PROVE FALSE
      OBVIOUS
    <3>1. PICK g \in 1 .. c : last[g] = k
      BY <1>5
    <3>2. g < f
      <4>1. ~(f < g)
        <5> SUFFICES ASSUME f < g PROVE FALSE
          OBVIOUS
        <5>1. last[f] < k
          BY <1>5, <3>1
        <5> QED
          BY <1>2, <2>1, <5>1
      <4>2. g # f
        BY <1>2, <2>1, <3>1
      <4> QED
        BY <1>1, <4>1, <4>2
    <3>3. f # 1 /\ f - 1 \in 1 .. c /\ (g = f - 1 \/ g < f - 1)
      BY <1>1, <3>2
    <3>4. last[f - 1] \in Nat /\ k >= last[f - 1] + 1
      BY <1>2, <1>7, <2>1, <3>3 DEF first
    <3>5. k <= last[f - 1]
      <4>1. CASE g = f - 1
        BY <1>2, <2>1, <3>1, <3>4, <4>1
      <4>2. CASE g < f - 1
        <5>1. k < last[f - 1]
          BY <1>5, <3>1, <3>3, <4>2
        <5> QED
          BY <1>2, <2>1, <3>4, <5>1
      <4> QED
        BY <3>3, <4>1, <4>2
    <3> QED
      BY <1>2, <2>1, <3>4, <3>5
  <2> QED
    BY <1>3, <2>1, <2>2
<1>14. ASSUME NEW f \in 1 .. c
       PROVE  /\ EndsFunction(s[runs[f].last]) \/ runs[f].last = Len(s)
              /\ \A k \in runs[f].first .. runs[f].last - 1 : ~EndsFunction(s[k])
  <2>1. last[f] \in K /\ last[f] \in 1 .. n
    BY <1>5, <1>6
  <2>2. EndsFunction(s[last[f]]) \/ last[f] = n
    BY <1>3, <2>1
  <2> QED
    BY <1>9, <1>13, <2>2 DEF n
<1>15. s = <<>> => runs = <<>>
  BY <1>2, <1>10, <1>11
<1>16. s # <<>> => Covers(runs, n)
  BY <1>2, <1>12
<1>17. CutAtReturns(runs, s)
  <2> HIDE DEF n
  <2>1. n = Len(s)
    BY DEF n
  <2> QED
    BY <1>10, <1>14, <1>15, <1>16, <2>1 DEF CutAtReturns
<1> QED
  BY <1>17 DEF runs

\* The bodies of the functions divide the listing.
Divides(bodies, s) ==
  /\ bodies \in Seq(Seq(Instructions))
  /\ \A f \in 1 .. Len(bodies) : Ascends(bodies[f])
  /\ UNION {Range(bodies[f]) : f \in 1 .. Len(bodies)} = Range(s)
  /\ \A f, g \in 1 .. Len(bodies) : f < g => Precede(Range(bodies[f]), Range(bodies[g]))

LEMMA BodiesDivide ==
  ASSUME NEW s \in Seq(Instructions), Ascends(s), NEW runs, CutAtReturns(runs, s)
  PROVE  Divides(FunctionBodies(s, runs), s)
<1> DEFINE n == Len(s)
           m == Len(runs)
           bodies == FunctionBodies(s, runs)
<1>1. n \in Nat /\ m \in Nat /\ DOMAIN runs = 1 .. m /\ runs \in Seq(Runs) /\ (s = <<>> <=> n = 0)
      /\ (s = <<>> => m = 0) /\ (s # <<>> => Covers(runs, n))
  BY DEF CutAtReturns
<1>2. bodies = [f \in 1 .. m |-> SubSeq(s, runs[f].first, runs[f].last)]
  BY <1>1 DEF FunctionBodies
<1>3. \A f \in 1 .. m : /\ runs[f].first \in 1 .. n /\ runs[f].last \in 1 .. n
                        /\ runs[f].first <= runs[f].last
  <2>1. CASE s = <<>>
    BY <1>1, <2>1
  <2>2. CASE s # <<>>
    <3>1. Covers(runs, n)
      BY <1>1, <2>2
    <3> QED
      BY <1>1, <3>1, CoverBounds
  <2> QED
    BY <2>1, <2>2
<1>4. ASSUME NEW f \in 1 .. m
      PROVE  /\ bodies[f] \in Seq(Instructions) /\ Ascends(bodies[f])
             /\ Range(bodies[f]) = Part(s, runs[f].first, runs[f].last + 1)
  <2> DEFINE lo == runs[f].first
             hi == runs[f].last + 1
  <2>1. lo \in 1 .. n + 1 /\ hi \in 1 .. n + 1 /\ hi - 1 = runs[f].last
    BY <1>1, <1>3
  <2>2. bodies[f] = SubSeq(s, lo, hi - 1)
    BY <1>2, <2>1
  <2> HIDE DEF lo, hi, bodies
  <2>3. bodies[f] \in Seq(Instructions) /\ Ascends(bodies[f]) /\ Range(bodies[f]) = Part(s, lo, hi)
    BY <2>1, <2>2, WindowPart
  <2> QED
    BY <2>3 DEF lo, hi
<1> HIDE DEF bodies
<1>5. bodies \in Seq(Seq(Instructions)) /\ Len(bodies) = m
  <2>1. bodies \in [1 .. m -> Seq(Instructions)]
    BY <1>2, <1>4
  <2> QED
    BY <1>1, <2>1
<1> HIDE DEF n, m
<1>6. ASSUME NEW f \in 1 .. m, NEW g \in 1 .. m, f < g
      PROVE  Precede(Range(bodies[f]), Range(bodies[g]))
  <2>1. Covers(runs, n)
    BY <1>1
  <2>2. runs[f].last < runs[g].first
    BY <1>1, <1>6, <2>1, CoversOrdered
  <2>3. ASSUME NEW j \in runs[f].first .. (runs[f].last + 1) - 1,
               NEW k \in runs[g].first .. (runs[g].last + 1) - 1
        PROVE  j \in 1 .. n /\ k \in 1 .. n /\ j < k
    <3> DEFINE x == runs[f].first
               y == runs[f].last
               u == runs[g].first
               v == runs[g].last
    <3>1. /\ x \in 1 .. n /\ y \in 1 .. n /\ u \in 1 .. n /\ v \in 1 .. n /\ y < u /\ n \in Nat
          /\ j \in x .. (y + 1) - 1 /\ k \in u .. (v + 1) - 1
      BY <1>1, <1>3, <2>2
    <3> HIDE DEF x, y, u, v
    <3> QED
      BY <3>1
  <2>4. \A j, k \in 1 .. n : j < k => s[j].at < s[k].at
    BY DEF Ascends, n
  <2>5. Precede(Part(s, runs[f].first, runs[f].last + 1), Part(s, runs[g].first, runs[g].last + 1))
    BY <2>3, <2>4 DEF Precede, Part
  <2> QED
    BY <1>4, <2>5
<1>7. Range(s) = {s[k] : k \in 1 .. n}
  BY DEF Range, n
<1>8. ASSUME NEW f \in 1 .. m, NEW x \in Range(bodies[f]) PROVE x \in Range(s)
  <2>1. x \in Part(s, runs[f].first, runs[f].last + 1)
    BY <1>4
  <2>2. \A k \in runs[f].first .. (runs[f].last + 1) - 1 : k \in 1 .. n
    BY <1>1, <1>3
  <2> QED
    BY <1>7, <2>1, <2>2 DEF Part
<1>9. ASSUME NEW k \in 1 .. n PROVE \E f \in 1 .. m : s[k] \in Range(bodies[f])
  <2>1. Covers(runs, n)
    BY <1>1
  <2>2. Reached(runs, n + 1) /\ k \in 1 .. (n + 1) - 1
    BY <1>1, <2>1, CoversReached
  <2>3. PICK f \in 1 .. m : k \in runs[f].first .. runs[f].last
    BY <1>1, <2>2 DEF Reached
  <2>4. k \in runs[f].first .. (runs[f].last + 1) - 1
    BY <1>1, <1>3, <2>3
  <2>5. s[k] \in Part(s, runs[f].first, runs[f].last + 1)
    BY <2>4 DEF Part
  <2> QED
    BY <1>4, <2>5
<1>10. UNION {Range(bodies[f]) : f \in 1 .. m} \subseteq Range(s)
  BY <1>8
<1>11. Range(s) \subseteq UNION {Range(bodies[f]) : f \in 1 .. m}
  BY <1>7, <1>9
<1>12. UNION {Range(bodies[f]) : f \in 1 .. m} = Range(s)
  BY <1>10, <1>11
<1>13. Divides(bodies, s)
  BY <1>4, <1>5, <1>6, <1>12 DEF Divides
<1> QED
  BY <1>13 DEF bodies

-----------------------------------------------------------------------------
(***************************************************************************)
(* diff_binaries: the functions by position.                               *)
(***************************************************************************)
\* What the function at a position holds, nothing when there is none.
Reads(bodies, n) == IF n <= Len(bodies) THEN Range(bodies[n]) ELSE {}

LEMMA ReadsDivide ==
  ASSUME NEW s \in Seq(Instructions), NEW bodies, Divides(bodies, s),
         NEW n \in Nat, Len(bodies) <= n
  PROVE  /\ Len(bodies) \in Nat
         /\ \A k \in 1 .. n : Reads(bodies, k) \in SUBSET Instructions
         /\ \A j, k \in 1 .. n : j < k => Precede(Reads(bodies, j), Reads(bodies, k))
         /\ Together([k \in 1 .. n |-> Reads(bodies, k)], n) = Range(s)
<1> DEFINE m == Len(bodies)
           read == [k \in 1 .. n |-> Reads(bodies, k)]
<1>1. m \in Nat /\ \A k \in 1 .. m : bodies[k] \in Seq(Instructions)
  BY DEF Divides
<1>2. \A k \in 1 .. m : Range(bodies[k]) \in SUBSET Instructions
  <2>1. \A x \in Seq(Instructions) : Range(x) \in SUBSET Instructions
    BY DEF Range
  <2> QED
    BY <1>1, <2>1
<1>3. /\ \A f, g \in 1 .. m : f < g => Precede(Range(bodies[f]), Range(bodies[g]))
      /\ UNION {Range(bodies[f]) : f \in 1 .. m} = Range(s)
  BY DEF Divides
<1>4. /\ \A k \in 1 .. n : k <= m => k \in 1 .. m /\ Reads(bodies, k) = Range(bodies[k])
      /\ \A k \in 1 .. n : ~(k <= m) => Reads(bodies, k) = {}
  BY <1>1 DEF Reads
<1> HIDE DEF m
<1>5. \A k \in 1 .. n : Reads(bodies, k) \in SUBSET Instructions
  BY <1>2, <1>4
<1>6. ASSUME NEW j \in 1 .. n, NEW k \in 1 .. n, j < k
      PROVE  Precede(Reads(bodies, j), Reads(bodies, k))
  <2>1. CASE k <= m
    <3>1. j <= m
      BY <1>1, <1>6, <2>1
    <3> QED
      BY <1>3, <1>4, <1>6, <2>1, <3>1
  <2>2. CASE ~(k <= m)
    BY <1>4, <2>2 DEF Precede
  <2> QED
    BY <2>1, <2>2
<1>7. \A k \in 1 .. n : read[k] = Reads(bodies, k)
  OBVIOUS
<1> HIDE DEF read
<1>8. ASSUME NEW x \in Together(read, n) PROVE x \in Range(s)
  <2>1. PICK k \in 1 .. n : x \in Reads(bodies, k)
    BY <1>7, TogetherHolds
  <2>2. k <= m
    BY <1>4, <2>1
  <2> QED
    BY <1>3, <1>4, <2>1, <2>2
<1>9. ASSUME NEW x \in Range(s) PROVE x \in Together(read, n)
  <2>1. PICK f \in 1 .. m : x \in Range(bodies[f])
    BY <1>3
  <2>2. f \in 1 .. n /\ f <= m
    BY <1>1, <2>1 DEF m
  <2>3. x \in read[f]
    BY <1>4, <1>7, <2>1, <2>2
  <2> QED
    BY <2>2, <2>3, TogetherHolds
<1>10. Together(read, n) = Range(s)
  BY <1>8, <1>9
<1> QED
  BY <1>1, <1>5, <1>6, <1>10 DEF m, read

\* A pair of functions is compared: the deltas are certified, and without any
\* when the pair is called unchanged.
Compared(d, A, B) ==
  /\ d.deltas \in Seq(Deltas)
  /\ \E M : Certifies(M, d.deltas, A, B)
  /\ d.status = "unchanged" => d.deltas = <<>>

LEMMA FunctionCompared ==
  ASSUME NEW s \in Seq(Instructions), NEW t \in Seq(Instructions),
         NEW before, NEW after, Divides(before, s), Divides(after, t),
         NEW n \in 1 .. Max({Len(before), Len(after)})
  PROVE  /\ Compared(DiffFunction(n, before, after), Reads(before, n), Reads(after, n))
         /\ before = after => DiffFunction(n, before, after).status = "unchanged"
<1> DEFINE p == Len(before)
           q == Len(after)
           d == DiffFunction(n, before, after)
           function(status, deltas) == [index |-> n, status |-> status, deltas |-> deltas]
<1>1. /\ p \in Nat /\ \A k \in 1 .. p : before[k] \in Seq(Instructions) /\ Ascends(before[k])
      /\ q \in Nat /\ \A k \in 1 .. q : after[k] \in Seq(Instructions) /\ Ascends(after[k])
  BY DEF Divides
<1>2. n \in Nat /\ 1 <= n /\ (n <= p \/ n <= q)
  <2>1. Max({p, q}) \in {p, q} /\ n \in 1 .. Max({p, q})
    BY <1>1, GreaterOfTwo
  <2> QED
    BY <1>1, <2>1
<1>3. <<>> \in Seq(Instructions) /\ Ascends(<<>>) /\ Range(<<>>) = {}
  BY DEF Ascends, Range
<1>4. CASE n > p
  <2>1. n \in 1 .. q /\ ~(n <= p) /\ n <= q
    BY <1>1, <1>2, <1>4
  <2>2. d = function("added", Changes(<<>>, after[n]))
    BY <1>4 DEF DiffFunction
  <2>3. d.deltas = Changes(<<>>, after[n]) /\ d.status = "added"
    BY <2>2
  <2>4. Reads(before, n) = {} /\ Reads(after, n) = Range(after[n])
    BY <2>1 DEF Reads
  <2> HIDE DEF d
  <2>5. /\ Changes(<<>>, after[n]) \in Seq(Deltas)
        /\ Certifies({}, Changes(<<>>, after[n]), Range(<<>>), Range(after[n]))
    BY <1>1, <1>3, <2>1, ChangesCertified
  <2>6. Compared(d, Reads(before, n), Reads(after, n))
    BY <1>3, <2>3, <2>4, <2>5 DEF Compared
  <2>7. before # after
    BY <2>1 DEF p, q
  <2> QED
    BY <2>6, <2>7 DEF d
<1>5. CASE ~(n > p) /\ n > q
  <2>1. n \in 1 .. p /\ ~(n <= q) /\ n <= p
    BY <1>1, <1>2, <1>5
  <2>2. d = function("removed", Changes(before[n], <<>>))
    BY <1>5 DEF DiffFunction
  <2>3. d.deltas = Changes(before[n], <<>>) /\ d.status = "removed"
    BY <2>2
  <2>4. Reads(after, n) = {} /\ Reads(before, n) = Range(before[n])
    BY <2>1 DEF Reads
  <2> HIDE DEF d
  <2>5. /\ Changes(before[n], <<>>) \in Seq(Deltas)
        /\ Certifies({}, Changes(before[n], <<>>), Range(before[n]), Range(<<>>))
    BY <1>1, <1>3, <2>1, ChangesCertified
  <2>6. Compared(d, Reads(before, n), Reads(after, n))
    BY <1>3, <2>3, <2>4, <2>5 DEF Compared
  <2>7. before # after
    BY <2>1 DEF p, q
  <2> QED
    BY <2>6, <2>7 DEF d
<1>6. CASE ~(n > p) /\ ~(n > q)
  <2> DEFINE deltas == InstructionDiff(before[n], after[n])
  <2>1. n \in 1 .. p /\ n \in 1 .. q /\ n <= p /\ n <= q
    BY <1>1, <1>2, <1>6
  <2>2. d = function(IF deltas = <<>> THEN "unchanged" ELSE "modified", deltas)
    BY <1>6 DEF DiffFunction
  <2> HIDE DEF deltas
  <2>3. d.deltas = deltas /\ d.status = IF deltas = <<>> THEN "unchanged" ELSE "modified"
    BY <2>2
  <2>4. Reads(after, n) = Range(after[n]) /\ Reads(before, n) = Range(before[n])
    BY <2>1 DEF Reads
  <2> HIDE DEF d
  <2>5. deltas \in Seq(Deltas) /\ \E M : Certifies(M, deltas, Range(before[n]), Range(after[n]))
    BY <1>1, <2>1, InstructionDiffCertified DEF deltas
  <2>6. Compared(d, Reads(before, n), Reads(after, n))
    BY <2>3, <2>4, <2>5 DEF Compared
  <2>7. before = after => deltas = <<>>
    BY <1>1, <2>1, DiffOfSame DEF deltas
  <2> QED
    BY <2>3, <2>6, <2>7 DEF d
<1> QED
  BY <1>4, <1>5, <1>6

Joined(n, sides) == [k \in 1 .. n |-> FlattenSeq(sides[k])]

TellEach(n, sides, A, S) ==
  \A k \in 1 .. n : /\ sides[k] \in Seq(Side) /\ A[k] \in SUBSET Instructions
                     /\ Tells(sides[k], A[k], S[k])

InTurn(n, A) == \A j, k \in 1 .. n : j < k => Precede(A[j], A[k])

LEMMA SidesFlattened ==
  ASSUME NEW n \in Nat, NEW sides, NEW A, NEW S,
         TellEach(n, sides, A, S), InTurn(n, A),
         NEW X, X = Joined(n, sides)
  PROVE  /\ FlattenSeq(X) \in Seq(Instructions) /\ Ordered(FlattenSeq(X), Earlier)
         /\ Range(FlattenSeq(X)) = Together(A, n) \ Together(S, n)
<1> DEFINE C == [k \in 1 .. n |-> A[k] \ S[k]]
<1> USE DEF TellEach, InTurn
<1>1. ASSUME NEW k \in 1 .. n
      PROVE  /\ X[k] \in Seq(Instructions) /\ Ordered(X[k], Earlier) /\ Range(X[k]) = C[k]
             /\ S[k] \subseteq A[k]
  <2>1. /\ FlattenSeq(sides[k]) \in Seq(Instructions) /\ Ordered(FlattenSeq(sides[k]), Earlier)
        /\ Range(FlattenSeq(sides[k])) = A[k] \ S[k]
    BY SideFlattened
  <2>2. X[k] = FlattenSeq(sides[k])
    BY DEF Joined
  <2>3. S[k] \subseteq A[k]
    BY DEF Tells
  <2> QED
    BY <2>1, <2>2, <2>3
<1>2. X \in [1 .. n -> Seq(Instructions)]
  BY <1>1 DEF Joined
<1>3. \A k \in 1 .. n : C[k] = A[k] \ S[k]
  OBVIOUS
<1> HIDE DEF C
<1>4. \A j, k \in 1 .. n : j < k => Precede(C[j], C[k])
  BY <1>3 DEF Precede
<1>5. /\ FlattenSeq(X) \in Seq(Instructions) /\ Ordered(FlattenSeq(X), Earlier)
      /\ Range(FlattenSeq(X)) = Together(C, n)
  BY <1>1, <1>2, <1>4, FunctionsFlattened
<1>6. ASSUME NEW j \in 1 .. n, NEW k \in 1 .. n, NEW x \in A[j], x \in A[k] PROVE j = k
  <2>1. \A y \in A[j] : ~(y.at < y.at)
    BY InstructionAt
  <2>2. ~(j < k) /\ ~(k < j)
    BY <1>6, <2>1 DEF Precede
  <2> QED
    BY <2>2
<1>7. ASSUME NEW x \in Together(C, n) PROVE x \in Together(A, n) /\ x \notin Together(S, n)
  <2>1. PICK j \in 1 .. n : x \in A[j] /\ x \notin S[j]
    BY <1>3, TogetherHolds
  <2>2. ASSUME NEW k \in 1 .. n PROVE x \notin S[k]
    BY <1>1, <1>6, <2>1
  <2> QED
    BY <2>1, <2>2, TogetherHolds
<1>8. ASSUME NEW x \in Together(A, n), x \notin Together(S, n) PROVE x \in Together(C, n)
  <2>1. PICK j \in 1 .. n : x \in A[j]
    BY TogetherHolds
  <2>2. x \in C[j]
    BY <1>3, <1>8, <2>1, TogetherHolds
  <2> QED
    BY <2>2, TogetherHolds
<1>9. Together(C, n) = Together(A, n) \ Together(S, n)
  BY <1>7, <1>8
<1> QED
  BY <1>5, <1>9

Firsts(M) == {p[1] : p \in M}

Seconds(M) == {p[2] : p \in M}

LEMMA SidesOfPairs ==
  ASSUME NEW M, NEW x
  PROVE  /\ x \in Firsts(M) <=> \E p \in M : p[1] = x
         /\ x \in Seconds(M) <=> \E p \in M : p[2] = x
  BY DEF Firsts, Seconds

BeforesOf(fs) == FlattenSeq([n \in DOMAIN fs |-> FlattenSeq(BeforeSide(fs[n].deltas))])

AftersOf(fs) == FlattenSeq([n \in DOMAIN fs |-> FlattenSeq(AfterSide(fs[n].deltas))])

\* What the report takes from a listing is all that is not kept, in order.
Reported(u, s, S) ==
  u \in Seq(Instructions) /\ Ordered(u, Earlier) /\ Range(u) = Range(s) \ S

ListingsCertified(M, fs, s, t) ==
  /\ M \subseteq Range(s) \X Range(t) /\ Corresponds(M)
  /\ Reported(BeforesOf(fs), s, Firsts(M)) /\ Reported(AftersOf(fs), t, Seconds(M))
  /\ (\A n \in DOMAIN fs : fs[n].deltas = <<>>) =>
       Range(s) \subseteq Firsts(M) /\ Range(t) \subseteq Seconds(M)

\* What corresponds in each of several pairs of functions corresponds in all.
LEMMA CorrespondsTogether ==
  ASSUME NEW n \in Nat, NEW A, NEW B, NEW M,
         \A k \in 1 .. n : /\ A[k] \in SUBSET Instructions /\ B[k] \in SUBSET Instructions
                           /\ M[k] \subseteq A[k] \X B[k] /\ Corresponds(M[k]),
         \A j, k \in 1 .. n : j < k => Precede(A[j], A[k]) /\ Precede(B[j], B[k])
  PROVE  Corresponds(Together(M, n))
<1>1. ASSUME NEW j \in 1 .. n, NEW k \in 1 .. n, j < k, NEW p \in M[j], NEW q \in M[k]
      PROVE  /\ p[1].at < q[1].at /\ p[2].at < q[2].at
             /\ ~(q[1].at < p[1].at) /\ ~(q[2].at < p[2].at)
  <2>1. p[1] \in A[j] /\ p[2] \in B[j] /\ q[1] \in A[k] /\ q[2] \in B[k]
    OBVIOUS
  <2>2. p[1].at < q[1].at /\ p[2].at < q[2].at
    BY <1>1, <2>1 DEF Precede
  <2>3. p[1].at \in Nat /\ q[1].at \in Nat /\ p[2].at \in Nat /\ q[2].at \in Nat
    <3>1. p[1] \in Instructions /\ q[1] \in Instructions /\ p[2] \in Instructions
          /\ q[2] \in Instructions
      BY <2>1
    <3> QED
      BY <3>1, InstructionAt
  <2> QED
    BY <2>2, <2>3
<1>2. ASSUME NEW j \in 1 .. n, NEW p \in M[j] PROVE InstructionKey(p[1]) = InstructionKey(p[2])
  BY DEF Corresponds
<1>3. ASSUME NEW p \in Together(M, n), NEW q \in Together(M, n)
      PROVE  p[1].at < q[1].at <=> p[2].at < q[2].at
  <2>1. PICK j \in 1 .. n : p \in M[j]
    BY TogetherHolds
  <2>2. PICK k \in 1 .. n : q \in M[k]
    BY TogetherHolds
  <2>3. CASE j = k
    <3>1. Corresponds(M[j]) /\ q \in M[j]
      BY <2>2, <2>3
    <3> QED
      BY <2>1, <3>1 DEF Corresponds
  <2>4. CASE j < k
    BY <1>1, <2>1, <2>2, <2>4
  <2>5. CASE k < j
    BY <1>1, <2>1, <2>2, <2>5
  <2> QED
    BY <2>3, <2>4, <2>5
<1>4. ASSUME NEW p \in Together(M, n) PROVE InstructionKey(p[1]) = InstructionKey(p[2])
  BY <1>2, TogetherHolds
<1> QED
  BY <1>3, <1>4 DEF Corresponds

LEMMA FirstsTogether ==
  ASSUME NEW n \in Nat, NEW M, NEW S, \A k \in 1 .. n : S[k] = Firsts(M[k])
  PROVE  Together(S, n) = Firsts(Together(M, n))
<1>1. ASSUME NEW x \in Together(S, n) PROVE x \in Firsts(Together(M, n))
  <2>1. PICK k \in 1 .. n : x \in S[k]
    BY TogetherHolds
  <2>2. x \in Firsts(M[k])
    BY <2>1
  <2>3. PICK e \in M[k] : e[1] = x
    BY <2>2, SidesOfPairs
  <2>4. e \in Together(M, n)
    BY TogetherHolds
  <2> QED
    BY <2>3, <2>4, SidesOfPairs
<1>2. ASSUME NEW x \in Firsts(Together(M, n)) PROVE x \in Together(S, n)
  <2>1. PICK e \in Together(M, n) : e[1] = x
    BY SidesOfPairs
  <2>2. PICK k \in 1 .. n : e \in M[k]
    BY TogetherHolds
  <2>3. x \in Firsts(M[k])
    BY <2>1, <2>2, SidesOfPairs
  <2>4. x \in S[k]
    BY <2>3
  <2> QED
    BY <2>4, TogetherHolds
<1> QED
  BY <1>1, <1>2

LEMMA SecondsTogether ==
  ASSUME NEW n \in Nat, NEW M, NEW S, \A k \in 1 .. n : S[k] = Seconds(M[k])
  PROVE  Together(S, n) = Seconds(Together(M, n))
<1>1. ASSUME NEW x \in Together(S, n) PROVE x \in Seconds(Together(M, n))
  <2>1. PICK k \in 1 .. n : x \in S[k]
    BY TogetherHolds
  <2>2. x \in Seconds(M[k])
    BY <2>1
  <2>3. PICK e \in M[k] : e[2] = x
    BY <2>2, SidesOfPairs
  <2>4. e \in Together(M, n)
    BY TogetherHolds
  <2> QED
    BY <2>3, <2>4, SidesOfPairs
<1>2. ASSUME NEW x \in Seconds(Together(M, n)) PROVE x \in Together(S, n)
  <2>1. PICK e \in Together(M, n) : e[2] = x
    BY SidesOfPairs
  <2>2. PICK k \in 1 .. n : e \in M[k]
    BY TogetherHolds
  <2>3. x \in Seconds(M[k])
    BY <2>1, <2>2, SidesOfPairs
  <2>4. x \in S[k]
    BY <2>3
  <2> QED
    BY <2>4, TogetherHolds
<1> QED
  BY <1>1, <1>2

LEMMA ListingsCompared ==
  ASSUME NEW s \in Seq(Instructions), NEW t \in Seq(Instructions),
         NEW before, NEW after, Divides(before, s), Divides(after, t),
         NEW fs, fs = [n \in 1 .. Max({Len(before), Len(after)}) |-> DiffFunction(n, before, after)]
  PROVE  \E M : ListingsCertified(M, fs, s, t)
<1> DEFINE p == Len(before)
           q == Len(after)
           n == Max({p, q})
           A == [k \in 1 .. n |-> Reads(before, k)]
           B == [k \in 1 .. n |-> Reads(after, k)]
           Mf == [k \in 1 .. n |-> CHOOSE M : Certifies(M, fs[k].deltas, A[k], B[k])]
           S == [k \in 1 .. n |-> Firsts(Mf[k])]
           T == [k \in 1 .. n |-> Seconds(Mf[k])]
           bs == [k \in 1 .. n |-> BeforeSide(fs[k].deltas)]
           as == [k \in 1 .. n |-> AfterSide(fs[k].deltas)]
           X == [k \in 1 .. n |-> FlattenSeq(bs[k])]
           Y == [k \in 1 .. n |-> FlattenSeq(as[k])]
           M == Together(Mf, n)
<1>1. p \in Nat /\ q \in Nat /\ n \in Nat /\ p <= n /\ q <= n
  <2>1. p \in Nat /\ q \in Nat
    BY DEF Divides
  <2> HIDE DEF p, q
  <2>2. n \in {p, q} /\ p <= n /\ q <= n
    BY <2>1, GreaterOfTwo
  <2> QED
    BY <2>1, <2>2
<1>2. \A k \in 1 .. n : Compared(fs[k], Reads(before, k), Reads(after, k))
  BY FunctionCompared
<1>3. DOMAIN fs = 1 .. n
  OBVIOUS
<1> HIDE DEF n
<1>4. \A k \in 1 .. n : A[k] = Reads(before, k) /\ B[k] = Reads(after, k)
  OBVIOUS
<1>5. /\ \A k \in 1 .. n : Reads(before, k) \in SUBSET Instructions
      /\ \A j, k \in 1 .. n : j < k => Precede(Reads(before, j), Reads(before, k))
      /\ Together(A, n) = Range(s)
  BY <1>1, ReadsDivide
<1>6. /\ \A k \in 1 .. n : Reads(after, k) \in SUBSET Instructions
      /\ \A j, k \in 1 .. n : j < k => Precede(Reads(after, j), Reads(after, k))
      /\ Together(B, n) = Range(t)
  BY <1>1, ReadsDivide
<1> HIDE DEF A, B
<1>7. ASSUME NEW k \in 1 .. n
      PROVE  fs[k].deltas \in Seq(Deltas) /\ Certifies(Mf[k], fs[k].deltas, A[k], B[k])
  <2>1. fs[k].deltas \in Seq(Deltas) /\ \E N : Certifies(N, fs[k].deltas, A[k], B[k])
    BY <1>2, <1>4 DEF Compared
  <2>2. Mf[k] = CHOOSE N : Certifies(N, fs[k].deltas, A[k], B[k])
    OBVIOUS
  <2> HIDE DEF Mf
  <2> QED
    BY <2>1, <2>2
<1> HIDE DEF Mf
<1>8. ASSUME NEW k \in 1 .. n
      PROVE  /\ A[k] \in SUBSET Instructions /\ B[k] \in SUBSET Instructions
             /\ Mf[k] \subseteq A[k] \X B[k] /\ Corresponds(Mf[k])
             /\ Tells(bs[k], A[k], S[k]) /\ Tells(as[k], B[k], T[k])
             /\ bs[k] \in Seq(Side) /\ as[k] \in Seq(Side)
             /\ S[k] = Firsts(Mf[k]) /\ T[k] = Seconds(Mf[k])
  <2>1. A[k] \in SUBSET Instructions /\ B[k] \in SUBSET Instructions
    BY <1>4, <1>5, <1>6
  <2>2. /\ Mf[k] \subseteq A[k] \X B[k] /\ Corresponds(Mf[k])
        /\ Tells(BeforeSide(fs[k].deltas), A[k], Firsts(Mf[k]))
        /\ Tells(AfterSide(fs[k].deltas), B[k], Seconds(Mf[k]))
    BY <1>7 DEF Certifies, Firsts, Seconds
  <2>3. BeforeSide(fs[k].deltas) \in Seq(Side) /\ AfterSide(fs[k].deltas) \in Seq(Side)
    BY <1>7, SidesTyped
  <2> QED
    BY <2>1, <2>2, <2>3
<1>9. \A j, k \in 1 .. n : j < k => Precede(A[j], A[k]) /\ Precede(B[j], B[k])
  BY <1>4, <1>5, <1>6
<1>10. \A k \in 1 .. n : /\ bs[k] = BeforeSide(fs[k].deltas) /\ as[k] = AfterSide(fs[k].deltas)
  OBVIOUS
<1>11. BeforesOf(fs) = FlattenSeq(X) /\ AftersOf(fs) = FlattenSeq(Y)
  BY <1>3 DEF BeforesOf, AftersOf
<1> HIDE DEF S, T, bs, as
<1>12. n \in Nat
  BY <1>1
<1>13. X = Joined(n, bs)
  BY DEF Joined
<1>14. Y = Joined(n, as)
  BY DEF Joined
<1>15. M = Together(Mf, n)
  OBVIOUS
<1> HIDE DEF X, Y, M
<1>16. TellEach(n, bs, A, S)
  BY <1>8 DEF TellEach
<1>17. TellEach(n, as, B, T)
  BY <1>8 DEF TellEach
<1>18. InTurn(n, A)
  BY <1>9 DEF InTurn
<1>19. InTurn(n, B)
  BY <1>9 DEF InTurn
<1>20. Together(S, n) = Firsts(M) /\ Together(T, n) = Seconds(M)
  <2>1. \A k \in 1 .. n : S[k] = Firsts(Mf[k])
    BY <1>8
  <2>2. \A k \in 1 .. n : T[k] = Seconds(Mf[k])
    BY <1>8
  <2>3. Together(S, n) = Firsts(M)
    BY <1>1, <1>15, <2>1, FirstsTogether
  <2>4. Together(T, n) = Seconds(M)
    BY <1>1, <1>15, <2>2, SecondsTogether
  <2> QED
    BY <2>3, <2>4
<1>21. /\ FlattenSeq(X) \in Seq(Instructions) /\ Ordered(FlattenSeq(X), Earlier)
       /\ Range(FlattenSeq(X)) = Together(A, n) \ Together(S, n)
  BY <1>12, <1>13, <1>16, <1>18, SidesFlattened
<1>22. /\ FlattenSeq(Y) \in Seq(Instructions) /\ Ordered(FlattenSeq(Y), Earlier)
       /\ Range(FlattenSeq(Y)) = Together(B, n) \ Together(T, n)
  BY <1>12, <1>14, <1>17, <1>19, SidesFlattened
<1>23. Corresponds(M)
  <2>1. \A k \in 1 .. n : /\ A[k] \in SUBSET Instructions /\ B[k] \in SUBSET Instructions
                           /\ Mf[k] \subseteq A[k] \X B[k] /\ Corresponds(Mf[k])
    BY <1>8
  <2> QED
    BY <1>1, <1>9, <1>15, <2>1, CorrespondsTogether
<1>24. M \subseteq Range(s) \X Range(t)
  <2> SUFFICES ASSUME NEW e \in M PROVE e \in Range(s) \X Range(t)
    OBVIOUS
  <2>1. PICK k \in 1 .. n : e \in Mf[k]
    BY <1>15, TogetherHolds
  <2>2. e \in A[k] \X B[k]
    BY <1>8, <2>1
  <2>3. A[k] \subseteq Range(s) /\ B[k] \subseteq Range(t)
    <3>1. ASSUME NEW x \in A[k] PROVE x \in Range(s)
      BY <1>5, TogetherHolds
    <3>2. ASSUME NEW x \in B[k] PROVE x \in Range(t)
      BY <1>6, TogetherHolds
    <3> QED
      BY <3>1, <3>2
  <2> QED
    BY <2>2, <2>3
<1>25. ASSUME \A k \in DOMAIN fs : fs[k].deltas = <<>>
       PROVE  Range(s) \subseteq Firsts(M) /\ Range(t) \subseteq Seconds(M)
  <2>1. ASSUME NEW k \in 1 .. n PROVE A[k] \subseteq S[k] /\ B[k] \subseteq T[k]
    <3>1. fs[k].deltas = <<>>
      BY <1>3, <1>25
    <3>2. bs[k] = BeforeSide(<<>>) /\ as[k] = AfterSide(<<>>)
      BY <1>10, <3>1
    <3>3. Len(BeforeSide(<<>>)) = 0 /\ Len(AfterSide(<<>>)) = 0
      BY DEF BeforeSide, AfterSide
    <3>4. 1 .. Len(bs[k]) = {} /\ 1 .. Len(as[k]) = {}
      BY <3>2, <3>3
    <3> QED
      BY <1>8, <3>4 DEF Tells
  <2>2. ASSUME NEW x \in Range(s) PROVE x \in Firsts(M)
    <3>1. PICK k \in 1 .. n : x \in A[k]
      BY <1>5, TogetherHolds
    <3>2. x \in Together(S, n)
      BY <2>1, <3>1, TogetherHolds
    <3> QED
      BY <1>20, <3>2
  <2>3. ASSUME NEW x \in Range(t) PROVE x \in Seconds(M)
    <3>1. PICK k \in 1 .. n : x \in B[k]
      BY <1>6, TogetherHolds
    <3>2. x \in Together(T, n)
      BY <2>1, <3>1, TogetherHolds
    <3> QED
      BY <1>20, <3>2
  <2> QED
    BY <2>2, <2>3
<1>26. Reported(BeforesOf(fs), s, Firsts(M)) /\ Reported(AftersOf(fs), t, Seconds(M))
  BY <1>5, <1>6, <1>11, <1>20, <1>21, <1>22 DEF Reported
<1>27. ListingsCertified(M, fs, s, t)
  BY <1>25, <1>23, <1>24, <1>26 DEF ListingsCertified
<1> QED
  BY <1>27

Within(s, A) == {k \in 1 .. Len(s) : s[k] \in A}

\* What is not reported of one listing reads as what is not reported of the
\* other.
LEMMA KeptAlike ==
  ASSUME NEW s \in Seq(Instructions), NEW t \in Seq(Instructions), Ascends(s), Ascends(t),
         NEW M, M \subseteq Range(s) \X Range(t), Corresponds(M),
         NEW K, K = Within(s, Firsts(M)),
         NEW L, L = Within(t, Seconds(M))
  PROVE  /\ Cardinality(K) = Cardinality(L)
         /\ \A n \in 1 .. Cardinality(K) :
              InstructionKey(s[Ascending(K)[n]]) = InstructionKey(t[Ascending(L)[n]])
<1> DEFINE P == [k \in K |-> CHOOSE j \in 1 .. Len(t) : <<s[k], t[j]>> \in M]
<1>0. /\ K \subseteq 1 .. Len(s) /\ \A k \in 1 .. Len(s) : k \in K <=> s[k] \in Firsts(M)
      /\ L \subseteq 1 .. Len(t) /\ \A k \in 1 .. Len(t) : k \in L <=> t[k] \in Seconds(M)
  BY DEF Within
<1>1. /\ Len(s) \in Nat /\ Len(t) \in Nat
      /\ \A k \in 1 .. Len(s) : s[k] \in Instructions /\ s[k] \in Range(s)
      /\ \A k \in 1 .. Len(t) : t[k] \in Instructions /\ t[k] \in Range(t)
      /\ \A x \in Range(s) : \E k \in 1 .. Len(s) : s[k] = x
      /\ \A x \in Range(t) : \E k \in 1 .. Len(t) : t[k] = x
  BY DEF Range
<1>2. \A p \in M : p = <<p[1], p[2]>> /\ p[1] \in Range(s) /\ p[2] \in Range(t)
  OBVIOUS
<1>3. ASSUME NEW k \in K PROVE P[k] \in L /\ <<s[k], t[P[k]]>> \in M
  <2>1. PICK p \in M : p[1] = s[k]
    BY <1>0, SidesOfPairs
  <2>2. PICK j \in 1 .. Len(t) : t[j] = p[2]
    BY <1>1, <1>2
  <2>3. <<s[k], t[j]>> \in M
    BY <1>2, <2>1, <2>2
  <2>4. P[k] \in 1 .. Len(t) /\ <<s[k], t[P[k]]>> \in M
    BY <2>3
  <2> HIDE DEF P
  <2>5. <<s[k], t[P[k]]>>[2] = t[P[k]]
    OBVIOUS
  <2>6. t[P[k]] \in Seconds(M)
    BY <2>4, <2>5, SidesOfPairs
  <2> QED
    BY <1>0, <2>4, <2>6
<1>4. P \in [K -> L]
  BY <1>3
<1> HIDE DEF P
<1>5. ASSUME NEW w, NEW x, NEW y, NEW z, <<w, x>> \in M, <<y, z>> \in M
      PROVE  w.at < y.at <=> x.at < z.at
  <2>1. <<w, x>>[1] = w /\ <<w, x>>[2] = x /\ <<y, z>>[1] = y /\ <<y, z>>[2] = z
    OBVIOUS
  <2> QED
    BY <1>5, <2>1 DEF Corresponds
<1>6. /\ \A k \in 1 .. Len(s) : s[k].at \in Nat
      /\ \A k \in 1 .. Len(t) : t[k].at \in Nat
  BY <1>1, InstructionAt
<1>7. \A j, k \in 1 .. Len(t) : t[j].at < t[k].at => j < k
  BY <1>1, <1>6 DEF Ascends
<1>8. ASSUME NEW j \in K, NEW k \in K, j < k PROVE P[j] < P[k]
  <2>1. s[j].at < s[k].at
    BY <1>0, <1>8 DEF Ascends
  <2>2. t[P[j]].at < t[P[k]].at
    BY <1>3, <1>5, <2>1
  <2>3. P[j] \in 1 .. Len(t) /\ P[k] \in 1 .. Len(t)
    BY <1>0, <1>3
  <2> QED
    BY <1>7, <2>2, <2>3
<1>9. ASSUME NEW l \in L PROVE \E k \in K : P[k] = l
  <2>1. PICK p \in M : p[2] = t[l]
    BY <1>0, SidesOfPairs
  <2>2. PICK k \in 1 .. Len(s) : s[k] = p[1]
    BY <1>1, <1>2
  <2>3. k \in K
    BY <1>0, <2>2, SidesOfPairs
  <2>4. <<s[k], t[l]>> \in M
    BY <1>2, <2>1, <2>2
  <2>5. ~(s[k].at < s[k].at)
    BY <1>6
  <2>6. ~(t[P[k]].at < t[l].at) /\ ~(t[l].at < t[P[k]].at)
    BY <1>0, <1>3, <1>5, <2>3, <2>4, <2>5
  <2>7. P[k] \in 1 .. Len(t) /\ l \in 1 .. Len(t)
    BY <1>0, <1>3, <2>3
  <2>8. \A f, g \in 1 .. Len(t) : f < g => t[f].at < t[g].at
    BY DEF Ascends
  <2>9. ~(P[k] < l) /\ ~(l < P[k])
    BY <2>6, <2>7, <2>8
  <2>10. P[k] \in Int /\ l \in Int
    BY <1>1, <2>7
  <2>11. P[k] = l
    BY <2>9, <2>10
  <2> QED
    BY <2>3, <2>11
<1>10. /\ K \in SUBSET Int /\ IsFiniteSet(K) /\ L \in SUBSET Int /\ IsFiniteSet(L)
  <2>2. IsFiniteSet(1 .. Len(s)) /\ IsFiniteSet(1 .. Len(t))
    BY <1>1, FS_Interval
  <2> QED
    BY <1>0, <2>2, FS_Subset
<1>11. /\ Cardinality(K) = Cardinality(L) /\ Cardinality(K) \in Nat
       /\ Enumerates(Ascending(K), Cardinality(K), K)
       /\ \A n \in 1 .. Cardinality(K) : Ascending(L)[n] = P[Ascending(K)[n]]
  <2>1. Carries(P, K, L)
    BY <1>4, <1>8, <1>9 DEF Carries
  <2>2. Cardinality(K) \in Nat /\ Enumerates(Ascending(K), Cardinality(K), K)
    BY <1>10, AscendingEnumerates
  <2>3. Cardinality(K) = Cardinality(L)
        /\ \A n \in 1 .. Cardinality(K) : Ascending(L)[n] = P[Ascending(K)[n]]
    BY <1>10, <2>1, EnumerationCarried
  <2> QED
    BY <2>2, <2>3
<1>12. ASSUME NEW n \in 1 .. Cardinality(K)
       PROVE  InstructionKey(s[Ascending(K)[n]]) = InstructionKey(t[Ascending(L)[n]])
  <2>1. Ascending(K)[n] \in K /\ Ascending(L)[n] = P[Ascending(K)[n]]
    BY <1>11 DEF Enumerates
  <2>2. <<s[Ascending(K)[n]], t[Ascending(L)[n]]>> \in M
    BY <1>3, <2>1
  <2>3. /\ <<s[Ascending(K)[n]], t[Ascending(L)[n]]>>[1] = s[Ascending(K)[n]]
        /\ <<s[Ascending(K)[n]], t[Ascending(L)[n]]>>[2] = t[Ascending(L)[n]]
    OBVIOUS
  <2> QED
    BY <2>2, <2>3 DEF Corresponds
<1> QED
  BY <1>11, <1>12

Readings(s, K) == [n \in 1 .. Cardinality(K) |-> Reading(s[Ascending(K)[n]])]

LEMMA KeptReadings ==
  ASSUME NEW s \in Seq(Instructions), NEW u, NEW S, Reported(u, s, S)
  PROVE  Kept(s, u) = Readings(s, Within(s, S))
<1> DEFINE n == Len(s)
           J == {k \in DOMAIN s : ~Contains(u, s[k])}
           K == Within(s, S)
<1>1. n \in Nat /\ DOMAIN s = 1 .. n /\ \A k \in 1 .. n : s[k] \in Range(s)
  BY DEF Range
<1>2. \A x : Contains(u, x) <=> x \in Range(u)
  BY DEF Contains, Range, Reported
<1>3. ASSUME NEW k \in 1 .. n PROVE ~Contains(u, s[k]) <=> s[k] \in S
  BY <1>1, <1>2 DEF Reported
<1>4. J = K
  <2>1. ASSUME NEW k \in J PROVE k \in K
    BY <1>1, <1>3 DEF Within
  <2>2. ASSUME NEW k \in K PROVE k \in J
    BY <1>1, <1>3 DEF Within
  <2> HIDE DEF J, K
  <2> QED
    BY <2>1, <2>2
<1>5. K \in SUBSET (1 .. Len(s))
  BY DEF Within
<1>6. Kept(s, u) = [k \in DOMAIN Keep(s, J) |-> Reading(Keep(s, J)[k])]
  BY DEF Kept
<1> HIDE DEF J, K, n
<1>7. /\ Keep(s, K) \in [1 .. Cardinality(K) -> Instructions]
      /\ \A m \in 1 .. Cardinality(K) : Keep(s, K)[m] = s[Ascending(K)[m]]
  BY <1>5, KeepInOrder
<1>8. Kept(s, u) = [m \in 1 .. Cardinality(K) |-> Reading(s[Ascending(K)[m]])]
  <2>1. DOMAIN Keep(s, K) = 1 .. Cardinality(K)
    BY <1>7
  <2>2. Kept(s, u) = [m \in 1 .. Cardinality(K) |-> Reading(Keep(s, K)[m])]
    BY <1>4, <1>6, <2>1
  <2> QED
    BY <1>7, <2>2
<1> QED
  BY <1>8 DEF Readings, K

LEMMA KeysRead ==
  ASSUME NEW x, NEW y, InstructionKey(x) = InstructionKey(y)
  PROVE  /\ x.op = y.op /\ x.literal = y.literal /\ x.size = y.size
         /\ Reading(x) = Reading(y)
<1>1. /\ InstructionKey(x).op = x.op /\ InstructionKey(x).literal = x.literal
      /\ InstructionKey(x).size = x.size
  BY DEF InstructionKey
<1>2. /\ InstructionKey(y).op = y.op /\ InstructionKey(y).literal = y.literal
      /\ InstructionKey(y).size = y.size
  BY DEF InstructionKey
<1>3. x.op = y.op /\ x.literal = y.literal /\ x.size = y.size
  BY <1>1, <1>2
<1> QED
  BY <1>3 DEF Reading

\* Without what the report tells the listings read the same.
LEMMA KeptReadsAlike ==
  ASSUME NEW s \in Seq(Instructions), NEW t \in Seq(Instructions), Ascends(s), Ascends(t),
         NEW fs, NEW M, ListingsCertified(M, fs, s, t)
  PROVE  Kept(s, BeforesOf(fs)) = Kept(t, AftersOf(fs))
<1> DEFINE K == Within(s, Firsts(M))
           L == Within(t, Seconds(M))
<1>1. Kept(s, BeforesOf(fs)) = Readings(s, K)
  BY KeptReadings DEF ListingsCertified
<1>2. Kept(t, AftersOf(fs)) = Readings(t, L)
  BY KeptReadings DEF ListingsCertified
<1>3. /\ Cardinality(K) = Cardinality(L)
      /\ \A n \in 1 .. Cardinality(K) :
           InstructionKey(s[Ascending(K)[n]]) = InstructionKey(t[Ascending(L)[n]])
  BY KeptAlike DEF ListingsCertified
<1> HIDE DEF K, L
<1>4. \A n \in 1 .. Cardinality(K) :
        Reading(s[Ascending(K)[n]]) = Reading(t[Ascending(L)[n]])
  BY <1>3, KeysRead
<1>5. Readings(s, K) = Readings(t, L)
  BY <1>3, <1>4 DEF Readings
<1> QED
  BY <1>1, <1>2, <1>5

LEMMA ListingAscends ==
  ASSUME NEW s, IsListing(s)
  PROVE  s \in Seq(Instructions) /\ Ascends(s)
<1> DEFINE n == Len(s)
<1>1. s \in Seq(Instructions) /\ \A k \in 1 .. n - 1 : s[k + 1].at = s[k].at + s[k].size
  BY DEF IsListing
<1>2. n \in Nat /\ \A k \in 1 .. n : s[k].at \in Nat /\ s[k].size \in Nat /\ s[k].size > 0
  <2>1. n \in Nat /\ \A k \in 1 .. n : s[k] \in Instructions
    BY <1>1
  <2>2. \A x \in Instructions : x.at \in Nat /\ x.size \in Nat /\ x.size > 0
    BY LayoutAssumption DEF Instructions
  <2> QED
    BY <2>1, <2>2
<1> HIDE DEF n
<1>3. ASSUME NEW m \in 1 .. n PROVE \A k \in 1 .. n : m < k => s[m].at < s[k].at
  <2> DEFINE Q == {k \in Nat : k \in 1 .. n /\ m < k => s[m].at < s[k].at}
  <2>1. 1 \in Q
    OBVIOUS
  <2>2. ASSUME NEW k \in 1 .. n - 1, k \in Q PROVE k + 1 \in Q
    <3>1. k \in 1 .. n /\ k + 1 \in 1 .. n /\ k + 1 \in Nat
      BY <1>2
    <3>2. s[k].at < s[k + 1].at
      <4>1. s[k + 1].at = s[k].at + s[k].size
        BY <1>1
      <4>2. s[k].at \in Nat /\ s[k].size \in Nat /\ s[k].size > 0
        BY <1>2, <3>1
      <4> HIDE DEF Q
      <4> QED
        BY <4>1, <4>2
    <3>3. ASSUME m < k + 1 PROVE s[m].at < s[k + 1].at
      <4>1. CASE m = k
        BY <3>2, <4>1
      <4>2. CASE m < k
        <5>1. s[m].at < s[k].at
          BY <2>2, <3>1, <4>2
        <5>2. s[m].at \in Nat /\ s[k].at \in Nat /\ s[k + 1].at \in Nat
          BY <1>2, <3>1
        <5> QED
          BY <3>2, <5>1, <5>2
      <4>3. m = k \/ m < k
        <5>1. m \in Nat /\ k \in Nat
          BY <3>1
        <5> HIDE DEF Q
        <5> QED
          BY <3>3, <5>1
      <4> QED
        BY <4>1, <4>2, <4>3
    <3> QED
      BY <3>1, <3>3
  <2>3. 1 .. n \subseteq Q
    <3> HIDE DEF Q
    <3> QED
      BY <1>2, <2>1, <2>2, IntervalInduction
  <2> QED
    BY <2>3
<1> QED
  BY <1>1, <1>3 DEF Ascends, n

\* Listings that read the same from the same address on are the same.
LEMMA ListingsEqual ==
  ASSUME NEW s, NEW t, IsListing(s), IsListing(t), Len(s) = Len(t),
         \A k \in 1 .. Len(s) : InstructionKey(s[k]) = InstructionKey(t[k])
  PROVE  s = t
<1> DEFINE n == Len(s)
           Q == {k \in Nat : k \in 1 .. n => s[k].at = t[k].at}
<1>1. /\ n \in Nat /\ Len(t) = n
      /\ s = [k \in 1 .. n |-> s[k]] /\ t = [k \in 1 .. n |-> t[k]]
      /\ \A k \in 1 .. n : s[k] \in Instructions /\ t[k] \in Instructions
      /\ (s = <<>> <=> n = 0) /\ (t = <<>> <=> n = 0)
  BY DEF IsListing
<1>2. \A k \in 1 .. n - 1 : /\ s[k + 1].at = s[k].at + s[k].size
                            /\ t[k + 1].at = t[k].at + t[k].size
  BY <1>1 DEF IsListing
<1>3. \A k \in 1 .. n : s[k].op = t[k].op /\ s[k].literal = t[k].literal /\ s[k].size = t[k].size
  BY KeysRead
<1>4. 1 \in Q
  <2>1. n # 0 => s[1].at = Base /\ t[1].at = Base
    BY <1>1 DEF IsListing
  <2> HIDE DEF n
  <2> QED
    BY <1>1, <2>1
<1> HIDE DEF n
<1>5. ASSUME NEW k \in 1 .. n - 1, k \in Q PROVE k + 1 \in Q
  <2>1. k \in 1 .. n /\ k + 1 \in 1 .. n /\ k + 1 \in Nat
    BY <1>1
  <2>2. s[k].at = t[k].at
    BY <1>5, <2>1
  <2>3. s[k + 1].at = t[k + 1].at
    BY <1>2, <1>3, <2>1, <2>2
  <2> QED
    BY <2>1, <2>3
<1>6. 1 .. n \subseteq Q
  <2> HIDE DEF Q
  <2> QED
    BY <1>1, <1>4, <1>5, IntervalInduction
<1>7. ASSUME NEW k \in 1 .. n PROVE s[k] = t[k]
  <2>1. s[k].at = t[k].at
    BY <1>6
  <2>2. \A x \in Instructions :
          x = [at |-> x.at, size |-> x.size, op |-> x.op, literal |-> x.literal]
    BY DEF Instructions
  <2>3. s[k] = [at |-> s[k].at, size |-> s[k].size, op |-> s[k].op, literal |-> s[k].literal]
    BY <1>1, <2>2
  <2>4. t[k] = [at |-> t[k].at, size |-> t[k].size, op |-> t[k].op, literal |-> t[k].literal]
    BY <1>1, <2>2
  <2> QED
    BY <1>3, <2>1, <2>3, <2>4
<1> QED
  BY <1>1, <1>7

\* Which pairs the report compares, and what it says of them.
Report(fs, before, after) ==
  fs = [n \in 1 .. Max({Len(before), Len(after)}) |-> DiffFunction(n, before, after)]

Unmentioned(fs) == \A n \in DOMAIN fs : fs[n].status = "unchanged"

LEMMA ReportIsTheDifference ==
  ASSUME NEW s, NEW t, IsListing(s), IsListing(t), NEW runs, CutAtReturns(runs, t),
         NEW before, before = FunctionBodies(s, BoundariesOf(s)),
         NEW after, after = FunctionBodies(t, runs),
         NEW fs, Report(fs, before, after)
  PROVE  /\ \E M : ListingsCertified(M, fs, s, t)
         /\ Unmentioned(fs) <=> s = t
<1>1. s \in Seq(Instructions) /\ Ascends(s) /\ t \in Seq(Instructions) /\ Ascends(t)
  BY ListingAscends
<1>2. Divides(before, s) /\ Divides(after, t)
  BY <1>1, BoundariesCut, BodiesDivide
<1>3. PICK M : ListingsCertified(M, fs, s, t)
  BY <1>1, <1>2, ListingsCompared DEF Report
<1>4. ASSUME NEW n \in DOMAIN fs
      PROVE  /\ fs[n].status = "unchanged" => fs[n].deltas = <<>>
             /\ before = after => fs[n].status = "unchanged"
  <2>1. /\ n \in 1 .. Max({Len(before), Len(after)})
        /\ fs[n] = DiffFunction(n, before, after)
    BY DEF Report
  <2>2. /\ Compared(fs[n], Reads(before, n), Reads(after, n))
        /\ before = after => fs[n].status = "unchanged"
    BY <1>1, <1>2, <2>1, FunctionCompared
  <2> QED
    BY <2>2 DEF Compared
<1>5. ASSUME Unmentioned(fs) PROVE s = t
  <2> DEFINE K == Within(s, Firsts(M))
             L == Within(t, Seconds(M))
  <2>1. Range(s) \subseteq Firsts(M) /\ Range(t) \subseteq Seconds(M)
    BY <1>3, <1>4, <1>5 DEF ListingsCertified, Unmentioned
  <2>2. K = 1 .. Len(s)
    BY <1>1, <2>1 DEF Within, Range
  <2>3. L = 1 .. Len(t)
    BY <1>1, <2>1 DEF Within, Range
  <2>4. /\ Cardinality(K) = Cardinality(L)
        /\ \A n \in 1 .. Cardinality(K) :
             InstructionKey(s[Ascending(K)[n]]) = InstructionKey(t[Ascending(L)[n]])
    BY <1>1, <1>3, KeptAlike DEF ListingsCertified
  <2> HIDE DEF K, L
  <2>5. /\ Cardinality(K) = Len(s) /\ Cardinality(L) = Len(t)
        /\ \A n \in 1 .. Len(s) : Ascending(K)[n] = n
        /\ \A n \in 1 .. Len(t) : Ascending(L)[n] = n
    BY <1>1, <2>2, <2>3, KeepAll
  <2>6. Len(s) = Len(t)
    BY <2>4, <2>5
  <2>7. ASSUME NEW n \in 1 .. Len(s) PROVE InstructionKey(s[n]) = InstructionKey(t[n])
    <3>1. Ascending(K)[n] = n /\ Ascending(L)[n] = n
      BY <2>5, <2>6
    <3> QED
      BY <2>4, <2>5, <3>1
  <2> QED
    BY <2>6, <2>7, ListingsEqual
<1>6. ASSUME s = t PROVE Unmentioned(fs)
  <2>1. runs = BoundariesOf(t)
    BY <1>1, CutIsBoundaries
  <2>2. before = after
    BY <1>6, <2>1
  <2> QED
    BY <1>4, <2>2 DEF Unmentioned
<1> QED
  BY <1>3, <1>5, <1>6

\* No function runs past a return, and the first instruction is at the base.
AtReturns ==
  /\ code # <<>> => code[1].at = Base
  /\ stage = "functions" => \A k \in open .. i - 1 : ~EndsFunction(code[k])
  /\ \A f \in DOMAIN functions :
       \A k \in functions[f].first .. functions[f].last - 1 : ~EndsFunction(code[k])

LEMMA AtReturnsStep == IInv /\ AtReturns /\ [Next]_vars => AtReturns'
<1> SUFFICES ASSUME IInv, AtReturns, [Next]_vars PROVE AtReturns'
  OBVIOUS
<1>0. /\ DOMAIN code = 1 .. Len(code) /\ Len(code) \in Nat /\ code \in Seq(Instructions)
      /\ functions \in Seq(Runs) /\ open \in Nat \ {0} /\ i \in Nat \ {0}
  BY DEF IInv, TypeOK
<1>1. CASE Decode
  <2>1. functions' = <<>> /\ stage' = "decode"
    BY <1>1 DEF IInv, Loops, Decode
  <2>2. PICK x \in [at : {Frontier}, size : Sizes, op : Opcodes,
                    literal : Literals \cup {NoTarget}] : code' = Append(code, x)
    BY <1>1 DEF Decode
  <2>3. x.at = Frontier
    BY <2>2
  <2>4. CASE code = <<>>
    <3>1. code' = <<x>> /\ x.at = Base
      BY <2>2, <2>3, <2>4 DEF Frontier
    <3> QED
      BY <2>1, <3>1 DEF AtReturns
  <2>5. CASE code # <<>>
    <3>1. 1 \in 1 .. Len(code)
      BY <1>0, <2>5
    <3>2. code'[1] = code[1]
      BY <1>0, <2>2, <3>1
    <3> QED
      BY <2>1, <2>5, <3>2 DEF AtReturns
  <2> QED
    BY <2>4, <2>5
<1>2. CASE Stop \/ Lead \/ Collect \/ Flush
  <2>1. functions' = <<>> /\ stage' # "functions" /\ UNCHANGED code
    BY <1>2 DEF IInv, Loops, Stop, Lead, Collect, Flush
  <2> QED
    BY <2>1 DEF AtReturns
<1>3. CASE Connect
  <2>1. functions' = <<>> /\ UNCHANGED <<code, open>> /\ open = 1
    BY <1>3 DEF IInv, Loops, Connect
  <2>2. stage' = "functions" => i' = 1
    BY <1>3 DEF Connect
  <2>3. stage' = "functions" => open' .. i' - 1 = {}
    BY <2>1, <2>2
  <2> QED
    BY <2>1, <2>3 DEF AtReturns
<1>4. ASSUME NEW n \in Nat, \A k \in open .. n - 1 : ~EndsFunction(code[k]),
             functions' = Append(functions, Run(open, n)), UNCHANGED code,
             stage' = "functions" => open' = i'
      PROVE  AtReturns'
  <2>1. /\ Run(open, n) \in Runs /\ Run(open, n).first = open /\ Run(open, n).last = n
    BY <1>0, <1>4 DEF Run, Runs
  <2>2. /\ DOMAIN functions' = 1 .. Len(functions) + 1
        /\ DOMAIN functions = 1 .. Len(functions)
        /\ \A f \in DOMAIN functions : functions'[f] = functions[f]
        /\ functions'[Len(functions) + 1] = Run(open, n)
    BY <1>0, <1>4, <2>1
  <2>3. ASSUME NEW f \in DOMAIN functions'
        PROVE  \A k \in functions'[f].first .. functions'[f].last - 1 : ~EndsFunction(code'[k])
    <3>1. CASE f \in DOMAIN functions
      BY <1>4, <2>2, <3>1 DEF AtReturns
    <3>2. CASE f = Len(functions) + 1
      BY <1>4, <2>1, <2>2, <3>2
    <3> QED
      BY <1>0, <2>2, <3>1, <3>2
  <2>4. i' \in Nat \ {0} /\ (stage' = "functions" => open' .. i' - 1 = {})
    <3>1. IInv'
      BY StepInvariance
    <3>2. i' \in Nat \ {0}
      BY <3>1 DEF IInv, TypeOK
    <3>3. ASSUME stage' = "functions" PROVE open' .. i' - 1 = {}
      BY <1>4, <3>2, <3>3
    <3> QED
      BY <3>2, <3>3
  <2> QED
    BY <1>4, <2>3, <2>4 DEF AtReturns
<1>5. CASE Bound
  <2>1. /\ stage = "functions" /\ stage' = "functions" /\ i' = i + 1 /\ UNCHANGED code
        /\ \A k \in open .. i - 1 : ~EndsFunction(code[k])
    BY <1>5 DEF Bound, AtReturns
  <2>2. CASE EndsFunction(code[i])
    BY <1>0, <1>4, <1>5, <2>1, <2>2 DEF Bound
  <2>3. CASE ~EndsFunction(code[i])
    <3>1. UNCHANGED <<functions, open>>
      BY <1>5, <2>3 DEF Bound
    <3>2. \A k \in open .. i' - 1 : k = i \/ k \in open .. i - 1
      BY <1>0, <2>1
    <3> QED
      BY <2>1, <2>3, <3>1, <3>2 DEF AtReturns
  <2> QED
    BY <2>2, <2>3
<1>6. CASE Finish
  <2>1. /\ stage = "functions" /\ i > Len(code) /\ stage' = "done" /\ UNCHANGED <<code, i>>
        /\ \A k \in open .. i - 1 : ~EndsFunction(code[k])
    BY <1>6 DEF Finish, AtReturns
  <2>2. CASE open <= Len(code)
    <3>1. \A k \in open .. Len(code) - 1 : ~EndsFunction(code[k])
      BY <1>0, <2>1
    <3> QED
      BY <1>0, <1>4, <1>6, <2>1, <2>2, <3>1 DEF Finish
  <2>3. CASE ~(open <= Len(code))
    BY <1>6, <2>1, <2>3 DEF Finish, AtReturns
  <2> QED
    BY <2>2, <2>3
<1>7. CASE UNCHANGED vars
  BY <1>7 DEF vars, AtReturns
<1> QED
  BY <1>1, <1>2, <1>3, <1>5, <1>6, <1>7 DEF Next

\* A finished listing is cut into its functions as the baselines are.
LEMMA FinishedListing ==
  ASSUME IInv, FunctionEnds, AtReturns, stage = "done"
  PROVE  IsListing(code) /\ CutAtReturns(functions, code)
<1>1. /\ code \in Seq(Instructions) /\ functions \in Seq(Runs) /\ DOMAIN code = 1 .. Len(code)
      /\ Len(code) \in Nat
  BY DEF IInv, TypeOK
<1>2. IsListing(code)
  <2>1. ASSUME NEW k \in 1 .. Len(code) - 1 PROVE code[k + 1].at = code[k].at + code[k].size
    <3>1. k \in DOMAIN code /\ k + 1 \in DOMAIN code
      BY <1>1
    <3> QED
      BY <3>1 DEF IInv, ListingLinear
  <2> QED
    BY <1>1, <2>1 DEF IsListing, AtReturns
<1>3. code = <<>> => functions = <<>>
  BY DEF IInv, Loops
<1>4. code # <<>> => Covers(functions, Len(code))
  BY DEF IInv, RunsOK
<1>5. ASSUME NEW f \in DOMAIN functions
      PROVE  /\ EndsFunction(code[functions[f].last]) \/ functions[f].last = Len(code)
             /\ \A k \in functions[f].first .. functions[f].last - 1 : ~EndsFunction(code[k])
  BY DEF FunctionEnds, AtReturns
<1> QED
  BY <1>1, <1>2, <1>3, <1>4, <1>5 DEF CutAtReturns

\* The report is that of the finished listing and a baseline.
Differed ==
  diff.kind = "result" =>
    /\ stage = "done" /\ diff.baseline \in Baselines
    /\ Report(diff.functions, FunctionBodies(diff.baseline, BoundariesOf(diff.baseline)),
              FunctionBodies(code, functions))

LEMMA DifferedInvariant == DiffSpec => [](IInv /\ FunctionEnds /\ AtReturns /\ Differed)
<1>1. DiffInit => IInv /\ FunctionEnds /\ AtReturns /\ Differed
  <2> SUFFICES ASSUME DiffInit PROVE IInv /\ FunctionEnds /\ AtReturns /\ Differed
    OBVIOUS
  <2>1. Init /\ diff.kind = "none"
    BY DEF DiffInit, NoDiff
  <2> QED
    BY <2>1, InitIInv DEF Init, FunctionEnds, AtReturns, Differed
<1>2. [DiffNext]_<<vars, diff>> => [Next]_vars
  BY DEF DiffNext
<1>3. IInv /\ FunctionEnds /\ AtReturns /\ [DiffNext]_<<vars, diff>>
        => IInv' /\ FunctionEnds' /\ AtReturns'
  BY <1>2, StepInvariance, FunctionEndsStep, AtReturnsStep
<1>4. Differed /\ [DiffNext]_<<vars, diff>> => Differed'
  <2> SUFFICES ASSUME Differed, [DiffNext]_<<vars, diff>> PROVE Differed'
    OBVIOUS
  <2>1. CASE Next /\ UNCHANGED diff
    <3>1. stage # "done"
      BY <2>1 DEF Next, Decode, Stop, Lead, Collect, Flush, Connect, Bound, Finish
    <3> QED
      BY <2>1, <3>1 DEF Differed
  <2>2. CASE Diff /\ UNCHANGED vars
    <3>1. PICK baseline \in Baselines :
            LET before == FunctionBodies(baseline, BoundariesOf(baseline))
                after  == FunctionBodies(code, functions)
            IN  diff' = [kind |-> "result", baseline |-> baseline,
                         functions |-> [n \in 1 .. Max({Len(before), Len(after)}) |->
                                          DiffFunction(n, before, after)]]
      BY <2>2 DEF Diff
    <3>2. diff'.baseline = baseline
      BY <3>1
    <3>3. Report(diff'.functions, FunctionBodies(baseline, BoundariesOf(baseline)),
                 FunctionBodies(code, functions))
      BY <3>1 DEF Report
    <3>4. stage' = "done" /\ code' = code /\ functions' = functions
      BY <2>2 DEF Diff, vars
    <3> QED
      BY <3>2, <3>3, <3>4 DEF Differed
  <2>3. CASE UNCHANGED <<vars, diff>>
    BY <2>3 DEF vars, Differed
  <2> QED
    BY <2>1, <2>2, <2>3 DEF DiffNext
<1> QED
  BY <1>1, <1>3, <1>4, PTL DEF DiffSpec

LEMMA ReportedAscends ==
  ASSUME NEW u, NEW s, NEW S, Reported(u, s, S)
  PROVE  Range(u) \subseteq Range(s) /\ \A m, n \in DOMAIN u : m < n => u[m].at < u[n].at
<1>1. DOMAIN u = 1 .. Len(u) /\ Ordered(u, Earlier) /\ Range(u) = Range(s) \ S
  BY DEF Reported
<1>2. ASSUME NEW m \in 1 .. Len(u), NEW n \in 1 .. Len(u), m < n PROVE u[m].at < u[n].at
  <2>1. <<u[m], u[n]>> \in Earlier
    BY <1>1, <1>2 DEF Ordered
  <2> QED
    BY <2>1 DEF Earlier
<1> QED
  BY <1>1, <1>2

\* The report of a patch is exact (diff_binaries, _diff_instructions): for every
\* pair of listings, whatever blocks SequenceMatcher finds in common, it tells
\* every difference and nothing else, each once and in order, and it is empty
\* exactly when the listings are equal.
THEOREM DiffIsExact == DiffSpec => []DiffExact
<1>1. ASSUME IInv, FunctionEnds, AtReturns, Differed PROVE DiffExact
  <2> SUFFICES ASSUME diff.kind = "result" PROVE DiffExact
    BY DEF DiffExact
  <2> DEFINE s == diff.baseline
             fs == diff.functions
             before == FunctionBodies(s, BoundariesOf(s))
             after == FunctionBodies(code, functions)
  <2>1. stage = "done" /\ s \in Baselines /\ Report(fs, before, after)
    BY <1>1 DEF Differed
  <2>2. Befores = BeforesOf(fs) /\ Afters = AftersOf(fs)
    BY DEF Befores, Afters, BeforesOf, AftersOf, BeforeSide, AfterSide
  <2>3. IsListing(s) /\ IsListing(code) /\ CutAtReturns(functions, code)
    BY <1>1, <2>1, FinishedListing, PatchDiffAssumption
  <2> HIDE DEF s, fs
  <2>4. (\E M : ListingsCertified(M, fs, s, code)) /\ (Unmentioned(fs) <=> s = code)
    BY <2>1, <2>3, ReportIsTheDifference
  <2>5. PICK M : ListingsCertified(M, fs, s, code)
    BY <2>4
  <2>6. /\ Range(Befores) \subseteq Range(s)
        /\ \A m, n \in DOMAIN Befores : m < n => Befores[m].at < Befores[n].at
    BY <2>2, <2>5, ReportedAscends DEF ListingsCertified
  <2>7. /\ Range(Afters) \subseteq Range(code)
        /\ \A m, n \in DOMAIN Afters : m < n => Afters[m].at < Afters[n].at
    BY <2>2, <2>5, ReportedAscends DEF ListingsCertified
  <2>8. Kept(s, Befores) = Kept(code, Afters)
    <3>1. s \in Seq(Instructions) /\ Ascends(s) /\ code \in Seq(Instructions) /\ Ascends(code)
      BY <2>3, ListingAscends
    <3> QED
      BY <2>2, <2>5, <3>1, KeptReadsAlike
  <2>9. {n \in DOMAIN fs : fs[n].status # "unchanged"} = {} <=> s = code
    BY <2>4 DEF Unmentioned
  <2> QED
    BY <2>6, <2>7, <2>8, <2>9 DEF DiffExact, s, fs
<1> QED
  BY <1>1, DifferedInvariant, PTL
=============================================================================
