---------------------------- MODULE ControlFlow ----------------------------
(***************************************************************************)
(* One raw binary on its way through disassemble (disassembler.py,         *)
(* disasm.py), build_cfg (controlflow.py) and find_function_boundaries     *)
(* (decompiler.py).  Capstone decodes the bytes one instruction after the  *)
(* other; build_cfg walks the listing three times, for the leaders, the    *)
(* blocks and the edges; find_function_boundaries walks it once more.      *)
(* Each turn of each loop is a step.                                       *)
(*                                                                         *)
(* An instruction is its address, its size, its mnemonic, the register     *)
(* operands the classifiers look at and the literal in its last operand.   *)
(* A block or a function is a Run, the indices of its first and its last   *)
(* instruction in the listing.  Capstone decodes upwards from the base     *)
(* address, so the sort at the head of build_cfg finds the listing sorted; *)
(* the model has no step for it (ListingLinear is what justifies that).    *)
(* The order of the edges is left out: they are a set.                     *)
(***************************************************************************)
EXTENDS Integers, Sequences

CONSTANTS Base,     \* the address of the first byte
          Span,     \* the number of bytes
          Sizes,    \* the instruction sizes of the architecture
          Opcodes,  \* the mnemonics and register operands that occur
          Literals, \* the literal operands that occur
          Meaning,  \* what the architecture's manual says each opcode does
          Deferred  \* the opcodes whose transfer the last operand does not tell

NoTarget == -1

ASSUME LayoutAssumption ==
  /\ Base \in Nat /\ Span \in Nat
  /\ Sizes \subseteq Nat \ {0}
  /\ Literals \subseteq Int
  /\ \A o \in Opcodes :
       o = [mnemonic |-> o.mnemonic, register |-> o.register, prefix |-> o.prefix]

(***************************************************************************)
(* The instruction sets are not the program's: what an instruction does is *)
(* a constant, with no list of mnemonics of its own.  "other" is a         *)
(* transfer the graph has no edges for, such as a conditional return.  A   *)
(* deferred transfer comes an instruction late (the delay slots of MIPS)   *)
(* or goes to a distance (the branch operands of RISC-V).                  *)
(***************************************************************************)
Transfers == {"call", "jump", "branch", "return", "other"}

ASSUME MeaningAssumption ==
  Meaning \in [Opcodes -> Transfers \cup {"plain"}] /\ Deferred \subseteq Opcodes

Instructions ==
  [at : Nat, size : Sizes, op : Opcodes, literal : Literals \cup {NoTarget}]

Edges == [source : Nat, target : Int, kind : {"call", "branch", "fallthrough"}]

Runs == [first : Nat, last : Nat]

Stages == {"decode", "leaders", "blocks", "edges", "functions", "done", "raised"}

VARIABLES
  code,       \* the instructions decoded so far
  stage,      \* the loop that is running
  i,          \* the index it has reached
  open,       \* where the block or function being collected begins
  leaders,    \* the addresses where a block must begin
  blocks,     \* the basic blocks
  edges,      \* the edges between them
  functions   \* the function boundaries

vars == <<code, stage, i, open, leaders, blocks, edges, functions>>

(***************************************************************************)
(* The classifiers.  They look a mnemonic up in their lists and ask what   *)
(* it begins with, which is the prefix of the opcode.                      *)
(***************************************************************************)
Calls == {"call", "callq", "bl", "blx", "jal"}

\* Mutant: jmp is left to the prefix test.
JumpsWithoutJmp == {"j", "b", "bra"}

UnconditionalJumps == {"jmp", "j", "b", "bra"}

ConditionalJumps ==
  {"ja", "jae", "jb", "jbe", "je", "jg", "jge", "jl", "jle", "jne", "jnz", "jz",
   "beq", "bne", "bgt", "bge", "blt", "ble", "cbz", "cbnz", "tbz", "tbnz"}

IsCall(x) == x.op.mnemonic \in Calls

IsUnconditionalJump(x) == x.op.mnemonic \in UnconditionalJumps

IsConditionalJump(x) ==
  \/ x.op.mnemonic \in ConditionalJumps \/ x.op.prefix = "b."
  \/ x.op.prefix = "j" /\ x.op.mnemonic \notin UnconditionalJumps

ReturnsByRegister(x) ==
  \/ x.op.mnemonic = "bx" /\ x.op.register = "lr"
  \/ x.op.mnemonic = "jr" /\ x.op.register \in {"ra", "x1"}
  \/ x.op.mnemonic = "jalr" /\ x.op.register \in {"zero, ra, 0", "x0, x1, 0"}

IsReturn(x) == x.op.prefix = "ret" \/ ReturnsByRegister(x)

\* Mutant: only calls and jumps end a block.
EndsBlockUnlessReturn(x) ==
  IsCall(x) \/ IsUnconditionalJump(x) \/ IsConditionalJump(x)

EndsBlock(x) ==
  IsCall(x) \/ IsUnconditionalJump(x) \/ IsConditionalJump(x) \/ IsReturn(x)

DirectTarget(x) ==
  IF IsCall(x) \/ IsUnconditionalJump(x) \/ IsConditionalJump(x)
    THEN x.literal ELSE NoTarget

\* The decompiler has a set of return mnemonics of its own.
InterruptReturns == {"iret", "iretd", "iretq"}

EndsFunction(x) ==
  x.op.mnemonic \in {"ret", "retf"} \cup InterruptReturns \/ ReturnsByRegister(x)

\* What the mnemonics of the lists begin with, the decompiler's lists included.
BeginWithJ ==
  {"j", "jmp", "jal", "jalr", "jr", "ja", "jae", "jb", "jbe", "je", "jg", "jge", "jl",
   "jle", "jne", "jnz", "jz", "jo", "jp", "js"}

ListedNames ==
  Calls \cup UnconditionalJumps \cup ConditionalJumps \cup InterruptReturns \cup {"bx"}

ASSUME SpellingAssumption ==
  \A o \in Opcodes :
    /\ o.prefix \in {"j", "b.", "ret", "none"}
    /\ o.mnemonic \in BeginWithJ => o.prefix = "j"
    /\ o.mnemonic \in {"ret", "retf"} => o.prefix = "ret"
    /\ o.mnemonic \in ListedNames \ BeginWithJ => o.prefix = "none"

(***************************************************************************)
(* The listing.                                                            *)
(***************************************************************************)
Addresses == {code[k].at : k \in DOMAIN code}

\* Where the next instruction begins: base_address + decoded_size.
Frontier ==
  IF code = <<>> THEN Base ELSE code[Len(code)].at + code[Len(code)].size

\* A literal matters only as a target: it is left out of what takes none.  jalr
\* alone is a return that has one (jalr zero, ra, 0).
Decode ==
  /\ stage = "decode"
  /\ \E x \in [at : {Frontier}, size : Sizes, op : Opcodes,
               literal : Literals \cup {NoTarget}] :
       /\ x.at + x.size <= Base + Span
       /\ Meaning[x.op] \in {"plain", "return"} /\ x.op.mnemonic # "jalr" =>
            x.literal = NoTarget
       /\ code' = Append(code, x)
  /\ UNCHANGED <<stage, i, open, leaders, blocks, edges, functions>>

\* Capstone stops: at the end of the bytes, at bytes it cannot decode, or
\* because max_instructions have been decoded (limited).  A strict request
\* then raises when bytes remain that no limit explains.
Stop ==
  /\ stage = "decode"
  /\ \E strict, limited \in BOOLEAN :
       LET trailing == Frontier < Base + Span
       IN  /\ limited => code # <<>>
           /\ stage' = IF strict /\ trailing /\ ~limited THEN "raised"
                       ELSE IF code = <<>> THEN "done" ELSE "leaders"
           /\ leaders' = IF stage' = "leaders" THEN {code[1].at} ELSE {}
  /\ i' = 1 /\ open' = 1
  /\ UNCHANGED <<code, blocks, edges, functions>>

(***************************************************************************)
(* build_cfg.                                                              *)
(***************************************************************************)
\* Mutant: targets outside the listing are leaders too.
LeadersAnywhere(k) ==
  ({DirectTarget(code[k])} \ {NoTarget})
    \cup {code[n].at : n \in {m \in {k + 1} : EndsBlock(code[k]) /\ m <= Len(code)}}

\* Mutant: a jump target is no leader.
LeadersAfterTransfers(k) ==
  {code[n].at : n \in {m \in {k + 1} : EndsBlock(code[k]) /\ m <= Len(code)}}

LeadersOf(k) ==
  ({DirectTarget(code[k])} \cap Addresses)
    \cup {code[n].at : n \in {m \in {k + 1} : EndsBlock(code[k]) /\ m <= Len(code)}}

Lead ==
  /\ stage = "leaders"
  /\ leaders' = leaders \cup LeadersOf(i)
  /\ IF i = Len(code) THEN stage' = "blocks" /\ i' = 1
                      ELSE stage' = stage /\ i' = i + 1
  /\ UNCHANGED <<code, open, blocks, edges, functions>>

Run(m, n) == [first |-> m, last |-> n]

\* An instruction opens a new block when it is a leader and the block being
\* collected is not empty; otherwise it joins that block.
Collect ==
  /\ stage = "blocks" /\ i <= Len(code)
  /\ i' = i + 1
  /\ IF open < i /\ code[i].at \in leaders
       THEN blocks' = Append(blocks, Run(open, i - 1)) /\ open' = i
       ELSE UNCHANGED <<blocks, open>>
  /\ UNCHANGED <<code, stage, leaders, edges, functions>>

\* Mutant: a block of one instruction is not flushed.
FlushLongBlocks ==
  /\ stage = "blocks" /\ i > Len(code)
  /\ blocks' = IF open < Len(code) THEN Append(blocks, Run(open, Len(code))) ELSE blocks
  /\ stage' = "edges" /\ i' = 1 /\ open' = 1
  /\ UNCHANGED <<code, leaders, edges, functions>>

Flush ==
  /\ stage = "blocks" /\ i > Len(code)
  /\ blocks' = Append(blocks, Run(open, Len(code)))
  /\ stage' = "edges" /\ i' = 1 /\ open' = 1
  /\ UNCHANGED <<code, leaders, edges, functions>>

StartOf(run) == code[run.first].at

Edge(from, to, kind) == [source |-> from, target |-> to, kind |-> kind]

\* Mutant: a call never returns.
EdgesWithoutReturnSite(k) ==
  LET last  == code[blocks[k].last]
      from  == StartOf(blocks[k])
      taken == {DirectTarget(last)} \ {NoTarget}
      nexts == {StartOf(blocks[n]) : n \in {m \in {k + 1} : m <= Len(blocks)}}
  IN  IF IsReturn(last) THEN {}
      ELSE IF IsCall(last) THEN {Edge(from, t, "call") : t \in taken}
      ELSE {Edge(from, t, "branch") : t \in taken}
             \cup {Edge(from, t, "fallthrough") :
                     t \in IF IsUnconditionalJump(last) THEN {} ELSE nexts}

\* The edges out of block k.  The kind of its last instruction decides, and a
\* return is recognised first.
EdgesOf(k) ==
  LET last  == code[blocks[k].last]
      from  == StartOf(blocks[k])
      Taken(kind) == {Edge(from, t, kind) : t \in {DirectTarget(last)} \ {NoTarget}}
      Next1 == {Edge(from, StartOf(blocks[n]), "fallthrough") :
                  n \in {m \in {k + 1} : m <= Len(blocks)}}
  IN  IF IsReturn(last) THEN {}
      ELSE IF IsCall(last) THEN Taken("call") \cup Next1
      ELSE IF IsUnconditionalJump(last) THEN Taken("branch")
      ELSE IF IsConditionalJump(last) THEN Taken("branch") \cup Next1
      ELSE Next1

Connect ==
  /\ stage = "edges"
  /\ edges' = edges \cup EdgesOf(i)
  /\ IF i = Len(blocks) THEN stage' = "functions" /\ i' = 1
                        ELSE stage' = stage /\ i' = i + 1
  /\ UNCHANGED <<code, open, leaders, blocks, functions>>

(***************************************************************************)
(* find_function_boundaries.                                               *)
(***************************************************************************)
Bound ==
  /\ stage = "functions" /\ i <= Len(code)
  /\ i' = i + 1
  /\ IF EndsFunction(code[i])
       THEN functions' = Append(functions, Run(open, i)) /\ open' = i + 1
       ELSE UNCHANGED <<functions, open>>
  /\ UNCHANGED <<code, stage, leaders, blocks, edges>>

\* Mutant: what follows the last return is dropped.
FinishAtReturn ==
  /\ stage = "functions" /\ i > Len(code)
  /\ stage' = "done"
  /\ UNCHANGED <<code, i, open, leaders, blocks, edges, functions>>

Finish ==
  /\ stage = "functions" /\ i > Len(code)
  /\ functions' = IF open <= Len(code) THEN Append(functions, Run(open, Len(code)))
                                       ELSE functions
  /\ stage' = "done"
  /\ UNCHANGED <<code, i, open, leaders, blocks, edges>>

Init ==
  /\ code = <<>> /\ stage = "decode" /\ i = 1 /\ open = 1
  /\ leaders = {} /\ blocks = <<>> /\ edges = {} /\ functions = <<>>

Next == Decode \/ Stop \/ Lead \/ Collect \/ Flush \/ Connect \/ Bound \/ Finish

Spec == Init /\ [][Next]_vars

\* The addresses where execution may continue after instruction k, as far as the
\* listing names them: anywhere, when its meaning does not say where.
Successors(k) ==
  LET x    == code[k]
      taken == {x.literal} \ {NoTarget}
      next1 == {code[n].at : n \in {m \in {k + 1} : m <= Len(code)}}
  IN  CASE x.op \in Deferred \/ Meaning[x.op] = "other" -> Addresses
        [] x.op \notin Deferred /\ Meaning[x.op] = "return" -> {}
        [] x.op \notin Deferred /\ Meaning[x.op] = "jump" -> taken
        [] x.op \notin Deferred /\ Meaning[x.op] \in {"call", "branch"} -> taken \cup next1
        [] x.op \notin Deferred /\ Meaning[x.op] = "plain" -> next1

\* The classifiers know every opcode that occurs for what it is, and its last
\* operand tells where it goes.
Recognised ==
  \A x \in Instructions :
    /\ x.op \notin Deferred
    /\ Meaning[x.op] = IF IsReturn(x) THEN "return"
                       ELSE IF IsCall(x) THEN "call"
                       ELSE IF IsUnconditionalJump(x) THEN "jump"
                       ELSE IF IsConditionalJump(x) THEN "branch"
                       ELSE "plain"

-----------------------------------------------------------------------------
(***************************************************************************)
(* Properties.                                                             *)
(***************************************************************************)

\* Type invariant: every variable stays in its domain.
TypeOK ==
  /\ code \in Seq(Instructions) /\ stage \in Stages
  /\ i \in Nat \ {0} /\ open \in Nat \ {0}
  /\ leaders \subseteq Addresses
  /\ blocks \in Seq(Runs) /\ functions \in Seq(Runs)
  /\ edges \subseteq Edges

\* The instructions of a listing follow each other without a gap or an
\* overlap, so its addresses are distinct and ascending: the order build_cfg
\* sorts into and find_function_boundaries takes for granted.
ListingLinear ==
  \A m, n \in DOMAIN code :
    /\ m < n => code[m].at + code[m].size <= code[n].at
    /\ n = m + 1 => code[n].at = code[m].at + code[m].size

\* The runs cover the instructions 1..n, each once and in order.
Covers(runs, n) ==
  /\ runs # <<>> /\ runs[1].first = 1 /\ runs[Len(runs)].last = n
  /\ \A k \in DOMAIN runs :
       /\ runs[k].first <= runs[k].last
       /\ k < Len(runs) => runs[k + 1].first = runs[k].last + 1

\* The blocks of a finished graph hold every instruction of the listing
\* exactly once (build_cfg: the block loop and the block it flushes last).
BlocksPartition ==
  stage \in {"edges", "functions"} => Covers(blocks, Len(code))

\* A block is "a maximal linear sequence" (BasicBlock): nothing inside it is
\* jumped to or follows a transfer, and it ends only where a transfer ends it
\* or the next block is jumped to.
Entered(k) == \E n \in DOMAIN code : DirectTarget(code[n]) = code[k].at

BlocksMaximal ==
  stage \in {"edges", "functions"} =>
    \A b \in DOMAIN blocks :
      /\ \A k \in blocks[b].first + 1 .. blocks[b].last :
           ~Entered(k) /\ ~EndsBlock(code[k - 1])
      /\ b < Len(blocks) =>
           Entered(blocks[b].last + 1) \/ EndsBlock(code[blocks[b].last])

\* An edge ends at the start of a block or at an address where no instruction
\* of the listing begins, which to_dot draws as an external node: no edge ends
\* inside a block.
EdgesLand ==
  stage \in {"functions", "done"} =>
    \A e \in edges :
      e.target \in {StartOf(blocks[b]) : b \in DOMAIN blocks} \/ e.target \notin Addresses

\* Every way execution can continue is in the graph: from inside a block to its
\* next instruction, from its end along an edge (build_cfg: the edge loop).
FlowCovered ==
  stage \in {"functions", "done"} =>
    \A b \in DOMAIN blocks :
      /\ \A k \in blocks[b].first .. blocks[b].last - 1 :
           Successors(k) = {code[k + 1].at}
      /\ \A a \in Successors(blocks[b].last) :
           \E e \in edges : e.source = StartOf(blocks[b]) /\ e.target = a

\* No edge is invented: each is a way execution can continue after the last
\* instruction of the block it leaves (build_cfg: the edge loop).
FlowSound ==
  stage \in {"functions", "done"} =>
    \A e \in edges : \E b \in DOMAIN blocks :
      e.source = StartOf(blocks[b]) /\ e.target \in Successors(blocks[b].last)

\* The functions hold every instruction exactly once, the ones after the last
\* return included (find_function_boundaries).
FunctionsPartition ==
  stage = "done" /\ code # <<>> => Covers(functions, Len(code))

\* A function is made of whole blocks: the two passes over the listing, with
\* their two definitions of a return, never cut a block in half.
FunctionsOfBlocks ==
  stage = "done" =>
    \A f \in DOMAIN functions : \E b \in DOMAIN blocks :
      blocks[b].last = functions[f].last

\* src/README.md: "The CFG builder splits basic blocks at jumps, calls, and
\* returns", the words of build_cfg's own docstring.  An instruction that
\* transfers control is the last one of its block.
TransfersEndBlocks ==
  stage \in {"functions", "done"} =>
    \A b \in DOMAIN blocks : \A k \in blocks[b].first .. blocks[b].last - 1 :
      Meaning[code[k].op] = "plain"
=============================================================================
