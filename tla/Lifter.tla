------------------------------- MODULE Lifter -------------------------------
(***************************************************************************)
(* The native decompiler (decompiler.py) and the library signatures        *)
(* (signatures.py) on a listing ControlFlow has split: every function gets *)
(* a name, its stack variables and one statement for each instruction.     *)
(*                                                                         *)
(* A statement is its kind and its operands, not its text.  An operand is  *)
(* a string as Capstone writes it; Parts takes the register operands of an *)
(* instruction apart and Slot says which of them are stack slots.  A byte  *)
(* of an instruction is its mnemonic and its position.                     *)
(***************************************************************************)
EXTENDS ControlFlow, SequencesExt, FiniteSetsExt

CONSTANTS
  Parts,         \* Parts[r]: the operands in the text r
  Slot,          \* Slot[p]: the negative stack offset in operand p, 0 for none
  Signatures,    \* BUILTIN_SIGNATURES of the architecture, in order
  PrefixLength   \* the bytes of a function a signature is compared with

AnyByte == <<"any", 0>>   \* a position whose mask is zero

ASSUME LifterAssumption ==
  /\ \A o \in Opcodes : \A k \in DOMAIN Parts[o.register] :
       Slot[Parts[o.register][k]] \in Int /\ Slot[Parts[o.register][k]] <= 0
  /\ \A n \in DOMAIN Signatures : Len(Signatures[n].pattern) <= PrefixLength

VARIABLE pseudo   \* the decompiled functions, <<>> before they are asked for

(***************************************************************************)
(* signature_bytes and match_instructions.                                 *)
(***************************************************************************)
InstructionBytes(x) == [k \in 1 .. x.size |-> <<x.op.mnemonic, k>>]

SignatureBytes(run) ==
  LET raw == FlattenSeq([k \in 1 .. run.last - run.first + 1 |->
                           InstructionBytes(code[run.first + k - 1])])
  IN  SubSeq(raw, 1, Min({PrefixLength, Len(raw)}))

MatchesPrefix(prefix, pattern) ==
  /\ Len(pattern) <= Len(prefix)
  /\ \A k \in DOMAIN pattern : pattern[k] \in {AnyByte, prefix[k]}

\* The first signature that fits names the function.
LibraryName(run) ==
  LET fitting == {n \in DOMAIN Signatures :
                    MatchesPrefix(SignatureBytes(run), Signatures[n].pattern)}
  IN  IF fitting = {} THEN "sub" ELSE Signatures[Min(fitting)].name

(***************************************************************************)
(* identify_stack_variables: the first slot of an instruction, by offset.  *)
(***************************************************************************)
SlotIn(parts) ==
  LET slots == SelectSeq(parts, LAMBDA p : Slot[p] # 0)
  IN  IF slots = <<>> THEN 0 ELSE Slot[slots[1]]

Indices(run) == run.first .. run.last

StackVariables(run) ==
  LET references(o) == {code[k].at : k \in {n \in Indices(run) :
                                             SlotIn(Parts[code[n].op.register]) = o}}
      offsets == {SlotIn(Parts[code[k].op.register]) : k \in Indices(run)} \ {0}
      order   == SetToSortSeq(offsets, <)
  IN  [n \in DOMAIN order |-> [offset |-> order[n], references |-> references(order[n])]]

(***************************************************************************)
(* _instruction_to_c, with the decompiler's own tables of mnemonics.       *)
(***************************************************************************)
\* Mutant: jmp is left to the table of branches, which leaves it out.
JumpsWithoutX86 == {"b", "bra"}

LiftedJumps == {"jmp", "b", "bra"}

LiftedCalls == {"call", "callq", "bl", "blx", "jal"}

LiftedBranches ==
  {"ja", "jae", "jb", "jbe", "je", "jg", "jge", "jl", "jle", "jne", "jo", "jp", "js", "jz",
   "jnz", "beq", "bne", "bgt", "bge", "blt", "ble", "cbz", "cbnz", "tbz", "tbnz"}

IsLiftedBranch(x) ==
  x.op.mnemonic \in LiftedBranches \/ (x.op.prefix = "j" /\ x.op.mnemonic # "jmp")

Loads == {"mov", "movabs", "ldr", "ld", "lw", "li"}
Stores == {"str", "sd", "sw"}
Compound == {"add", "addi", "addiu", "sub", "subi", "xor", "and", "or"}

Statement(kind, x, to, from) == [kind |-> kind, at |-> x.at, to |-> to, from |-> from]

Nowhere == <<"text", <<>>>>

\* _operand_to_c: a slot that is declared reads as its variable.
Operand(parts, declared) ==
  LET slot == SlotIn(parts)
  IN  IF slot # 0 /\ slot \in declared THEN <<"var", slot>> ELSE <<"text", parts>>

\* _target_name: the literal, or the last operand as an identifier.
TargetName(x) ==
  LET parts == Parts[x.op.register]
  IN  IF x.literal # NoTarget THEN <<"sub", x.literal>>
      ELSE IF parts # <<>> THEN <<"text", <<Last(parts)>>>>
      ELSE <<"text", <<>>>>

\* An instruction with one operand or none is a comment unless it transfers.
Assigned(x, declared) ==
  LET parts == Parts[x.op.register]
      left  == Operand(<<parts[1]>>, declared)
      right == Operand(Tail(parts), declared)
  IN  CASE Len(parts) >= 2 /\ x.op.mnemonic \in Loads -> Statement("set", x, left, right)
        [] Len(parts) >= 2 /\ x.op.mnemonic \in Stores -> Statement("set", x, right, left)
        [] Len(parts) >= 2 /\ x.op.mnemonic \in Compound -> Statement("update", x, left, right)
        [] Len(parts) < 2 \/ x.op.mnemonic \notin Loads \cup Stores \cup Compound ->
             Statement("comment", x, <<"text", parts>>, Nowhere)

Lifted(x, declared) ==
  IF EndsFunction(x) THEN Statement("return", x, Nowhere, Nowhere)
  ELSE IF x.op.mnemonic \in LiftedCalls THEN Statement("call", x, TargetName(x), Nowhere)
  ELSE IF x.op.mnemonic \in LiftedJumps THEN Statement("goto", x, TargetName(x), Nowhere)
  ELSE IF IsLiftedBranch(x) THEN Statement("if", x, TargetName(x), Nowhere)
  ELSE Assigned(x, declared)

(***************************************************************************)
(* _decompile_bytes_native.                                                *)
(***************************************************************************)
DecompiledFunction(run, recognize) ==
  LET variables == StackVariables(run)
      declared  == {variables[n].offset : n \in DOMAIN variables}
  IN  [name |-> IF recognize THEN LibraryName(run) ELSE "sub",
       variables |-> variables,
       body |-> [k \in 1 .. run.last - run.first + 1 |->
                   Lifted(code[run.first + k - 1], declared)]]

Lift ==
  /\ stage = "done" /\ pseudo = <<>> /\ functions # <<>>
  /\ \E recognize \in BOOLEAN :
       pseudo' = [f \in DOMAIN functions |-> DecompiledFunction(functions[f], recognize)]

LiftInit == Init /\ pseudo = <<>>

LiftNext == (Next /\ UNCHANGED pseudo) \/ (Lift /\ UNCHANGED vars)

LiftSpec == LiftInit /\ [][LiftNext]_<<vars, pseudo>>

-----------------------------------------------------------------------------
(***************************************************************************)
(* Properties.                                                             *)
(***************************************************************************)
Body == FlattenSeq([f \in DOMAIN pseudo |-> pseudo[f].body])

\* The pseudo-code and the graph tell one story, though each has tables of its
\* own: every instruction is lifted once and in order, no statement inside a
\* block transfers control, and the last one of a block returns, calls, jumps
\* or branches as the edges out of the block say, to the targets they name.
LiftFollowsGraph ==
  pseudo # <<>> =>
    /\ Len(Body) = Len(code)
    /\ \A k \in DOMAIN code : Body[k].at = code[k].at
    /\ \A b \in DOMAIN blocks :
         LET out  == {e \in edges : e.source = StartOf(blocks[b])}
             last == Body[blocks[b].last]
             straight == {"set", "update", "comment"}
         IN  /\ \A k \in blocks[b].first .. blocks[b].last - 1 : Body[k].kind \in straight
             /\ {e.kind : e \in out} \subseteq
                  CASE last.kind = "return" -> {}
                    [] last.kind = "call"   -> {"call", "fallthrough"}
                    [] last.kind = "goto"   -> {"branch"}
                    [] last.kind = "if"     -> {"branch", "fallthrough"}
                    [] last.kind \in straight -> {"fallthrough"}
             /\ \A e \in out : e.kind # "fallthrough" => last.to = <<"sub", e.target>>
             /\ last.kind \in {"call", "if"} /\ b < Len(blocks) =>
                  \E e \in out : e.kind = "fallthrough"

\* src/README.md: "Unsupported lifts remain address-tagged assembly comments so
\* the output never invents behavior."  A branch is lifted from a branch, a jump
\* from a jump, and only two operands become one operand updating the other.
LiftInventsNothing ==
  \A k \in DOMAIN Body :
    /\ Body[k].kind = "if" => Meaning[code[k].op] = "branch"
    /\ Body[k].kind = "goto" => Meaning[code[k].op] = "jump"
    /\ Body[k].kind = "update" => Len(Parts[code[k].op.register]) = 2
=============================================================================
