--------------------------- MODULE MCControlFlow ---------------------------
(***************************************************************************)
(* Instances of ControlFlow, with the lifter and the patch diff that read  *)
(* its result, for TLC.  A listing has the mnemonics of one architecture,  *)
(* and when it is finished it is either lifted or compared, whatever comes *)
(* first.                                                                  *)
(***************************************************************************)
EXTENDS Lifter, PatchDiff

Op(m, r) ==
  [mnemonic |-> m, register |-> r,
   prefix |-> IF m \in BeginWithJ THEN "j" ELSE IF m = "ret" THEN "ret" ELSE "none"]

\* x86: one instruction of each class the classifiers know.
X86 == {Op("mov", "[rbp - 8], rax"), Op("call", "rax"), Op("jmp", "rax"), Op("je", ""),
        Op("ret", "")}

\* RISC-V: a return that begins with j, as a conditional jump does.
RiscV == {Op("addi", "a0, a0, 1"), Op("jr", "ra")}

\* ARM: a conditional branch outside the listed ones, a return through lr.
ArmBranches == {Op("mov", "r0, r1"), Op("bhi", ""), Op("bx", "lr")}

\* MIPS: an addition of three operands, a jump, a return through ra.
Mips == {Op("addiu", "v0, a0, 1"), Op("j", ""), Op("jr", "ra")}

MCOpcodes == X86 \cup RiscV

\* What the manuals say.
MCMeaning ==
  [o \in X86 \cup RiscV \cup ArmBranches \cup Mips |->
     CASE o.mnemonic = "call" -> "call"
       [] o.mnemonic \in {"jmp", "j"} -> "jump"
       [] o.mnemonic \in {"je", "bhi"} -> "branch"
       [] o.mnemonic \in {"ret", "bx", "jr"} -> "return"
       [] o.mnemonic \in {"mov", "addi", "addiu"} -> "plain"]

X86RiscVMeaning == [o \in MCOpcodes |-> MCMeaning[o]]
ArmMeaning == [o \in ArmBranches |-> MCMeaning[o]]
MipsMeaning == [o \in Mips |-> MCMeaning[o]]

\* MIPS executes one more instruction before a jump takes effect.
MipsDelayed == {o \in Mips : MipsMeaning[o] # "plain"}

NoOpcodes == {}

MCLiterals == {0, 2, 9}

Operands ==
  ("[rbp - 8], rax" :> <<"[rbp - 8]", "rax">>) @@ ("rax" :> <<"rax">>) @@ ("" :> <<>>)
  @@ ("r0, r1" :> <<"r0", "r1">>) @@ ("lr" :> <<"lr">>) @@ ("ra" :> <<"ra">>)
  @@ ("v0, a0, 1" :> <<"v0", "a0", "1">>) @@ ("a0, a0, 1" :> <<"a0", "a0", "1">>)

Slots == [p \in {"[rbp - 8]", "rax", "r0", "r1", "lr", "ra", "v0", "a0", "1"} |->
            IF p = "[rbp - 8]" THEN -8 ELSE 0]

X86Signatures ==
  <<[name |-> "strlen", pattern |-> <<<<"mov", 1>>, AnyByte>>],
    [name |-> "memcpy", pattern |-> <<<<"call", 1>>, <<"ret", 1>>>>]>>

\* The code before a patch: nothing, one function, two functions, a call moved.
Ins(at, size, op, literal) == [at |-> at, size |-> size, op |-> op, literal |-> literal]
Store == Op("mov", "[rbp - 8], rax")
X86Baselines ==
  {<<>>,
   <<Ins(0, 1, Store, NoTarget), Ins(1, 1, Store, NoTarget), Ins(2, 1, Op("ret", ""), NoTarget)>>,
   <<Ins(0, 1, Op("ret", ""), NoTarget), Ins(1, 2, Op("call", "rax"), 2),
     Ins(3, 1, Op("ret", ""), NoTarget)>>}

NoListings == {}

RawInit == LiftInit /\ diff = NoDiff

OneArchitecture ==
  \E A \in {X86, RiscV, ArmBranches, Mips} : \A k \in DOMAIN code : code[k].op \in A

RawNext ==
  \/ diff = NoDiff /\ LiftNext /\ OneArchitecture' /\ UNCHANGED diff
  \/ pseudo = <<>> /\ Diff /\ UNCHANGED <<vars, pseudo>>

RawSpec == RawInit /\ [][RawNext]_<<vars, pseudo, diff>>
=============================================================================
