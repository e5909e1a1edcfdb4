--------------------------- MODULE CommandLineProofs ---------------------------
(* Theorems about CommandLine for any contents, images and commands, and the   *)
(* theorems of ReverseScan for a scan that the command line calls.             *)
EXTENDS CommandLine, ReverseScanProofs, DataInduction

(***************************************************************************)
(* The inductive invariant of an invocation.  The report file is untouched *)
(* until the step that writes it; an open router is one of the two steps   *)
(* that use it; the answers so far are the first ones of what there is to  *)
(* explain, and all of them once the router was closed without exception.  *)
(***************************************************************************)
CliSteps == {"idle", "read", "work", "connect", "explain", "close", "write", "render",
          "scan", "print"}

Opened == router \in {"stub", "llm"}

CliPhase ==
    /\ command \in DOMAIN Profiles \cup {"none", "scan"}
    /\ step \in CliSteps
    /\ outcome \in {"none", "ok", "error", "usage", "traceback"}
    /\ command = "none" => step = "idle" /\ outcome = "none"
    /\ command = "scan" => step \in {"scan", "print"}
    /\ step = "render" => command = "cfg"
    /\ step \in {"connect", "explain", "close"} => Enriches

OutputPhase ==
    /\ outcome = "none" => output = IF step = "render" THEN "new" ELSE "old"
    /\ FailureLeavesOutput

RouterPhase ==
    /\ router \in {"none", "stub", "llm", "closed"}
    /\ Opened => step \in {"explain", "close"} /\ outcome = "none"
    /\ step \in {"explain", "close"} /\ outcome = "none" => Opened

\* The answers are the first of what there is to explain, in their order.
InOrder ==
    /\ Len(answered) \in Nat
    /\ answered = [k \in 1 .. Len(answered) |-> Identify(Image)[k]]

Complete == InOrder /\ Len(answered) = Len(Identify(Image))

AnswersPhase ==
    /\ step \in {"idle", "read", "work", "connect"} => answered = <<>>
    /\ step \in {"idle", "read", "work", "connect", "explain"} => pending = "none"
    /\ Enriches =>
           /\ step = "explain" => InOrder
           /\ step = "close" /\ pending = "none" => Complete
           /\ step = "write" => Complete
           /\ outcome = "ok" => Complete

CliInv == CliPhase /\ OutputPhase /\ RouterPhase /\ AnswersPhase

-------------------------------------------------------------------------------
(* The scan and its adapter take the same steps inside an invocation.          *)

LEMMA CliStepsAreSteps == CliNext => [Next]_vars
<1>1. Called => [Next]_vars
  BY DEF Called, Next
<1>2. ScanPayload => [Next]_vars
  BY DEF ScanPayload, Next
<1>3. Invoke \/ RefusePayload => UNCHANGED vars
  BY DEF Invoke, RefusePayload
<1>4. Cli => UNCHANGED vars
  BY DEF Cli, ReadInput, Work, ParsePe, Connect, Explain, Close, WriteReport, RenderPng,
         PrintEnvelope
<1>. QED
  BY <1>1, <1>2, <1>3, <1>4 DEF CliNext

LEMMA CliSpecIsSpec == CliSpec => Init /\ [][Next]_vars
<1>1. CliInit => Init
  BY DEF CliInit
<1>2. [CliNext]_CliVars => [Next]_vars
  BY CliStepsAreSteps DEF CliVars
<1>. QED
  BY <1>1, <1>2, PTL DEF CliSpec

LEMMA ScanInvariant == CliSpec => []IInv
  BY CliSpecIsSpec, InvInit, InvStep, PTL

-------------------------------------------------------------------------------
LEMMA ProfileNames ==
    DOMAIN Profiles = {"disassemble", "decompile", "identify_libs", "cfg", "solve_branch",
                       "patch_diff", "crypto_id", "generate_yara", "analyze", "demo"}
  BY DEF Profiles

\* A raised exception ends the command where it is, with or without a message.
LEMMA RaiseEnds ==
    ASSUME NEW e, Raise(e)
    PROVE  step' = step /\ outcome' \in {"error", "traceback"}
  BY DEF Raise, End

\* What is to be explained is fixed with the command and the contents it read.
LEMMA ImageFixed ==
    ASSUME UNCHANGED <<command, contents>>
    PROVE  Image' = Image /\ Identify(Image)' = Identify(Image) /\ Enriches' = Enriches
<1>1. Image' = Image /\ Enriches' = Enriches
  BY DEF Image, Enriches
<1>. QED
  BY <1>1

LEMMA CliInitInv == CliInit => CliInv
<1>. SUFFICES ASSUME CliInit PROVE CliInv
  OBVIOUS
<1>. USE DEF CliInit
<1>1. CliPhase /\ RouterPhase
  BY DEF CliPhase, CliSteps, RouterPhase, Opened
<1>2. OutputPhase
  BY DEF OutputPhase, FailureLeavesOutput
<1>3. AnswersPhase
  BY DEF AnswersPhase, Enriches
<1>. QED
  BY <1>1, <1>2, <1>3 DEF CliInv

LEMMA InvokeKeepsInv ==
    ASSUME CliInv, Invoke
    PROVE  CliInv'
<1>0. /\ command = "none" /\ outcome = "none" /\ step = "idle" /\ ~Opened
      /\ answered = <<>> /\ pending = "none" /\ output = "old"
      /\ command' \in DOMAIN Profiles
      /\ UNCHANGED <<contents, output, router, answered, pending>>
      /\ \/ step' = "read" /\ outcome' = "none"
         \/ step' = "idle" /\ outcome' = "usage"
  BY DEF Invoke, CliInv, CliPhase, OutputPhase, RouterPhase, AnswersPhase
<1>1. CliPhase'
  BY <1>0, ProfileNames DEF CliPhase, CliSteps
<1>2. OutputPhase'
  BY <1>0 DEF OutputPhase, FailureLeavesOutput
<1>3. RouterPhase'
  BY <1>0 DEF CliInv, RouterPhase, Opened
<1>4. AnswersPhase'
  BY <1>0 DEF AnswersPhase
<1>. QED
  BY <1>1, <1>2, <1>3, <1>4 DEF CliInv

LEMMA ReadInputKeepsInv ==
    ASSUME CliInv, ReadInput
    PROVE  CliInv'
<1>0. /\ command \in DOMAIN Profiles /\ step = "read" /\ outcome = "none" /\ ~Opened
      /\ answered = <<>> /\ pending = "none" /\ output = "old"
      /\ UNCHANGED <<command, output, router, answered, pending>>
      /\ \/ step' \in {"read", "work"} /\ outcome' = "none"
         \/ step' = "read" /\ outcome' \in {"error", "traceback"}
  BY RaiseEnds
     DEF ReadInput, Running, Continue, CliInv, OutputPhase, RouterPhase, AnswersPhase
<1>1. CliPhase'
  BY <1>0 DEF CliInv, CliPhase, CliSteps
<1>2. OutputPhase'
  BY <1>0 DEF OutputPhase, FailureLeavesOutput
<1>3. RouterPhase'
  BY <1>0 DEF CliInv, RouterPhase, Opened
<1>4. AnswersPhase'
  BY <1>0 DEF AnswersPhase
<1>. QED
  BY <1>1, <1>2, <1>3, <1>4 DEF CliInv

\* The work of a command that does not enrich leads to the report or ends it.
LEMMA WorkKeepsInv ==
    ASSUME CliInv, Work
    PROVE  CliInv'
<1>0. /\ command \in DOMAIN Profiles /\ step = "work" /\ outcome = "none" /\ ~Opened
      /\ answered = <<>> /\ pending = "none" /\ output = "old" /\ ~Enriches
      /\ UNCHANGED <<command, output, router, answered, pending>>
      /\ \/ step' = "write" /\ outcome' = "none"
         \/ step' = "work" /\ outcome' \in {"error", "traceback"}
  BY RaiseEnds
     DEF Work, Running, Continue, End, job, CliInv, OutputPhase, RouterPhase, AnswersPhase
<1>1. CliPhase'
  BY <1>0 DEF CliInv, CliPhase, CliSteps, Enriches
<1>2. OutputPhase'
  BY <1>0 DEF OutputPhase, FailureLeavesOutput
<1>3. RouterPhase'
  BY <1>0 DEF CliInv, RouterPhase, Opened
<1>4. AnswersPhase'
  BY <1>0 DEF AnswersPhase, Enriches
<1>. QED
  BY <1>1, <1>2, <1>3, <1>4 DEF CliInv

LEMMA ParsePeKeepsInv ==
    ASSUME CliInv, ParsePe
    PROVE  CliInv'
<1>0. /\ command \in DOMAIN Profiles /\ step = "work" /\ outcome = "none" /\ ~Opened
      /\ answered = <<>> /\ pending = "none" /\ output = "old" /\ Enriches
      /\ UNCHANGED <<command, output, router, answered, pending>>
      /\ \/ step' = "connect" /\ outcome' = "none"
         \/ step' = "work" /\ outcome' \in {"error", "traceback"}
  BY RaiseEnds
     DEF ParsePe, Running, Continue, job, CliInv, OutputPhase, RouterPhase, AnswersPhase
<1>1. CliPhase'
  BY <1>0 DEF CliInv, CliPhase, CliSteps, Enriches
<1>2. OutputPhase'
  BY <1>0 DEF OutputPhase, FailureLeavesOutput
<1>3. RouterPhase'
  BY <1>0 DEF CliInv, RouterPhase, Opened
<1>4. AnswersPhase'
  BY <1>0 DEF AnswersPhase
<1>. QED
  BY <1>1, <1>2, <1>3, <1>4 DEF CliInv

\* A router that could not be opened is not left open.
LEMMA ConnectKeepsInv ==
    ASSUME CliInv, Connect
    PROVE  CliInv'
<1>0. /\ command \in DOMAIN Profiles /\ step = "connect" /\ outcome = "none" /\ ~Opened
      /\ answered = <<>> /\ pending = "none" /\ output = "old" /\ Enriches
      /\ UNCHANGED <<command, contents, output, answered, pending>>
      /\ \/ step' = "explain" /\ outcome' = "none" /\ router' \in {"stub", "llm"}
         \/ /\ step' = "connect" /\ outcome' \in {"error", "traceback"}
            /\ router' = router
  BY RaiseEnds
     DEF Connect, Running, Continue, CliInv, CliPhase, OutputPhase, RouterPhase,
         AnswersPhase
<1>1. CliPhase'
  BY <1>0 DEF CliInv, CliPhase, CliSteps, Enriches
<1>2. OutputPhase'
  BY <1>0 DEF OutputPhase, FailureLeavesOutput
<1>3. RouterPhase'
  BY <1>0 DEF CliInv, RouterPhase, Opened
<1>4. AnswersPhase'
  <2>1. InOrder'
    BY <1>0 DEF InOrder
  <2>. QED
    BY <1>0, <2>1 DEF AnswersPhase
<1>. QED
  BY <1>1, <1>2, <1>3, <1>4 DEF CliInv

\* One more answer is the next one.
LEMMA NextInOrder ==
    ASSUME InOrder, UNCHANGED <<command, contents>>,
           answered' = Append(answered, Identify(Image)[Len(answered) + 1])
    PROVE  InOrder'
<1>. DEFINE all == Identify(Image)
            n == Len(answered)
<1>1. n \in Nat /\ answered = [k \in 1 .. n |-> all[k]]
  BY DEF InOrder
<1>2. answered' = Append(answered, all[n + 1]) /\ Identify(Image)' = all
  BY ImageFixed
<1>. HIDE DEF all, n
<1>3. answered \in Seq({all[k] : k \in 1 .. n + 1}) /\ Len(answered) = n
  <2>1. answered \in [1 .. n -> {all[k] : k \in 1 .. n + 1}]
    BY <1>1
  <2>. QED
    BY <1>1, <2>1
<1>4. all[n + 1] \in {all[k] : k \in 1 .. n + 1}
  BY <1>1
<1>5. /\ Len(answered') = n + 1 /\ DOMAIN answered' = 1 .. n + 1
      /\ \A k \in 1 .. n : answered'[k] = all[k]
      /\ answered'[n + 1] = all[n + 1]
  BY <1>1, <1>2, <1>3, <1>4, Appended
<1>6. answered' \in Seq({all[k] : k \in 1 .. n + 1})
  BY <1>2, <1>3, <1>4, Appended
<1>7. answered' = [k \in 1 .. n + 1 |-> all[k]]
  BY <1>1, <1>5, <1>6
<1>. QED
  BY <1>1, <1>2, <1>5, <1>7 DEF InOrder

LEMMA ExplainKeepsInv ==
    ASSUME CliInv, Explain
    PROVE  CliInv'
<1>0. /\ command \in DOMAIN Profiles /\ step = "explain" /\ outcome = "none" /\ Opened
      /\ pending = "none" /\ output = "old" /\ Enriches /\ InOrder
      /\ UNCHANGED <<command, contents, output, router, outcome>>
      /\ step' \in {"explain", "close"}
  BY DEF Explain, Running, Continue, CliInv, CliPhase, OutputPhase, RouterPhase,
         AnswersPhase
<1>1. CliPhase'
  BY <1>0 DEF CliInv, CliPhase, CliSteps, Enriches
<1>2. OutputPhase'
  BY <1>0 DEF OutputPhase, FailureLeavesOutput
<1>3. RouterPhase'
  BY <1>0 DEF CliInv, RouterPhase, Opened
<1>4. AnswersPhase'
  <2>. USE DEF Explain, Continue
  <2>1. CASE step' = "explain"
    <3>1. InOrder' /\ pending' = "none"
      BY <1>0, <2>1, NextInOrder
    <3>. QED
      BY <1>0, <2>1, <3>1 DEF AnswersPhase
  <2>2. CASE step' = "close" /\ pending' \in {"runtime", "value"}
    BY <1>0, <2>2 DEF AnswersPhase
  <2>3. CASE /\ step' = "close" /\ Len(answered) = Len(Identify(Image))
             /\ UNCHANGED <<answered, pending>>
    <3>1. Complete'
      BY <1>0, <2>3, ImageFixed DEF InOrder, Complete
    <3>. QED
      BY <1>0, <2>3, <3>1 DEF AnswersPhase
  <2>. QED
    BY <1>0, <2>1, <2>2, <2>3
<1>. QED
  BY <1>1, <1>2, <1>3, <1>4 DEF CliInv

\* The router is closed on both ways out of the finally.
LEMMA CloseKeepsInv ==
    ASSUME CliInv, Close
    PROVE  CliInv'
<1>0. /\ command \in DOMAIN Profiles /\ step = "close" /\ outcome = "none"
      /\ router' = "closed" /\ output = "old" /\ Enriches
      /\ pending = "none" => Complete
      /\ UNCHANGED <<command, contents, output, answered, pending>>
      /\ \/ step' = "write" /\ outcome' = "none" /\ pending = "none"
         \/ step' = "close" /\ outcome' \in {"error", "traceback"} /\ pending # "none"
  BY RaiseEnds
     DEF Close, Running, Continue, CliInv, CliPhase, OutputPhase, RouterPhase,
         AnswersPhase
<1>1. CliPhase'
  BY <1>0 DEF CliInv, CliPhase, CliSteps, Enriches
<1>2. OutputPhase'
  BY <1>0 DEF OutputPhase, FailureLeavesOutput
<1>3. RouterPhase'
  BY <1>0 DEF RouterPhase, Opened
<1>4. AnswersPhase'
  <2>1. pending = "none" => Complete'
    BY <1>0, ImageFixed DEF InOrder, Complete
  <2>. QED
    BY <1>0, <2>1 DEF AnswersPhase
<1>. QED
  BY <1>1, <1>2, <1>3, <1>4 DEF CliInv

\* Opening the file truncates it; a failure from here on is one of writing.
LEMMA WriteReportKeepsInv ==
    ASSUME CliInv, WriteReport
    PROVE  CliInv'
<1>0. /\ command \in DOMAIN Profiles /\ step = "write" /\ outcome = "none" /\ ~Opened
      /\ Enriches => Complete
      /\ UNCHANGED <<command, contents, router, answered, pending>>
      /\ \/ step' = "write" /\ outcome' = "ok"
         \/ step' = "render" /\ outcome' = "none" /\ output' = "new" /\ command = "cfg"
         \/ /\ step' = "write" /\ outcome' \in {"error", "traceback"}
            /\ output' \in {"old", "partial"}
  BY RaiseEnds
     DEF WriteReport, Running, Continue, End, job, CliInv, RouterPhase, AnswersPhase
<1>1. CliPhase'
  BY <1>0 DEF CliInv, CliPhase, CliSteps, Enriches
<1>2. OutputPhase'
  BY <1>0 DEF OutputPhase, FailureLeavesOutput
<1>3. RouterPhase'
  BY <1>0 DEF CliInv, RouterPhase, Opened
<1>4. AnswersPhase'
  <2>1. Enriches' => Complete'
    BY <1>0, ImageFixed DEF InOrder, Complete
  <2>. QED
    BY <1>0, <2>1 DEF AnswersPhase
<1>. QED
  BY <1>1, <1>2, <1>3, <1>4 DEF CliInv

LEMMA RenderPngKeepsInv ==
    ASSUME CliInv, RenderPng
    PROVE  CliInv'
<1>0. /\ command = "cfg" /\ step = "render" /\ outcome = "none" /\ ~Opened /\ ~Enriches
      /\ output = "new" /\ step' = "render"
      /\ UNCHANGED <<command, contents, router, answered, pending, output>>
      /\ outcome' \in {"ok", "error", "traceback"}
  BY RaiseEnds
     DEF RenderPng, Running, End, job, CliInv, CliPhase, OutputPhase, RouterPhase, Enriches
<1>1. CliPhase'
  BY <1>0, ProfileNames DEF CliPhase, CliSteps
<1>2. OutputPhase'
  BY <1>0 DEF OutputPhase, FailureLeavesOutput
<1>3. RouterPhase'
  BY <1>0 DEF CliInv, RouterPhase, Opened
<1>4. AnswersPhase'
  BY <1>0 DEF AnswersPhase, Enriches
<1>. QED
  BY <1>1, <1>2, <1>3, <1>4 DEF CliInv

\* The scan command writes no report file and opens no router.
LEMMA ScanCommandKeepsInv ==
    ASSUME CliInv, RefusePayload \/ ScanPayload \/ PrintEnvelope
    PROVE  CliInv'
<1>0. /\ command' = "scan" /\ ~Opened /\ output = "old" /\ step' \in {"scan", "print"}
      /\ outcome' \in {"none", "ok", "traceback"}
      /\ UNCHANGED <<output, contents, router, answered, pending>>
  BY DEF RefusePayload, ScanPayload, PrintEnvelope, ScanIdle, End, job, CliInv, CliPhase,
         OutputPhase, RouterPhase
<1>1. CliPhase'
  BY <1>0 DEF CliPhase, CliSteps, Enriches
<1>2. OutputPhase'
  BY <1>0 DEF OutputPhase, FailureLeavesOutput
<1>3. RouterPhase'
  BY <1>0 DEF CliInv, RouterPhase, Opened
<1>4. AnswersPhase'
  BY <1>0 DEF AnswersPhase, Enriches
<1>. QED
  BY <1>1, <1>2, <1>3, <1>4 DEF CliInv

-------------------------------------------------------------------------------
\* While the scan runs, or the host rewrites the file, the command stands still.
LEMMA StandstillKeepsInv ==
    ASSUME CliInv, UNCHANGED cli
    PROVE  CliInv'
<1>0. UNCHANGED <<command, step, outcome, contents, output, router, answered, pending>>
  BY DEF cli
<1>1. Enriches' = Enriches /\ Opened' = Opened
  BY <1>0 DEF Enriches, Opened
<1>2. CliPhase' /\ RouterPhase'
  BY <1>0, <1>1 DEF CliInv, CliPhase, RouterPhase
<1>3. OutputPhase'
  BY <1>0 DEF CliInv, OutputPhase, FailureLeavesOutput
<1>4. AnswersPhase'
  <2>1. (InOrder => InOrder') /\ (Complete => Complete')
    BY <1>0, ImageFixed DEF InOrder, Complete
  <2>. QED
    BY <1>0, <1>1, <2>1 DEF CliInv, AnswersPhase
<1>. QED
  BY <1>2, <1>3, <1>4 DEF CliInv

LEMMA CliInvStep == CliInv /\ [CliNext]_CliVars => CliInv'
<1>. SUFFICES ASSUME CliInv, [CliNext]_CliVars PROVE CliInv'
  OBVIOUS
<1>1. CASE Called
  BY <1>1, StandstillKeepsInv DEF Called
<1>2. CASE Invoke
  BY <1>2, InvokeKeepsInv
<1>3. CASE RefusePayload \/ ScanPayload \/ PrintEnvelope
  BY <1>3, ScanCommandKeepsInv
<1>4. CASE ReadInput
  BY <1>4, ReadInputKeepsInv
<1>5. CASE Work
  BY <1>5, WorkKeepsInv
<1>6. CASE ParsePe
  BY <1>6, ParsePeKeepsInv
<1>7. CASE Connect
  BY <1>7, ConnectKeepsInv
<1>8. CASE Explain
  BY <1>8, ExplainKeepsInv
<1>9. CASE Close
  BY <1>9, CloseKeepsInv
<1>10. CASE WriteReport
  BY <1>10, WriteReportKeepsInv
<1>11. CASE RenderPng
  BY <1>11, RenderPngKeepsInv
<1>12. CASE UNCHANGED CliVars
  BY <1>12, StandstillKeepsInv DEF CliVars
<1>. QED
  BY <1>1, <1>2, <1>3, <1>4, <1>5, <1>6, <1>7, <1>8, <1>9, <1>10, <1>11, <1>12
     DEF CliNext, Cli

\* CliInv holds in every reachable state of the command line and of the scan it calls.
THEOREM CliInvariant == CliSpec => []CliInv
  BY CliInitInv, CliInvStep, PTL DEF CliSpec

-------------------------------------------------------------------------------
(* What an invocation promises.                                                *)

\* Whatever fails, a report of an earlier run is still there, unless the
\* writing itself failed, or the image of a new graph did.
THEOREM FailuresLeaveTheOutput == CliSpec => []FailureLeavesOutput
<1>1. CliInv => FailureLeavesOutput
  BY DEF CliInv, OutputPhase
<1>. QED
  BY <1>1, CliInvariant, PTL

\* However the command ends, no router is left open: the finally of
\* identifier.explain_functions runs on every way out.
RouterClosed == outcome # "none" => router \in {"none", "closed"}

\* Whatever a command raises, its answer finds the router closed.
THEOREM RoutersAreClosed == CliSpec => []RouterClosed
<1>1. CliInv => RouterClosed
  BY DEF CliInv, RouterPhase, Opened, RouterClosed
<1>. QED
  BY <1>1, CliInvariant, PTL

\* A report of analyze or demo holds one answer for each function identified
\* in the image, in their order; a failure in between leaves no such report.
EveryFunctionExplained ==
    outcome = "ok" /\ Enriches =>
        /\ Len(answered) = Len(Identify(Image))
        /\ answered = [k \in 1 .. Len(answered) |-> Identify(Image)[k]]

\* A command that ends well has sent one request for each function, in order.
THEOREM EveryFunctionIsExplained == CliSpec => []EveryFunctionExplained
<1>1. CliInv => EveryFunctionExplained
  BY DEF CliInv, AnswersPhase, Complete, InOrder, EveryFunctionExplained
<1>. QED
  BY <1>1, CliInvariant, PTL

-------------------------------------------------------------------------------
(* What identify_functions lists of any image.                                 *)

ListsImports(all, pe) ==
    \A k \in DOMAIN pe.imports : \E n \in 1 .. Len(all) :
        all[n].kind = "import" /\ SameFunction(all[n], pe.imports[k])

ListsLocals(all, pe) ==
    \A k \in DOMAIN pe.functions : \E n \in 1 .. Len(all) :
        /\ all[n].name = pe.functions[k].name
        /\ \/ all[n].kind = "import"
           \/ all[n].kind = "local" /\ all[n].address = pe.functions[k].address

ListsEntry(all, pe) == \E n \in 1 .. Len(all) : all[n].address = pe.entry

ListsInPlace(all) ==
    \A m, n \in 1 .. Len(all) : m < n =>
        \/ Place(all[m].kind) < Place(all[n].kind)
        \/ all[m].kind = "local" /\ all[n].kind = "local"
        \/ /\ all[m].kind = "import" /\ all[n].kind = "import"
           /\ ~SameFunction(all[m], all[n])

Lists(all, pe) ==
    /\ ListsImports(all, pe) /\ ListsLocals(all, pe) /\ ListsEntry(all, pe)
    /\ ListsInPlace(all)

\* The imports of an image, each function of each library once.
LEMMA FirstImportsList ==
    ASSUME NEW pe, IsImage(pe)
    PROVE  \E V : /\ FirstImports(pe) \in Seq(V)
                  /\ \A n \in 1 .. Len(FirstImports(pe)) : FirstImports(pe)[n].kind = "import"
                  /\ ListsImports(FirstImports(pe), pe)
                  /\ \A m, n \in 1 .. Len(FirstImports(pe)) :
                        m < n => ~SameFunction(FirstImports(pe)[m], FirstImports(pe)[n])
<1>. DEFINE I == pe.imports
            K == {k \in DOMAIN I : \A j \in 1 .. k - 1 : ~SameFunction(I[j], I[k])}
            V == {Identified(x.name, x.dll, x.address, "import") : x \in Range(I)}
            first == Keep(I, K)
            m == Cardinality(K)
            A == Ascending(K)
            F == FirstImports(pe)
<1>1. /\ I \in Seq(Range(I)) /\ Len(I) \in Nat /\ DOMAIN I = 1 .. Len(I)
      /\ K \in SUBSET (1 .. Len(I))
  BY DEF IsImage
<1>2. /\ m \in Nat /\ Enumerates(A, m, K) /\ first \in [1 .. m -> Range(I)]
      /\ \A n \in 1 .. m : first[n] = I[A[n]]
      /\ \A k \in K : \E n \in 1 .. m : first[n] = I[k]
  <2>. HIDE DEF K, I
  <2>. QED
    BY <1>1, KeepInOrder
<1>3. F = [n \in 1 .. m |-> Identified(first[n].name, first[n].dll, first[n].address, "import")]
  <2>1. F = [n \in DOMAIN first |->
               Identified(first[n].name, first[n].dll, first[n].address, "import")]
    BY DEF FirstImports
  <2>. HIDE DEF F, first
  <2>. QED
    BY <1>2, <2>1
<1>. HIDE DEF first, F, m, A
<1>4. F \in [1 .. m -> V]
  BY <1>2, <1>3
<1>5. F \in Seq(V) /\ Len(F) = m
  <2>. HIDE DEF V
  <2>. QED
    BY <1>2, <1>4
<1>6. ASSUME NEW n \in 1 .. m
      PROVE  F[n].kind = "import" /\ F[n].name = first[n].name /\ F[n].dll = first[n].dll
  BY <1>3 DEF Identified
<1>7. ASSUME NEW k \in DOMAIN I
      PROVE  \E n \in 1 .. m : F[n].kind = "import" /\ SameFunction(F[n], I[k])
  <2>. DEFINE J == {j \in 1 .. Len(I) : SameFunction(I[j], I[k])}
  <2>1. J \in SUBSET Nat /\ J # {}
    BY <1>1 DEF SameFunction
  <2>2. PICK j \in J : \A l \in J : j <= l
    <3>. HIDE DEF J
    <3>. QED
      BY <2>1, MinIsLeast
  <2>3. \A l \in 1 .. j - 1 : ~SameFunction(I[l], I[j])
    BY <1>1, <2>2 DEF SameFunction
  <2>4. j \in K
    BY <1>1, <2>3
  <2>5. PICK n \in 1 .. m : first[n] = I[j]
    BY <1>2, <2>4
  <2>6. SameFunction(F[n], I[k])
    BY <1>6, <2>5 DEF SameFunction
  <2>. QED
    BY <1>6, <2>6
<1>8. ASSUME NEW a \in 1 .. m, NEW b \in 1 .. m, a < b PROVE ~SameFunction(F[a], F[b])
  <2>1. A[a] \in K /\ A[b] \in K /\ A[a] < A[b]
    BY <1>2, <1>8 DEF Enumerates
  <2>2. ~SameFunction(I[A[a]], I[A[b]])
    BY <1>1, <2>1
  <2>3. first[a] = I[A[a]] /\ first[b] = I[A[b]]
    BY <1>2
  <2>. QED
    BY <1>6, <2>2, <2>3 DEF SameFunction
<1>. HIDE DEF K, V
<1>9. ListsImports(F, pe)
  BY <1>5, <1>7 DEF ListsImports
<1>10. \A n \in 1 .. Len(F) : F[n].kind = "import"
  BY <1>5, <1>6
<1>11. \A a, b \in 1 .. Len(F) : a < b => ~SameFunction(F[a], F[b])
  BY <1>5, <1>8
<1>. QED
  BY <1>5, <1>9, <1>10, <1>11 DEF F

LEMMA LocalFunctionsList ==
    ASSUME NEW pe, IsImage(pe)
    PROVE  \E V : /\ LocalFunctions(pe) \in Seq(V)
                  /\ \A n \in 1 .. Len(LocalFunctions(pe)) : LocalFunctions(pe)[n].kind = "local"
                  /\ \A k \in DOMAIN pe.functions :
                        \/ \E j \in DOMAIN pe.imports : pe.imports[j].name = pe.functions[k].name
                        \/ \E n \in 1 .. Len(LocalFunctions(pe)) :
                              /\ LocalFunctions(pe)[n].name = pe.functions[k].name
                              /\ LocalFunctions(pe)[n].address = pe.functions[k].address
<1>. DEFINE I == pe.functions
            K == {k \in DOMAIN I : \A j \in DOMAIN pe.imports : pe.imports[j].name # I[k].name}
            V == {Identified(x.name, "(local)", x.address, "local") : x \in Range(I)}
            own == Keep(I, K)
            m == Cardinality(K)
            F == LocalFunctions(pe)
<1>1. /\ I \in Seq(Range(I)) /\ Len(I) \in Nat /\ DOMAIN I = 1 .. Len(I)
      /\ K \in SUBSET (1 .. Len(I))
  BY DEF IsImage
<1>2. /\ m \in Nat /\ own \in [1 .. m -> Range(I)]
      /\ \A k \in K : \E n \in 1 .. m : own[n] = I[k]
  <2>. HIDE DEF K, I
  <2>. QED
    BY <1>1, KeepInOrder
<1>3. F = [n \in 1 .. m |-> Identified(own[n].name, "(local)", own[n].address, "local")]
  <2>1. F = [n \in DOMAIN own |-> Identified(own[n].name, "(local)", own[n].address, "local")]
    BY DEF LocalFunctions
  <2>. HIDE DEF F, own
  <2>. QED
    BY <1>2, <2>1
<1>. HIDE DEF own, F, m
<1>4. F \in [1 .. m -> V]
  BY <1>2, <1>3
<1>5. F \in Seq(V) /\ Len(F) = m
  <2>. HIDE DEF V
  <2>. QED
    BY <1>2, <1>4
<1>6. ASSUME NEW n \in 1 .. m
      PROVE  F[n].kind = "local" /\ F[n].name = own[n].name /\ F[n].address = own[n].address
  BY <1>3 DEF Identified
<1>7. ASSUME NEW k \in DOMAIN I, k \in K
      PROVE  \E n \in 1 .. m : F[n].name = I[k].name /\ F[n].address = I[k].address
  BY <1>2, <1>6, <1>7
<1>8. ASSUME NEW k \in DOMAIN I, k \notin K
      PROVE  \E j \in DOMAIN pe.imports : pe.imports[j].name = I[k].name
  BY <1>8
<1>9. \A n \in 1 .. Len(F) : F[n].kind = "local"
  BY <1>5, <1>6
<1>. HIDE DEF K, V
<1>10. \A k \in DOMAIN I :
         \/ \E j \in DOMAIN pe.imports : pe.imports[j].name = I[k].name
         \/ \E n \in 1 .. Len(F) : F[n].name = I[k].name /\ F[n].address = I[k].address
  BY <1>5, <1>7, <1>8
<1>. QED
  BY <1>5, <1>9, <1>10 DEF F

LEMMA IdentifyLists ==
    ASSUME NEW pe, IsImage(pe)
    PROVE  Lists(Identify(pe), pe)
<1>. DEFINE F == FirstImports(pe)
            L == LocalFunctions(pe)
            known == F \o L
            last == Identified("entry_point", "(self)", pe.entry, "entry")
            all == Identify(pe)
            p == Len(F)
            q == Len(L)
<1>1. PICK V : /\ F \in Seq(V)
               /\ \A n \in 1 .. p : F[n].kind = "import"
               /\ ListsImports(F, pe)
               /\ \A m, n \in 1 .. p : m < n => ~SameFunction(F[m], F[n])
  BY FirstImportsList
<1>2. PICK W : /\ L \in Seq(W)
               /\ \A n \in 1 .. q : L[n].kind = "local"
               /\ \A k \in DOMAIN pe.functions :
                     \/ \E j \in DOMAIN pe.imports : pe.imports[j].name = pe.functions[k].name
                     \/ \E n \in 1 .. q : /\ L[n].name = pe.functions[k].name
                                          /\ L[n].address = pe.functions[k].address
  BY LocalFunctionsList
<1>3. all = IF \E k \in DOMAIN known : known[k].address = pe.entry
            THEN known ELSE Append(known, last)
  BY DEF Identify
<1>4. last.kind = "entry" /\ last.address = pe.entry
  BY DEF Identified
<1>. HIDE DEF F, L, last, all
<1>5. p \in Nat /\ q \in Nat
  BY <1>1, <1>2
<1>6. /\ known \in Seq(V \cup W \cup {last}) /\ Len(known) = p + q
      /\ \A n \in 1 .. p : n \in 1 .. Len(known) /\ known[n] = F[n]
      /\ \A n \in 1 .. q : p + n \in 1 .. Len(known) /\ known[p + n] = L[n]
  <2>1. F \in Seq(V \cup W \cup {last}) /\ L \in Seq(V \cup W \cup {last})
    BY <1>1, <1>2
  <2>. QED
    BY <2>1, ConcatElements
<1>. HIDE DEF p, q, known
\* The list is the known functions, and then perhaps the entry point.
<1>7. /\ Len(all) \in {p + q, p + q + 1}
      /\ \A n \in 1 .. p + q : all[n] = known[n]
      /\ Len(all) = p + q + 1 => all[p + q + 1] = last
      /\ Len(all) = p + q => \E n \in 1 .. p + q : known[n].address = pe.entry
  <2>1. DOMAIN known = 1 .. p + q
    BY <1>5, <1>6
  <2>2. CASE \E k \in DOMAIN known : known[k].address = pe.entry
    <3>1. all = known
      BY <1>3, <2>2
    <3>. QED
      BY <1>5, <1>6, <2>1, <2>2, <3>1
  <2>3. CASE ~ \E k \in DOMAIN known : known[k].address = pe.entry
    <3>1. all = Append(known, last)
      BY <1>3, <2>3
    <3>2. /\ Len(all) = p + q + 1 /\ all[p + q + 1] = last
          /\ \A n \in 1 .. p + q : all[n] = known[n]
      BY <1>5, <1>6, <3>1
    <3>. QED
      BY <1>5, <3>2
  <2>. QED
    BY <2>2, <2>3
<1>8. /\ \A n \in 1 .. p : n \in 1 .. Len(all) /\ all[n] = F[n]
      /\ \A n \in 1 .. q : p + n \in 1 .. Len(all) /\ all[p + n] = L[n]
  <2>1. ASSUME NEW n \in 1 .. p PROVE n \in 1 .. Len(all) /\ all[n] = F[n]
    <3>1. n \in 1 .. p + q /\ n \in 1 .. Len(all)
      BY <1>5, <1>7
    <3>. QED
      BY <1>6, <1>7, <3>1
  <2>2. ASSUME NEW n \in 1 .. q PROVE p + n \in 1 .. Len(all) /\ all[p + n] = L[n]
    <3>1. p + n \in 1 .. p + q /\ p + n \in 1 .. Len(all)
      BY <1>5, <1>7
    <3>. QED
      BY <1>6, <1>7, <3>1
  <2>. QED
    BY <2>1, <2>2
<1>9. ListsImports(all, pe)
  <2>1. ASSUME NEW k \in DOMAIN pe.imports
        PROVE  \E n \in 1 .. Len(all) :
                  all[n].kind = "import" /\ SameFunction(all[n], pe.imports[k])
    <3>1. PICK n \in 1 .. p : F[n].kind = "import" /\ SameFunction(F[n], pe.imports[k])
      BY <1>1 DEF ListsImports, p
    <3>2. n \in 1 .. Len(all) /\ all[n] = F[n]
      BY <1>8
    <3>. QED
      BY <3>1, <3>2
  <2>. QED
    BY <2>1 DEF ListsImports
<1>10. ListsLocals(all, pe)
  <2>1. ASSUME NEW k \in DOMAIN pe.functions
        PROVE  \E n \in 1 .. Len(all) :
                  /\ all[n].name = pe.functions[k].name
                  /\ \/ all[n].kind = "import"
                     \/ all[n].kind = "local" /\ all[n].address = pe.functions[k].address
    <3>1. CASE \E j \in DOMAIN pe.imports : pe.imports[j].name = pe.functions[k].name
      <4>1. PICK j \in DOMAIN pe.imports : pe.imports[j].name = pe.functions[k].name
        BY <3>1
      <4>2. PICK n \in 1 .. Len(all) :
               all[n].kind = "import" /\ SameFunction(all[n], pe.imports[j])
        BY <1>9 DEF ListsImports
      <4>. QED
        BY <4>1, <4>2 DEF SameFunction
    <3>2. CASE \E n \in 1 .. q : /\ L[n].name = pe.functions[k].name
                                 /\ L[n].address = pe.functions[k].address
      <4>1. PICK n \in 1 .. q : /\ L[n].name = pe.functions[k].name
                                /\ L[n].address = pe.functions[k].address
        BY <3>2
      <4>2. p + n \in 1 .. Len(all) /\ all[p + n] = L[n] /\ L[n].kind = "local"
        BY <1>2, <1>8 DEF q
      <4>. QED
        BY <4>1, <4>2
    <3>. QED
      BY <1>2, <3>1, <3>2 DEF q
  <2>. QED
    BY <2>1 DEF ListsLocals
<1>11. ListsEntry(all, pe)
  <2>1. CASE Len(all) = p + q
    <3>1. PICK n \in 1 .. p + q : known[n].address = pe.entry
      BY <1>7, <2>1
    <3>. QED
      BY <1>7, <2>1, <3>1 DEF ListsEntry
  <2>2. CASE Len(all) = p + q + 1
    <3>1. p + q + 1 \in 1 .. Len(all) /\ all[p + q + 1].address = pe.entry
      BY <1>4, <1>5, <1>7, <2>2
    <3>. QED
      BY <3>1 DEF ListsEntry
  <2>. QED
    BY <1>7, <2>1, <2>2
<1>12. ListsInPlace(all)
  <2>1. ASSUME NEW n \in 1 .. Len(all)
        PROVE  \/ n \in 1 .. p /\ all[n] = F[n] /\ all[n].kind = "import"
               \/ n \in p + 1 .. p + q /\ all[n].kind = "local"
               \/ n = p + q + 1 /\ Len(all) = n /\ all[n].kind = "entry"
    <3>1. CASE n \in 1 .. p
      BY <1>1, <1>8, <3>1 DEF p
    <3>2. CASE n \in p + 1 .. p + q
      <4>1. n - p \in 1 .. q /\ p + (n - p) = n
        BY <1>5, <3>2
      <4>2. all[n] = L[n - p] /\ L[n - p].kind = "local"
        <5>1. \A e \in 1 .. q : L[e].kind = "local"
          BY <1>2 DEF q
        <5>2. all[p + (n - p)] = L[n - p]
          BY <1>8, <4>1
        <5>. QED
          BY <4>1, <5>1, <5>2
      <4>. QED
        BY <3>2, <4>2
    <3>3. CASE n > p + q
      <4>1. n = p + q + 1 /\ Len(all) = n
        BY <1>5, <1>7, <3>3
      <4>2. all[n] = last
        BY <1>7, <4>1
      <4>. QED
        BY <1>4, <4>1, <4>2
    <3>. QED
      BY <1>5, <1>7, <3>1, <3>2, <3>3
  <2>2. Place("import") = 1 /\ Place("local") = 2 /\ Place("entry") = 3
    BY DEF Place
  <2>3. ASSUME NEW m \in 1 .. Len(all), NEW n \in 1 .. Len(all), m < n
        PROVE  \/ Place(all[m].kind) < Place(all[n].kind)
               \/ all[m].kind = "local" /\ all[n].kind = "local"
               \/ /\ all[m].kind = "import" /\ all[n].kind = "import"
                  /\ ~SameFunction(all[m], all[n])
    <3>1. CASE m \in 1 .. p /\ all[m] = F[m] /\ all[m].kind = "import"
      <4>1. CASE n \in 1 .. p /\ all[n] = F[n] /\ all[n].kind = "import"
        <5>1. ~SameFunction(F[m], F[n])
          BY <1>1, <2>3, <3>1, <4>1 DEF p
        <5>. QED
          BY <3>1, <4>1, <5>1
      <4>2. CASE all[n].kind \in {"local", "entry"}
        BY <2>2, <3>1, <4>2
      <4>. QED
        BY <2>1, <4>1, <4>2
    <3>2. CASE m \in p + 1 .. p + q /\ all[m].kind = "local"
      <4>1. n \notin 1 .. p
        BY <1>5, <2>3, <3>2
      <4>2. all[n].kind \in {"local", "entry"}
        BY <2>1, <4>1
      <4>. QED
        BY <2>2, <3>2, <4>2
    <3>3. CASE m = p + q + 1 /\ Len(all) = m
      BY <1>5, <2>3, <3>3
    <3>. QED
      BY <2>1, <3>1, <3>2, <3>3
  <2>. QED
    BY <2>3 DEF ListsInPlace
<1>. QED
  BY <1>9, <1>10, <1>11, <1>12 DEF Lists, all

\* The functions of a command are those of contents that parse_pe_bytes takes.
ImageRead ==
    Enriches /\ (step \in {"connect", "explain", "close", "write"} \/ outcome = "ok") =>
        command = "demo" \/ contents[1] \in DOMAIN Images

LEMMA ImageReadStep == CliInv /\ ImageRead /\ [CliNext]_CliVars => ImageRead'
<1>. SUFFICES ASSUME CliInv, ImageRead, [CliNext]_CliVars PROVE ImageRead'
  OBVIOUS
<1>1. CASE UNCHANGED cli
  BY <1>1 DEF ImageRead, Enriches, cli
<1>2. CASE Invoke
  <2>1. step' \in {"read", "idle"} /\ outcome' \in {"none", "usage"}
    BY <1>2 DEF Invoke, CliInv, CliPhase
  <2>. QED
    BY <2>1 DEF ImageRead
<1>3. CASE RefusePayload \/ ScanPayload
  BY <1>3 DEF RefusePayload, ScanPayload, ImageRead, Enriches
<1>4. CASE PrintEnvelope
  BY <1>4 DEF PrintEnvelope, ImageRead, Enriches
<1>5. CASE ReadInput
  <2>1. step' \in {"read", "work"} /\ outcome' # "ok"
    BY <1>5, RaiseEnds DEF ReadInput, Running, Continue
  <2>. QED
    BY <2>1 DEF ImageRead
<1>6. CASE Work
  BY <1>6 DEF Work, ImageRead, Enriches, job
<1>7. CASE ParsePe
  <2>1. /\ UNCHANGED <<command, contents>> /\ command \in {"analyze", "demo"}
        /\ \/ command = "analyze" /\ contents[1] \notin DOMAIN Images /\ Raise("value")
           \/ command = "demo" \/ contents[1] \in DOMAIN Images
    BY <1>7 DEF ParsePe, Enriches, job
  <2>2. CASE Raise("value")
    <3>1. step' = "work" /\ outcome' # "ok"
      BY <1>7, <2>2, RaiseEnds DEF ParsePe, Running
    <3>. QED
      BY <3>1 DEF ImageRead
  <2>. QED
    BY <2>1, <2>2 DEF ImageRead
<1>8. CASE Connect \/ Explain \/ Close \/ WriteReport
  <2>1. /\ UNCHANGED <<command, contents>>
        /\ step \in {"connect", "explain", "close", "write"}
    BY <1>8 DEF Connect, Explain, Close, WriteReport, Running, job
  <2>. QED
    BY <2>1 DEF ImageRead, Enriches
<1>9. CASE RenderPng
  BY <1>9 DEF RenderPng, Running, CliInv, CliPhase, ImageRead, Enriches, job
<1>. QED
  BY <1>1, <1>2, <1>3, <1>4, <1>5, <1>6, <1>7, <1>8, <1>9
     DEF CliNext, Cli, Called, CliVars

\* A report of analyze or demo names every import of every library once, every
\* local function that is not imported and the entry point, in that order, and
\* its router is closed.
THEOREM ReportsAreComplete == CliSpec => []ReportComplete
<1>1. CliInit => ImageRead
  BY DEF CliInit, ImageRead, Enriches
<1>2. CliInv /\ ImageRead => ReportComplete
  <2>. SUFFICES ASSUME CliInv, ImageRead PROVE ReportComplete
    OBVIOUS
  <2>1. outcome # "none" => router \in {"none", "closed"}
    BY DEF CliInv, RouterPhase, Opened
  <2>2. ASSUME outcome = "ok", Enriches
        PROVE  Lists(answered, Image) /\ DOMAIN answered = 1 .. Len(answered)
    <3>. DEFINE all == Identify(Image)
    <3>1. IsImage(Image)
      BY <2>2, CommandLineAssumption DEF Image, ImageRead
    <3>2. Lists(all, Image)
      BY <3>1, IdentifyLists
    <3>3. /\ Len(answered) \in Nat /\ Len(answered) = Len(all)
          /\ answered = [k \in 1 .. Len(answered) |-> all[k]]
      BY <2>2 DEF CliInv, AnswersPhase, Complete, InOrder
    <3>. DEFINE n == Len(answered)
    <3>. HIDE DEF all, n
    <3>4. n = Len(all) /\ DOMAIN answered = 1 .. n /\ \A k \in 1 .. n : answered[k] = all[k]
      BY <3>3 DEF n
    <3>5. Lists(answered, Image)
      <4>1. n = Len(answered)
        BY DEF n
      <4>2. ListsImports(answered, Image) /\ ListsEntry(answered, Image)
        BY <3>2, <3>4, <4>1 DEF Lists, ListsImports, ListsEntry
      <4>3. ListsLocals(answered, Image)
        BY <3>2, <3>4, <4>1 DEF Lists, ListsLocals
      <4>4. ListsInPlace(answered)
        BY <3>2, <3>4, <4>1 DEF Lists, ListsInPlace
      <4>. QED
        BY <4>2, <4>3, <4>4 DEF Lists
    <3>. QED
      BY <3>4, <3>5 DEF n
  <2>3. ASSUME outcome = "ok", Enriches
        PROVE  /\ ListsImports(answered, Image) /\ ListsLocals(answered, Image)
               /\ ListsEntry(answered, Image) /\ ListsInPlace(answered)
               /\ DOMAIN answered = 1 .. Len(answered)
    BY <2>2, <2>3 DEF Lists
  <2>. QED
    BY <2>1, <2>3
       DEF ReportComplete, ListsImports, ListsLocals, ListsEntry, ListsInPlace
<1>. QED
  BY <1>1, <1>2, ImageReadStep, CliInvariant, PTL DEF CliSpec

-------------------------------------------------------------------------------
\* A scan called from the command line, or by the adapter next to it, keeps all
\* that scan_binary promises: the report that is printed is well formed, about
\* one content and about its own database record.
THEOREM CalledScansAreSound ==
    CliSpec => [](/\ TypeOK /\ ReportWellFormed /\ MatchIffCurated
                  /\ AttributedToItsBackend /\ ConsumerSeesTheReport)
  BY ScanInvariant, InvImpliesReportWellFormed, InvImpliesMatchIffCurated,
     InvImpliesAttributed, InvImpliesConsumerSees, PTL DEF IInv

\* No step of an invocation, whatever its command, is more than the gateway
\* expects of the scan.
THEOREM CommandLineImplementsService ==
    CliSpec => Service!Init /\ [][Service!Next]_(Service!vars)
  BY CliSpecIsSpec, ScanInvariant, InitIsServiceInit, StepIsServiceStep, PTL
===============================================================================
