---------------------------- MODULE CommandLine ------------------------------
(***************************************************************************)
(* cli.py: one invocation of the command line, with the enrichment of      *)
(* analyze and demo (identifier.py, analyzer.py).  The host of ReverseScan *)
(* may rewrite the file between any two steps.  The scan command runs      *)
(* scan_binary; the others read, work and write by themselves.             *)
(*                                                                         *)
(* What a command computes is left to the other modules: here it succeeds  *)
(* or raises.  An exception is its class: OSError, ValueError (with        *)
(* DisassemblyError, MagicError, YaraGenerationError, SymbolicError and    *)
(* JSONDecodeError), RuntimeError (with the errors of Ghidra) or TypeError.*)
(***************************************************************************)
EXTENDS ReverseScan, SequencesExt, Comprehension

CONSTANTS
    Images,     \* Images[s]: what parse_pe_bytes makes of s, if it does not raise
    FakeImage   \* what it makes of make_fake_pe()

Pe(imports, locals, entry) == [imports |-> imports, functions |-> locals, entry |-> entry]

\* The parser lists what the import directory and the table of functions hold.
IsImage(pe) ==
    /\ pe = Pe(pe.imports, pe.functions, pe.entry)
    /\ pe.imports \in Seq(Range(pe.imports))
    /\ pe.functions \in Seq(Range(pe.functions))

ASSUME CommandLineAssumption ==
    /\ DOMAIN Images \subseteq Samples
    /\ \A s \in DOMAIN Images : IsImage(Images[s])
    /\ IsImage(FakeImage)

VARIABLES
    command,   \* the command invoked, or "none"
    step,      \* what it does next, or where it ended
    outcome,   \* "none" while it runs; then "ok", "error", "usage" or "traceback"
    contents,  \* the contents it read
    target,    \* where its report goes: "stdout" or "file"
    output,    \* the report file: "old", "partial" or "new"
    router,    \* the model router: "none", "stub", "llm" or "closed"
    answered,  \* the functions explained so far
    pending    \* the exception on its way through finally, or "none"

cli == <<command, step, outcome, contents, target, output, router, answered, pending>>
job == <<contents, target, router, answered, pending>>

-------------------------------------------------------------------------------
(* The commands: how many files they name, the exceptions their work may raise,
   the ones they turn into a message, whether the try covers the writing, and
   where the report can go. *)

Profile(files, raises, catches, guarded, targets) ==
    [files |-> files, raises |-> raises, catches |-> catches, guarded |-> guarded,
     targets |-> targets]

Anywhere == {"stdout", "file"}

Disassemble == Profile(1, {"value"}, {"os", "value"}, FALSE, Anywhere)

\* decompile_bytes may answer with an error of the Ghidra backend.
DecompileFile == Profile(1, {"value", "runtime"}, {"os", "value"}, FALSE, Anywhere)

IdentifyLibs == Profile(1, {"value"}, {"os", "value"}, FALSE, {"stdout"})

BuildGraph == Profile(1, {"value"}, {"os", "runtime", "value"}, TRUE, {"file"})

\* An unsatisfiable branch is a message as well.
SolveBranch == Profile(0, {"type", "value"}, {"type", "value"}, FALSE, {"stdout"})

DiffFiles == Profile(2, {"value"}, {"os", "value"}, FALSE, Anywhere)

CryptoId == Profile(1, {}, {"os"}, FALSE, Anywhere)

GenerateYara == Profile(1, {"value"}, {"os", "value"}, FALSE, Anywhere)

Analyze == Profile(1, {}, {}, FALSE, Anywhere)

Demo == Profile(0, {}, {}, FALSE, Anywhere)

Profiles ==
    [disassemble |-> Disassemble, decompile |-> DecompileFile, identify_libs |-> IdentifyLibs,
     cfg |-> BuildGraph, solve_branch |-> SolveBranch, patch_diff |-> DiffFiles,
     crypto_id |-> CryptoId, generate_yara |-> GenerateYara, analyze |-> Analyze,
     demo |-> Demo]

Enriches == command \in {"analyze", "demo"}

-------------------------------------------------------------------------------
(* identify_functions. *)

Identified(name, dll, address, kind) ==
    [name |-> name, dll |-> dll, address |-> address, kind |-> kind]

SameFunction(f, g) == f.name = g.name /\ f.dll = g.dll

\* Mutated form: two imports of one name are one function.
ImportsByName(pe) ==
    LET first == Keep(pe.imports, {k \in DOMAIN pe.imports : \A j \in 1 .. k - 1 :
                                      pe.imports[j].name # pe.imports[k].name})
    IN  [n \in DOMAIN first |->
           Identified(first[n].name, first[n].dll, first[n].address, "import")]

\* The imports, each pair of a function and its library once.
FirstImports(pe) ==
    LET first == Keep(pe.imports, {k \in DOMAIN pe.imports : \A j \in 1 .. k - 1 :
                                      ~SameFunction(pe.imports[j], pe.imports[k])})
    IN  [n \in DOMAIN first |->
           Identified(first[n].name, first[n].dll, first[n].address, "import")]

\* The table of functions without the names that are imported.
LocalFunctions(pe) ==
    LET own == Keep(pe.functions, {k \in DOMAIN pe.functions : \A j \in DOMAIN pe.imports :
                                      pe.imports[j].name # pe.functions[k].name})
    IN  [n \in DOMAIN own |-> Identified(own[n].name, "(local)", own[n].address, "local")]

\* The entry point is listed last, unless one of the others begins there.
Identify(pe) ==
    LET known == FirstImports(pe) \o LocalFunctions(pe)
    IN  IF \E k \in DOMAIN known : known[k].address = pe.entry THEN known
        ELSE Append(known, Identified("entry_point", "(self)", pe.entry, "entry"))

Image == IF command = "demo" THEN FakeImage ELSE Images[contents[1]]

-------------------------------------------------------------------------------
(* An invocation. *)

Running(s) == command \in DOMAIN Profiles /\ step = s /\ outcome = "none"

End(how) == outcome' = how /\ UNCHANGED step

Continue(next) == step' = next /\ UNCHANGED outcome

\* The report is written outside the try, except by cfg.
Raise(e) ==
    End(IF /\ e \in Profiles[command].catches
           /\ step \in {"write", "render"} => Profiles[command].guarded
        THEN "error" ELSE "traceback")

\* click.Path(exists=True) looks before the command runs; disassemble and the
\* others refuse a directory, an option or a value they do not know.
Invoke ==
    /\ command = "none" /\ pc = "idle"
    /\ \E c \in DOMAIN Profiles : \E t \in Profiles[c].targets :
           /\ command' = c /\ target' = t
           /\ \/ step' = "read" /\ UNCHANGED outcome
                 /\ (Profiles[c].files > 0 => path # NoFile)
              \/ step' = "idle" /\ outcome' = "usage"
    /\ UNCHANGED <<vars, contents, output, router, answered, pending>>

\* Each argument is opened in turn; it may be gone by now.
ReadInput ==
    /\ Running("read")
    /\ \/ /\ Len(contents) = Profiles[command].files
          /\ Continue("work") /\ UNCHANGED contents
       \/ /\ Len(contents) < Profiles[command].files /\ path # NoFile
          /\ contents' = Append(contents, path) /\ UNCHANGED <<step, outcome>>
       \/ /\ Len(contents) < Profiles[command].files
          /\ Raise("os") /\ UNCHANGED contents
    /\ UNCHANGED <<vars, command, target, output, router, answered, pending>>

\* Mutated form: the report file is opened before there is a report.
WorkOnOpenFile ==
    /\ Running("work") /\ ~Enriches
    /\ output' = IF target = "file" THEN "partial" ELSE output
    /\ \/ Continue("write")
       \/ \E e \in Profiles[command].raises : Raise(e)
    /\ UNCHANGED <<vars, command, job>>

Work ==
    /\ Running("work") /\ ~Enriches
    /\ \/ Continue("write")
       \/ \E e \in Profiles[command].raises : Raise(e)
       \/ command = "solve_branch" /\ End("error")
    /\ UNCHANGED <<vars, command, output, job>>

\* parse_pe_bytes raises ValueError on most files; nothing catches it.
ParsePe ==
    /\ Running("work") /\ Enriches
    /\ IF command = "analyze" /\ contents[1] \notin DOMAIN Images
       THEN Raise("value") ELSE Continue("connect")
    /\ UNCHANGED <<vars, command, output, job>>

\* LLMRouter.from_env() may raise, the stub of --no-llm does not.
Connect ==
    /\ Running("connect")
    /\ \/ router' \in {"stub", "llm"} /\ Continue("explain")
       \/ Raise("runtime") /\ UNCHANGED router
    /\ UNCHANGED <<vars, command, contents, target, output, answered, pending>>

\* explain_function: one request after the other.  The call may fail and the
\* answer may be no JSON object; then what was answered before is lost.
Explain ==
    /\ Running("explain")
    /\ LET all == Identify(Image)
       IN  \/ /\ Len(answered) < Len(all)
              /\ answered' = Append(answered, all[Len(answered) + 1])
              /\ UNCHANGED <<step, outcome, pending>>
           \/ /\ Len(answered) < Len(all) /\ router = "llm"
              /\ pending' \in {"runtime", "value"}
              /\ Continue("close") /\ UNCHANGED answered
           \/ /\ Len(answered) = Len(all)
              /\ Continue("close") /\ UNCHANGED <<answered, pending>>
    /\ UNCHANGED <<vars, command, contents, target, output, router>>

\* The finally: the router is closed, then the exception goes on.
Close ==
    /\ Running("close")
    /\ router' = "closed"
    /\ IF pending = "none" THEN Continue("write") ELSE Raise(pending)
    /\ UNCHANGED <<vars, command, contents, target, output, answered, pending>>

\* The file is truncated when it is opened, and writing may stop half-way.
WriteReport ==
    /\ Running("write")
    /\ \/ target = "stdout" /\ End("ok") /\ UNCHANGED output
       \/ /\ target = "file" /\ output' = "new"
          /\ IF command = "cfg" THEN Continue("render") ELSE End("ok")
       \/ target = "file" /\ output' \in {"old", "partial"} /\ Raise("os")
    /\ UNCHANGED <<vars, command, job>>

\* render_png: not asked for, without Graphviz, done, or failed.
RenderPng ==
    /\ Running("render")
    /\ End("ok") \/ Raise("runtime") \/ Raise("os")
    /\ UNCHANGED <<vars, command, output, job>>

-------------------------------------------------------------------------------
(* The scan command. *)

ScanIdle == command = "none" /\ pc = "idle" /\ outcome = "none"

\* A payload that is no JSON object is answered with an envelope of its own.
RefusePayload ==
    /\ ScanIdle
    /\ command' = "scan" /\ step' = "print" /\ outcome' = "ok"
    /\ UNCHANGED <<vars, output, job>>

ScanPayload ==
    /\ ScanIdle
    /\ \E r \in Requests : ~r.adapter /\ Submit(r)
    /\ command' = "scan" /\ step' = "scan"
    /\ UNCHANGED <<outcome, output, job>>

\* The envelope is printed whatever it says; an exception is not.
PrintEnvelope ==
    /\ command = "scan" /\ step = "scan" /\ outcome = "none" /\ pc = "done"
    /\ End(IF envelope.kind = "exception" THEN "traceback" ELSE "ok")
    /\ UNCHANGED <<vars, command, output, job>>

CliInit ==
    /\ Init
    /\ command = "none" /\ step = "idle" /\ outcome = "none" /\ contents = <<>>
    /\ target = "stdout" /\ output = "old" /\ router = "none" /\ answered = <<>>
    /\ pending = "none"

Cli ==
    \/ ReadInput \/ Work \/ ParsePe \/ Connect \/ Explain \/ Close \/ WriteReport
    \/ RenderPng \/ PrintEnvelope

\* The scan itself, called from the command line or by the adapter.
Called ==
    /\ \/ Scan \/ Yield \/ Abandon \/ Rewrite \/ Update
       \/ command = "none" /\ \E r \in Requests : r.adapter /\ Submit(r)
    /\ UNCHANGED cli

CliNext == Called \/ Invoke \/ RefusePayload \/ ScanPayload \/ Cli

CliVars == <<vars, cli>>

CliSpec == CliInit /\ [][CliNext]_CliVars /\ WF_vars(Scan)

-------------------------------------------------------------------------------
(* Properties. *)

\* A command that fails leaves the report of an earlier run alone, unless the
\* writing itself failed; only cfg may leave a new graph next to a failed image.
FailureLeavesOutput ==
    outcome \in {"error", "traceback", "usage"} /\ output # "old" =>
        \/ step = "write" /\ output = "partial"
        \/ command = "cfg" /\ step = "render" /\ output = "new"

\* Imports come first, the entry point last.
Place(kind) == CASE kind = "import" -> 1 [] kind = "local" -> 2 [] kind = "entry" -> 3

\* A report of analyze or demo explains the functions of one content, complete
\* and in their order: every import of every library once, every local function
\* that is not imported, the entry point; and its router is closed, as it is
\* whenever one was opened.
ReportComplete ==
    /\ outcome # "none" => router \in {"none", "closed"}
    /\ outcome = "ok" /\ Enriches =>
           /\ \A k \in DOMAIN Image.imports : \E n \in DOMAIN answered :
                  answered[n].kind = "import" /\ SameFunction(answered[n], Image.imports[k])
           /\ \A k \in DOMAIN Image.functions : \E n \in DOMAIN answered :
                  /\ answered[n].name = Image.functions[k].name
                  /\ \/ answered[n].kind = "import"
                     \/ answered[n].kind = "local"
                        /\ answered[n].address = Image.functions[k].address
           /\ \E n \in DOMAIN answered : answered[n].address = Image.entry
           /\ \A m, n \in DOMAIN answered : m < n =>
                  \/ Place(answered[m].kind) < Place(answered[n].kind)
                  \/ answered[m].kind = "local" /\ answered[n].kind = "local"
                  \/ /\ answered[m].kind = "import" /\ answered[n].kind = "import"
                     /\ ~SameFunction(answered[m], answered[n])
===============================================================================
