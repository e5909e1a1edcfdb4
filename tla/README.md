# Formal models of the 005 reverse-engineering agent

TLA+ models of `src/src/ai_reverse_agent`, the TLC runs that check them on small
instances, and TLAPS proofs of the results that hold for every instance. Paths
below are relative to that package unless they begin with `src/`.

## 1. The system

The agent is a library, a command line and a gateway adapter. A payload names a
file and a set of enrichments; the answer is an *envelope* of findings or errors.

```
gateway -> adapter.scan -> scan_binary -> BinaryLoader.load      (magic.py, backends/)
                              |        -> decompile_bytes        (decompilers/)
                              |        -> extract_features       (features/)
                              |        -> evaluate rules         (deobfuscation/)
                              `------- -> imphash_finding        (findings.py, iat/db.py)
cli: disassemble, decompile, cfg, patch-diff, solve-branch, generate-yara, ...
```

There is no server and no thread pool inside: concurrency comes from outside.
Several workers or commands run on one host and share its temporary directory,
its Ghidra installation and its files; other processes rewrite a sample or the
hash database while it is read; an analyzer process runs beside the thread that
waits for it; a consumer pulls findings from a generator and may stop.

### Components, their state, and what makes each correct

| Component (sources) | State and operations | Hard behaviour | Correct when |
|---|---|---|---|
| Decompiler service, Ghidra headless backend (`decompilers/`) | chain of backends, temporary workspace, analyzer process, its output; configure, select, stage, launch, wait, leave, check, parse | two calls on one host, hanging or surviving analyzers, timeout against a late end, launcher removed between check and use | answers are of the caller's image and of a run that ended well; nothing is left behind; a call ends unless an analyzer that survived holds it, and an error names its cause |
| Bounded loading (`magic.py`, `backends/`, `iat/pe_iat.py`, `iat/elf_iat.py`) | a path, an open stream, bytes; stat, open, read header, read rest, validate, parse, load, recover | any writer between any two steps | memory is bounded; parsers only see bytes they can take; the container is that of the bytes in memory |
| Scan envelope (`scan.py`, `features/`, `deobfuscation/__init__.py`) | payload, image, functions, finding list; eight steps with early returns | file and database change between steps, each step fails in its own way | one well-formed reply about one reading of the file, whose header and rest were each the file's |
| Hash database and match (`findings.py`, `iat/db.py`, `hashing/`) | a JSON file; load, look up | malformed or missing file, records that override each other | a match is reported if and only if a trusted record is in force |
| Gateway adapter (`adapter.py`) | a generator over an envelope | a consumer that leaves | the consumer sees the report, in order |
| Disassembly and graph (`disassembler.py`, `disasm.py`, `controlflow.py`) | listing, leaders, blocks, edges; three loops | classifiers that overlap, transfers at the ends of the listing | blocks partition the listing and are maximal; edges are the flow of control |
| Function boundaries (`decompiler.py`) | runs of the listing; one loop | a second definition of "return" | functions partition the listing and are made of blocks |
| Control-flow-flattening rule (`features/cfg.py`, `deobfuscation/cff.py`, `block_stats.py`, `scoring.py`) | metrics of a graph, a score | threshold hit exactly, division by zero | ordinary code is not flagged |
| Branch solver, opaque-predicate rule (`symbolic.py`, `deobfuscation/opaque_pred.py`) | a search over assignments, two answers | exceptions in the middle of a conjunction, limits, two backends | the answer is right; the rule reports exactly the forced branches |
| Native lifter, signatures (`decompiler.py`, `signatures.py`) | stack variables, one statement per instruction, names | tables of mnemonics of its own, beside those of the graph; more than two operands | pseudo-code and graph tell one story, and none that the instructions do not |
| String recovery (`deobfuscation/string_xor.py`, `string_rc4.py`) | marker loop, two capped passes, final sort | overlap of passes, caps before ranking, two key types in one sort | results are evidence, disjoint and in order; a better text wins |
| YARA generator (`yara_gen.py`) | candidates, selection, condition | decoded strings that are not in the file | the rule matches its own sample |
| Patch diff (`patch_diff.py`) | pairs of functions, alignments | pairing by position | the report is the whole difference and nothing else |
| Command line (`cli.py`) | one invocation: inputs, an exception on its way out, a report file, a model router | a file that changes after the check that it exists, writing outside the `try`, clean-up in `finally` | a failure leaves the earlier report alone; the router is closed |
| Identification, explanation (`identifier.py`, `analyzer.py`) | the list of functions, one request for each | names that occur in several tables, failing requests | every function is explained once, or the command fails |
| Fixture PE parser (`parsers.py`), reports, integrations, constants, architecture tables, fixture builders | no state across calls | | covered by unit tests |

`PROJECT.json` lists all of them with their status.

## 2. Modules

| Module | Models | Theorems |
|---|---|---|
| `DecompileService` | what a caller of `DecompilerSelector.decompile` may rely on (abstract) | |
| `GhidraHeadless` | `selector.py`, `ghidra.py`, `ExportDecompilation.java`; implements `DecompileService` | `GhidraHeadlessProofs` |
| `StaticLoad` | `read_static_file`, `validate_bytes`, `BinaryLoader` and its backends | `StaticLoadProofs` |
| `ScanService` | what the gateway may rely on (abstract) | |
| `ReverseScan` | `scan_binary`, database, match, adapter; implements `ScanService` | `ReverseScanProofs` |
| `CommandLine` | every command of `cli.py` around `ReverseScan`, identification and explanation | `CommandLineProofs` |
| `ControlFlow` | decoding, `build_cfg`, `find_function_boundaries` | `ControlFlowProofs` |
| `Lifter` | the native decompiler and the library signatures, on the listing, blocks and edges of `ControlFlow` | `ControlFlowProofs` |
| `PatchDiff` | `diff_binaries`, on the functions of `ControlFlow` | `ControlFlowProofs` |
| `CffRule` | the control-flow-flattening rule on graphs grown block by block | `RulesProofs` |
| `StringRecovery` | `find_xor_strings` | `RulesProofs` |
| `YaraRule` | `generate_yara_rule` on the strings `StringRecovery` finds; the YARA engine | `RulesProofs` |
| `Symbolic` | `solve_branch`, both backends, `OpaquePredicateRule` | `SymbolicProofs` |
| `Comprehension` | a list comprehension with a condition: what it keeps, in order | `DataInduction` |
| `DataInduction` | no code: what the proofs need about folds, flattened sequences and sorted sets | its own |
| `MC*` | the instances TLC checks | |

`ReverseScan` uses `DecompileService` (any of its answers), and loads in two steps,
the header and the rest; `GhidraHeadless` and `StaticLoad` take these two apart.
`CommandLine` runs it in one process with the file and database of the same host.
`CffRule` takes graphs with edges of every kind `ControlFlow` builds: calls, branches
and fall-throughs. `MCControlFlow` composes `Lifter` and `PatchDiff`
with the graph they read; `MCRules` puts the analyses of one feature index together.

Definitions whose comment begins with "Mutant" or "Mutated form" model nothing.
They are wrong variants of the definition that follows them (a dropped guard, a
missing reset) and serve to check that each property fails when the code is wrong.

### GhidraHeadless

One call is `pc[r]`: `idle`, `select`, then `lift`, or `stage`, `launch`, `wait`,
`drain`, `leave`, `check`, and `done`; each value is a point between two calls of the
code (`_run_headless` from top to bottom). `chain` is the backends tuple of the
selector, `workspace` the `TemporaryDirectory`, `disk` the `sample.bin` files on the
host, `process` and `stdout` the analyzer and what it printed, `pending` the
exception or the normal completion that leaves the `with` block.

* `Select` freezes the choice: nothing later asks `available()` again, so `Launch`
  may find the launcher gone (`installed` is toggled by the host).
* `Timeout` may happen at any time of the wait, also when the analyzer has just
  ended. `subprocess.run` kills the process it started; when that is a script
  (`Forks`), the analyzer may survive as `orphaned` and keep the directory, and
  then `LeaveFails` replaces the exception on its way out.
* `Drain` is the second `communicate()` of `subprocess.run` on Windows (`Platforms`), which
  has no timeout: while an orphaned analyzer holds the pipes the call waits for it
  (`Held`), for ever if the analyzer hangs. `DecompileService` has this as `held`: every
  call is answered that is not held for ever.
* Output is decoded as text when it is collected, and bytes that are none raise "decode",
  an exception the code does not turn into one of its own.
* Output is the *set* of printed lines. The parser's answer depends on whether a
  prefixed line fails to decode and on which records there are, not on their
  order. A record's fields are abstracted to the function they describe.
* `Exported` models the escaping of the Java script: U+0085, U+2028 and U+2029
  pass and cut a record when Python splits lines.

### StaticLoad

A file is a size in blocks, a magic in its first block and a tag for the rest;
`Write` and `Replace` are the other processes. The stream is buffered, so `Read`
returns the first block as it was when the header was read, and the rest as it is
later. Callers are the two `iat/` parsers (path or bytes) and `BinaryLoader` with
three chains of backends, with and without fallback. The table walks of the
parsers are one step that succeeds or raises. A fallback follows `MagicError` only; what
else a third-party parser raises leaves the loader as "parser".

### ReverseScan

One action per stage of `scan_binary` with its early returns and its `try`:
`Validate`, `Locate`, `Open`, `Load`, `Decompile`, `Describe`, `Enrich`, `Lookup`,
`Summarise`. `Rewrite` and `Update` change the file and the database between any
two, also between the header that `Open` reads and the rest that `Load` reads. What is
in memory is therefore a *reading*, a head and a rest, and need not be any content
the file ever had; `seen` records the contents the file has had. Exceptions leave the scan from
three places: resolving the path and asking whether it is a file ("path"), a parser that
raises what the `try` does not list ("parser"), and `Lookup`, which runs outside the
`try` ("database", "records"). `Yield` and `Abandon` are the
adapter's generator and its consumer. A hash is an opaque value; the dictionary
of the database (the last record of a key wins) is modelled record by record.

### ControlFlow

Every turn of every loop is a step: `Decode`/`Stop` (Capstone, one instruction at
a time, ending at the first bytes it cannot decode), `Lead`, `Collect`, `Flush`,
`Connect` (`build_cfg`), `Bound`, `Finish` (`find_function_boundaries`). The
classifiers (`IsReturn`, `IsCall`, ...) are the code's tables and prefix tests. An opcode
is a mnemonic, its register operands, and `prefix`, the answer of the prefix tests,
so a mnemonic that is in no table (`jalx`, `b.w`) is any value with that prefix.
What an instruction does is no code and no list of the model: `Meaning` is a constant
that says what the architecture has each opcode do, and `Deferred` the opcodes whose
transfer the last operand does not tell, because it comes an instruction late (delay
slots of MIPS) or because the operand is a distance (RISC-V). `Successors` follows from
the two, and `FlowSound` and `FlowCovered` compare the graph with it. Every result that
depends on an architecture is relative to these constants.
`build_cfg` first sorts by address; a listing Capstone decodes is sorted already
(`ListingLinear`), so the sort has no step.

### CommandLine

The commands differ in data, not in control, so each is a `Profile`: how many files
it reads, what its work may raise, which exceptions become a message, whether the
`try` covers the writing (only in `cfg`), and where the report can go. One invocation
is `Invoke`, `ReadInput` once per file, `Work` (or `ParsePe`, `Connect`, `Explain`,
`Close` for `analyze` and `demo`), `WriteReport`, and `RenderPng` for `cfg`. `pending` is
the exception that passes through `finally`. `output` is the report file: opening it
truncates it, so a failed write leaves it `partial`. `Identify` is
`identify_functions`. The `scan` command submits a payload to `ReverseScan` and prints
the envelope.

### Lifter and PatchDiff

Both read a finished `ControlFlow` listing. In `Lifter` a statement is its kind (`set`,
`update`, `call`, `goto`, `if`, `return`, `comment`) with its operands; operand texts
are values, `Parts` splits them at commas and `Slot` says which are stack slots. A
signature is compared with the first bytes of a function. The lifter's own tables and
prefix tests (`IsLiftedBranch`) are kept beside those of the graph. `PatchDiff` computes
what `SequenceMatcher` does without its junk heuristic, which the code turns off:
the longest common block, the first of them, and the same on both sides of it. The
key of an instruction holds its bytes, so a transfer whose distance to its target
changed is another instruction. A `Window` is a part of each listing still to be aligned:
without a common block all of it is a change, and otherwise what is before the
longest block and what is after it are aligned in turn. A baseline is a listing as the
disassembler yields it, from the same address (`IsListing`).

### StringRecovery and YaraRule

Bytes are numbers with a real exclusive or; their width, the classes of
characters and the caps are constants. The weights and thresholds are those of the
code, exact, so a run of letters without a known word scores at most 77 of the
82 needed. Each pass is a step: `RecoverTagged`, `BruteForce`, `InferKeys`,
`SortResults`, which raises when two results at one offset have keys of different
types. The passes hold a tagged record to be of different lengths, as in the code:
the first with its header, the second without. `YaraRule` goes on with `Generate`;
`MatchesSample` is the engine's answer for the file the rule was made from.

### CffRule

Computes the metrics and signals of one graph when the rule runs. A block is tiny or not,
ends in a call, a conditional or other jump, a return or none of these, names a target or
none, and may go through a register (`indirect`, which the code counts for calls as for
jumps). `Digraph` holds every edge, those of calls included, so a recursive or backward call
makes a component. `Evaluate` also takes the index's own word for a dispatcher
(`declared`, the fact `cff_dispatcher`). Whether networkx counts the entry as its own
dominator is a choice. Scores are
exact hundredths. For all 64 sets of signals the code's floating-point sum is on
the same side of 0.7 as the exact one, so the comparison is the same.

### Symbolic

`Solve` checks the domains and the limit and picks the backend; `Candidate` is one
turn of the mini backend's loop, in the order of `itertools.product`; `Exhaust`
its end; `AskZ3` the z3 backend; `Return` gives the answer to the client or to
the rule, which negates its last constraint and asks again. An expression over a symbol is
z3's: Euclidean division, and by zero any value, the quotient and the remainder
each one of its own for every dividend (`Unspecified`). An expression of two constants never
gets to z3 (`Folded`): Python computes it, `//` as a true division, and by zero it
raises (`FoldFails`). The true quotient is compared exactly, as the code's float is for
numbers below 2^53. For nonlinear constraints z3 may say "unknown". Integers are unbounded in
Python and in the model.

## 3. Runs

| Run | Instance | Shows |
|---|---|---|
| `ghidra` | two calls, two images with two and one functions, two directories, a forking launcher, either platform; both breaking and ordinary records | `WorkspaceOwned`, `GhidraAnswerFaithful`, `NothingLeftBehind`, `NoLateFallback`, `FailureExplained`; `ImplementsService` (safety and liveness) |
| `ghidra_timeout_typed` | two calls, one image, one directory | *violated*: a timeout can surface as `OSError` |
| `static_load` | limit of 1 block, files of up to 3, two inodes, one body tag, every caller | `MemoryBounded`, `ParsersBounded`, `ContainerOfTheBytes`, `UndisturbedReadIsExact`, `CallAnswered` |
| `scan` | two PE files and a script, and every reading of the head of one before the rest of another; databases that are absent, corrupt, and with records in either order; every command (968,472 states) | `ReportWellFormed`, `MatchIffCurated`, `AttributedToItsBackend`, `ConsumerSeesTheReport`, `FailureLeavesOutput`, `ReportComplete`; `ImplementsService` |
| `scan_database_failure` | few files and databases | *violated*: a database failure raises out of the scan |
| `cfg_build` | all x86 listings of up to four bytes with instructions of one and two bytes, a mnemonic of each class, targets on, inside and outside the listing; all RISC-V listings of that length with a return through `jr`; two signatures, three baselines (1,155,864 states) | `BlocksPartition`, `BlocksMaximal`, `FlowCovered`, `FlowSound`, `FunctionsPartition`, `FunctionsOfBlocks`, `LiftFollowsGraph`, `DiffExact` |
| `cfg_transfers` | ARM conditional branches | *violated*: some transfers end no block |
| `lift_invents` | MIPS: an addition of three operands, a jump, a return | *violated*: pseudo-code claims what the instruction does not do |
| `rules` | all graphs of up to six blocks of six shapes (plain, conditional, jump, call, jump and call through a register; tiny or not; two targets), with and without a declared dispatcher; all files of up to three three-bit bytes and those of up to three pieces (records, cut-off records, text, encoded text, noise) | `StraightCodePasses`, `ResultsSortable`, `ResultsAreEvidence`, `BetterTextWins`, `SampleMatched` |
| `yara_self_match` | the same files, raw | *violated*: a rule with decoded strings does not match its sample |
| `symbolic_mini` | up to two of 40 constraints over two symbols, quotients and remainders of constants among them, limits 0, 8 and 9 | `MiniDecides`, `OpaqueIsForced`, `EffortBounded`, `Ends` |
| `symbolic_z3` | five constraints, four with a division | *violated*: z3's witness may fail the constraint |

### Why the bounds are enough

* `ghidra`: all shared state is pairwise (who holds a directory, whose image is on
  it), so two calls show every interference; two directories let both calls run
  at once. Function sets of two and one separate "all", "some" and "none", and
  an image's functions from the other's. Each call may run on either platform, since
  nothing is shared that depends on it. No symmetry is used. The theorems lift
  the bounds for the safety properties.
* `static_load`: sizes 0 to `Limit + 2` include empty, below, at, one over and
  far over. Two inodes are the one that is open and the one the path names now;
  one body tag is enough to tell a torn read, because sizes and magics differ too.
* `scan`: a database of two records in either order is enough for an override, and the
  databases also hold a record of the other algorithm and an invalid digest. The
  violated run needs one of two files and one record only. Readings pair any head with
  any rest, among them one that parses though the file never held it and one that does
  not parse. One invocation is enough
  for the command line, since nothing outlives it but the report file; the PE
  tables hold one name in two libraries, a local function that is imported, and an
  entry point of its own and one shared with a function.
* `cfg_build`: four bytes hold a block before, at and after a jump target, and an
  instruction that a target may hit in its middle. The theorems lift the bound.
  The baselines have no function, one and two, so a function may be added in front,
  removed and changed.
* `rules`, graphs: six blocks are the least at which all size-dependent signals can
  occur together, and calls back into the listing make loops that no jump makes.
* `rules`, files: three bits give two vowels of either case, a consonant, a separator,
  an accented letter and control characters, and every key keeps two runs of three
  apart from each other. Caps of three candidates, two and one results are reached;
  a single-byte text, a repeating-key text and a record meet at one place.
* `symbolic_mini`: expressions are one operator deep because the search sees only
  the value of a constraint, and domains hold a zero, negatives and a divisor.
  The product of the domains is 9, so limits 8 and 9 are just below and at it.
  `-2 .. 2` for z3's undefined divisions contains every constant compared with.
  Expressions of two constants and the second domain of `x` are compared for equality
  only: the one is enough to reach a folded and a raising division, the other to reach
  the check that a symbol keeps its domain.

Runs of `ControlFlow`, `MCRules` and `Symbolic` do not check deadlock: these are
computations that end. The other models run on for ever, because the host does.

### Fairness

* `GhidraHeadless`: weak fairness of the steps of each calling thread. A thread
  runs until it returns, and its first wait is bounded by the finite timeout that the
  code always passes. Analyzers get none: they may hang, and an orphaned one that does
  keeps `Drain` from ever being enabled. `DecompileService` says that much: its strong fairness
  of `Answer` asks for an answer of each call that is not held for ever.
* `StaticLoad`, `ReverseScan`: weak fairness of the one reading or scanning
  thread. Writers, the database and the consumer of the adapter get none.
* `CommandLine`: that of `ReverseScan`; the user need not invoke anything.
* `Symbolic`: weak fairness of the caller's thread.

Whatever the other processes do, the steps of a thread stay enabled, `Drain`
excepted, so weak fairness is all that is assumed of the code.

## 4. What the checks found

Six runs show the code doing something other than a document or comment says.
`PROJECT.json` quotes both sides of each.

1. `TimeoutIsTyped`: when the analyzer survives the kill of its launcher, removing
   the workspace raises `OSError` in place of `GhidraTimeoutError`
   (`decompilers/ghidra.py:94`).
2. `DatabaseFailureIsStructured`: `imphash_finding` is called outside the `try`
   (`scan.py:203`).
3. `TransfersEndBlocks`: branch mnemonics of the supported architectures that the
   tables do not list (`controlflow.py:47`).
4. `LiftInventsNothing`: three operands are parted at the first comma, so MIPS
   `addiu $v0, $a0, 1` becomes `$v0 += $a0, 1;`, and MIPS `j` becomes conditional
   (`decompiler.py:258`, `:261`).
5. `RuleMatchesItsSample`: strings decoded from XOR data rank first and become
   literals in plain text, which the file does not hold; the condition asks for
   two literals (`yara_gen.py:214`, `:157`). `SampleMatched` shows that this is the
   only way to fail: with enough literals read from the file the rule matches.
6. `WitnessSatisfies`: where z3 divides by zero it may take any value, so a witness of
   `x // y == -2` has `x = y = 0`, for which the constraint raises (`symbolic.py:312`).

Smaller observations have no run.

* `Path.expanduser`, `resolve` and `is_file` run before anything is guarded, so an unknown
  home directory, a NUL character or a directory that may not be searched raises
  (`scan.py:59`; `ReverseScan` contains the step as the exception "path").
* The `try` around loading lists `OSError`, `RuntimeError` and `ValueError`; anything else
  that pefile or pyelftools raises leaves the scan (`scan.py:92`; the exception "parser").
* On Windows a call may never be answered, since the wait after the kill has no timeout
  (`ghidra.py:112`; `Drain`).
* Output of the analyzer that is no text in the expected encoding raises
  `UnicodeDecodeError`, which no error class of the package covers (`ghidra.py:112`).
* The decompiler counts `iret` as a return and the graph does not, so a function may end
  inside a block (`decompiler.py:46`; excluded in `FunctionsAreOfBlocks`).
* A branch of RISC-V has a distance for its last operand, and a transfer of MIPS takes
  effect an instruction later; the graph knows neither (`Deferred`).
* z3 is given the true quotient of two constants, where the other backend divides to the
  floor (`symbolic.py:312`).
* The length of the bytes read is not compared with the limit, only the size before
  the open is: a file that grows in between is loaded although it is one byte over
  (`magic.py:38`; `MemoryBounded` allows for that byte).
* `str.splitlines()` breaks a Ghidra record at U+0085, U+2028 and U+2029, which the
  Java script leaves unescaped; the run then ends in an output error
  (`ExportDecompilation.java:86`; `Exported` and `Lines` contain it).
* `end_address` of a Ghidra function at the top of the address space wraps
  (`ExportDecompilation.java:41`); records carry no addresses in the model.
* `decompile` does not catch the errors of the Ghidra backend, and `analyze` and
  `demo` catch nothing: these end in a traceback (`cli.py:290`, `cli.py:576`), as the
  profiles of `CommandLine` say.
* ARM returns that load the program counter end no function (`decompiler.py:46`).
* A loop of six small blocks with one `if` inside can reach a flattening score of
  exactly 0.7.

## 5. Proofs

52 listed theorems, for every value of the constants that satisfies the named
assumption of the module. Every safety property the passing runs check has one. Of the
six claims that runs refute, five have a theorem that says under which condition they
are so; the sixth has the weaker `SampleMatched`.

**GhidraHeadlessProofs** (any number of calls, images, functions, directories).
None of the properties is inductive alone: that a directory holds the caller's
image needs to know that no other call names it, and that an answer is faithful
needs to know where each printed line came from. `IInv` is `TypeOK`, "each
directory on disk is some call's workspace", and for each call: it has an image
once it began; from staging to leaving it owns a directory with that image; its
analyzer is alive only while it waits; everything still to export or printed is of
its image; it is answered only when done; and a Ghidra answer is what was recorded.
`OthersKeepInv` shows once that a step of one call preserves these facts of all
others; each action then has a lemma that treats its own call, conjunct by
conjunct. From `IInv`: `TypeCorrect`, `WorkspacesAreOwned`, `AnswersAreFaithful`,
`CallsCleanUp`. `AnswerInv` adds what explains an answer (nothing was started for a
call that native code serves; an exception of class e has the reason for e behind it):
`NativeIsNoLateFallback`, `FailuresAreExplained`. `HeadlessImplementsService` is the
safety part of the refinement. A call is `Asked` when it has an image; configuring and
selecting is asking, finishing with any of the outcomes is `Answer`, and all steps of
analyzers and host stutter, except for an orphan that holds its call (`Hold`) and lets go of
it (`Release`). `TimeoutsAreTold` follows `TimeoutExpired` from the wait to the answer:
the timeout is the answer, or an orphaned analyzer still holds the directory and the answer is
`OSError`; nothing else can come of it. (On Windows
the wait may not end, or end with "decode".) An orphan needs a launcher that forks, so
`TimeoutsAreTypedWithoutForks` has the documented claim for those that do not.

**StaticLoadProofs** (any limit, excess, inodes and bodies). `IInv` ties each point of
the call to what is in memory: the stream is open in the two reads only; nothing is
in memory before the read ends and at most one block over the limit after; a
rejection leads to the fallback only. `Intact` says that a call no other process
disturbed still has the file it has stat'ed, which makes `UndisturbedReadsAreExact`
provable: the second part of a buffered read may come from other content than the first.
Also `TypeCorrect`, `MemoryIsBounded`, `ParsersAreBounded`, `ContainerIsOfTheBytes`,
`StreamsAreClosed`.

**ReverseScanProofs** (any samples, detections, databases of any length). `IInv`: the
head and the rest in memory are each a content the file had during the call; the reading is
taken before anything is said of it and never changes again; each finding
collected is about it; a match is in the list exactly when the records that were
read warrant it (`Warranted` says so by quantifiers, the model by the loop of the
code); the envelope is written once; and what was yielded is a prefix of it. From it:
`TypeCorrect`, `ReportsAreWellFormed`, `MatchesAreCurated`, `FindingsAreAttributed`,
`ConsumersSeeTheReport`, and `ScanImplementsService`, the safety part of the refinement:
one reply, and one with findings is about one reading whose head and rest the file
held during the call, not necessarily at one time.
`EscapesAreExplained` says of each exception that leaves the scan in the model at which stage it
comes: of the path or of a parser before anything is in memory, for a request that was
admitted; of the database when a requested lookup read one that it cannot use. Hence
`ReadableDatabasesNeverEscape`.

**CommandLineProofs** extends it. `CliSpecIsSpec` shows that an invocation and the scan
inside it only takes steps of `ReverseScan`, so `CalledScansAreSound` and
`CommandLineImplementsService` carry over. `CliInv` follows the report file, the router
and the answers through the steps: `FailuresLeaveTheOutput`, `RoutersAreClosed`,
`EveryFunctionIsExplained`. With what `identify_functions` lists it gives
`ReportsAreComplete`: the imports it keeps are the first of each name and library
(`KeepInOrder`: a kept position is where the element was, and positions stay in order),
so each occurs and none occurs twice; a function of the table that is left out has an
import of its name, and an entry point that is left out is the address of another.

**ControlFlowProofs** (any instruction set, base and length). `IInv` adds to the type
invariant what each loop has done so far: the listing is a chain of adjacent
instructions; `leaders` holds the leaders of what was walked; the finished
blocks cover what precedes the open one, begin at a leader and have none inside; the edges so far are those of the blocks walked;
the functions cover what precedes the open one. From it: `TypeCorrect`,
`ListingIsLinear`, `BlocksArePartition`, `BlocksAreMaximal`, `EdgesEndAtBlocks`,
`FunctionsArePartition`. `GraphIsTheFlow` says that the graph is exactly the flow
of control, both ways, on the condition `Recognised`: each opcode that occurs has the
`Meaning` of the class the code puts it in, and none is `Deferred`. `NoFlowIsInvented` is the one
direction by itself; the run `cfg_transfers` shows what happens without. The theorem
names no architecture: for a given one, `Recognised` is to be checked against its manual, and
it fails for MIPS, and for ARM with the conditions the tables lack.
`FunctionsAreOfBlocks` holds where no `iret` occurs: the lemma `OnlyInterruptsDisagree`
shows that the two definitions of a return differ in nothing else.
`PseudoCodeFollowsTheGraph` is about the lifter: its body of a block is joined from the
statements of the instructions, so the last statement is that of the last instruction, and
for every opcode except those in `Divergent` (prefix `b.`, `j`, `iret`, `iretd`,
`iretq`) the two sets of tables give it a kind that fits the edges. Two claims that runs
refute hold under a condition: `TransfersAreLast` under `Recognised`, and
`PseudoCodeInventsNothing` where the lifter's names of jumps and branches have that `Meaning`
(`NamesTrue`) and no arithmetic has three operands, which is to say that these are the
only ways in which it fails.

The patch diff is proved in the same module, for any two listings (`DiffIsExact`).
`Certified` says what the deltas of one window amount to: they tell a part of
either side, in order, and what they do not tell corresponds one to one, in
order and with equal keys. `UnmatchedCertified` shows it of the replace, delete and insert of a
window without a common block; `BlockCertified` that a certificate of what is before a
common block and one of what is after it make one of the whole; `WithinCertified` that
the recursion ends, by induction over the width of windows, since both parts of a window are
narrower. `ListingsCompared` joins the certificates of all pairs of functions, with
those that have no partner, into one of the whole listings: the functions divide either
listing (`FunctionsArePartition`, `BodiesDivide`), whatever their number. Last, where the
certificate of a report without any delta covers both listings, their instructions
have the same keys, and since both begin at the base and each instruction
where the one before it ends, they are equal (`ListingsEqual`): so nothing is reported only
if nothing changed. `AtReturns` is the invariant that ties the functions the diff
computes for the baseline (`BoundariesOf`) to those the loop of `ControlFlow` finds.

**SymbolicProofs** (any symbols, expressions, number of constraints, limits). `IInv`
says that the search has tried finitely many assignments, an initial segment in
order and none of them a witness, that a path is solved only after the one before
it, and that each answer given decides its question. From it: `TypeCorrect`,
`SearchDecides` (the first witness, or none exists), and `RuleIsExact` (the rule
reports a branch exactly when it is forced). `EffortIsBounded` needs that there are
finitely many assignments (`FiniteAssignments`) and that those tried are among them.
`WitnessesSatisfy` is about both backends, under `DivisionsAgree`: every divisor is
positive, and a constant that is divided by a constant leaves no remainder. Then they read
every constraint alike (`BackendsAgree`), so z3's witnesses satisfy the constraints and what
it says is unsatisfiable is, products and quotients of symbols apart.

**RulesProofs** (any graph, any file, words, classes of bytes and caps, any request).

* The flattening rule: where no dispatcher is declared, the weights sum up to the flagging
  score only with a cycle of edges of any kind, calls included, or with three branches into
  one block, whatever the graph's size: `StraightCodeIsNeverFlagged`.
* String recovery: `RecoveredSoFar` says what each stage holds, and `Held` what is
  true of it: each record is evidence (`IsTag` or `IsReading`), and no two overlap.
  `PassAccepts` shows it of one greedy pass over any candidates, once, with the loop as
  a fold; `TaggedAreTags`, `SinglesAreCandidates`, `RepeatingAreCandidates` show what the
  candidates are. Records that do not overlap differ in their offset, so
  the final sort never gets to compare keys: `ResultsAlwaysSort`. With
  `GoodTextHoldsWord` (a text without a known word scores at most 77)
  this gives `ResultsAreAlwaysEvidence`. `RankedByScore` shows that the candidates are
  walked in the order of their scores, so a candidate passed over lost to an earlier one:
  `BetterTextAlwaysWins`.
* YARA rules: `RuleInv` says that a rule is made of literals of the file, each with
  its provenance, and that its range of sizes holds the file's. Selection keeps literals
  apart and unchanged (`SelectedAreLiterals`), so those read from the file as text
  all match, and there are as many of them as positions: `SampleAlwaysMatched`.

**DataInduction** has no theorem about the code. The library's induction theorems take
an operator as a parameter, which the provers cannot instantiate; here induction is
stated of a *set* (of the numbers up to which something holds, of the subsets of a
finite set), and from it follows what the folds, `FlattenSeq`, the least and greatest
element, a sort by rank and `Keep` yield: that they are defined, their type, and where their
elements come from. `Keep` replaces `SelectSeq`, a recursion the provers get no
definition of, by the positions that are kept (`AscendingEnumerates`).

Some assumptions state what the proofs showed to be needed, and the code has: the
bodies of files are not empty as a set (`StaticLoad`); the caps of tagged records, the
shortest run and the divisor of the key share are positive, the known words are finitely many
(`StringRecovery`); the shortest run of a literal is positive, and no file is longer
than the loader's limit, which is also the cap of a rule's upper size (`YaraRule`); the
tables of an image are lists (`CommandLine`), baselines are listings that begin at the base
(`PatchDiff`), each opcode has one meaning and the prefix its mnemonic is spelled with
(`ControlFlow`), and z3 gives a division by zero some value (`Symbolic`).

The proofs also corrected the model. A `CASE` with overlapping arms left a choice to
TLC's order in the container of `StaticLoad` and in the reply of `ReverseScan`; a
`SUBSET` bound tighter than meant in `DecompileService`; and the rank of an element in
`StringRecovery` counted the element itself where the order is not irreflexive.

### Only model-checked

* liveness: `Ends`, `CallAnswered`, and the liveness part of the two refinements
  (the prover has no rules for `ENABLED`);
* `RuleMatchesItsSample`, refuted, for which `SampleMatched` says when a rule matches.

`ListingLinear`, `EdgesLand`, `StreamClosed`, `RouterClosed` and
`EveryFunctionExplained` are proved only.

## 6. Not modelled

Text: the wording of findings, pseudo-C, listings, Markdown and Graphviz output.
Bytes: the import-table walks of `iat/` (one step that succeeds or raises), hash
functions, RC4, the walks of `parsers.py` over a fixture's tables (one step that
yields a table or raises). Libraries: Capstone, pefile, pyelftools, networkx, z3,
Ghidra, difflib and YARA appear only through what the code does with their
results. Scanning is not run again from inside a command, and one invocation is
modelled, not several at once: commands share nothing but files, which the host
changes anyway. Components without state across calls are listed with their reason in `PROJECT.json`.

## 7. Plan

1. The order of `SequenceMatcher`'s longest block: `DiffExact` needs that blocks are
   common, not that they are the longest, so a bound on the size of a report is still to
   be stated.
2. When the literals of a rule that were not read from the file as text do match,
   as the names of imports mostly do: a theorem between `SampleMatched` and the claim of the tests.
3. The import walks of `iat/` and `parsers.py`, on files of a few words.
